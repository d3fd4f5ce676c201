------------------------------ MODULE Identity ------------------------------
(***************************************************************************)
(* Who a request acts for (runlet/src/identity.rs, authz.rs, the claims of *)
(* contract.rs and the identity gates of handler/gates.rs).                *)
(*                                                                         *)
(* A raw header is "absent", "blank" or its trimmed text; a raw list is    *)
(* the set of its items.  A contract token is missing or the claims it was *)
(* signed over; what verify says of it depends on the keys and the clock   *)
(* (ContractKeys) and is an input here.                                    *)
(***************************************************************************)
EXTENDS BootConfig

\* header_value: a blank header counts as an absent one.
HeaderValue(raw) == IF raw \in {"absent", "blank"} THEN None ELSE raw

\* header_list: blank items are dropped.
HeaderList(raw) == raw \ {"blank"}

Lowered(text) ==
    CASE text = "TRUE" -> "true" [] text = "Playground" -> "playground" [] OTHER -> text

\* header_flag
HeaderFlag(raw) == Lowered(HeaderValue(raw)) \in {"true", "1"}

\* header_mode: a run is live unless the edge marks it as a test.
HeaderMode(raw) ==
    IF Lowered(HeaderValue(raw)) \in {"test", "playground"} THEN "test" ELSE "live"

\* TrustedIdentity::default
Nobody ==
    [tenant |-> None, user |-> None, grants |-> {}, suspended |-> FALSE, anonymous |-> FALSE,
     plan |-> None, kind |-> None, behalf |-> None, scope |-> None, mode |-> "live",
     capture |-> FALSE]

\* from_headers; roles and entitlements are one membership pool (has_grant).
FromHeaders(h) ==
    [Nobody EXCEPT
        !.tenant = HeaderValue(h.tenant), !.user = HeaderValue(h.user),
        !.grants = HeaderList(h.roles) \cup HeaderList(h.entitlements),
        !.suspended = HeaderFlag(h.suspended), !.anonymous = HeaderFlag(h.anonymous),
        !.plan = HeaderValue(h.plan), !.scope = HeaderValue(h.scope),
        !.mode = HeaderMode(h.mode), !.capture = HeaderFlag(h.capture)]

\* Claims::into_verified; the entitlements claim is a set of none or one list.
IntoVerified(c) ==
    [tenant |-> c.workspace_id, user |-> c.sub, kind |-> c.principal_kind,
     behalf |-> c.on_behalf_of,
     grants |-> c.roles \cup UNION c.entitlements,
     suspended |-> c.suspended, plan |-> c.plan]

\* Mutant: the claims fill in only what the headers left open.
ApplyContractUnder(id, claims) ==
    [id EXCEPT
        !.tenant = IF id.tenant = None THEN claims.tenant ELSE id.tenant,
        !.user = claims.user, !.grants = claims.grants,
        !.plan = claims.plan, !.kind = claims.kind, !.behalf = claims.behalf,
        !.anonymous = FALSE, !.suspended = FALSE]

\* apply_contract: the claims overrule every sensitive header; mode and capture stay.
ApplyContract(id, claims) ==
    [id EXCEPT
        !.tenant = claims.tenant, !.user = claims.user, !.grants = claims.grants,
        !.plan = claims.plan, !.kind = claims.kind, !.behalf = claims.behalf,
        !.anonymous = FALSE, !.suspended = FALSE]

\* What a gate answers: the code it refuses with (None: it lets the request by),
\* the identity, and whom a refusal is attributed to.
Refuse(code, who) == [code |-> code, identity |-> Nobody, who |-> who]
Accept(id) == [code |-> None, identity |-> id, who |-> id]

\* ContractError::code, for every way verify refuses a token.
ContractCodes == {"CONTRACT_MALFORMED", "CONTRACT_UNKNOWN_KEY", "CONTRACT_KEYS_UNAVAILABLE",
                  "CONTRACT_INVALID", "CONTRACT_VERSION_UNSUPPORTED"}

\* What verifier.verify may say: the claims stand (None), or a refusal.
Verdicts == {None} \cup ContractCodes

\* resolve_identity_contract
ResolveContract(h, token, verdict) ==
    IF token.is = "missing" THEN Refuse("CONTRACT_MISSING", Nobody)
    ELSE IF verdict # None THEN Refuse(verdict, Nobody)
    ELSE LET claims == IntoVerified(token.claims)
             id == ApplyContract(FromHeaders(h), claims)
         IN CASE claims.suspended = "yes" -> Refuse("SUSPENDED_FORBIDDEN", id)
              [] claims.suspended = None -> Refuse("SUSPENDED_UNKNOWN", id)
              [] OTHER -> IF id.tenant = None THEN Refuse("TENANT_REQUIRED", id)
                          ELSE Accept(id)

\* resolve_identity, the path without a contract: hard rejects in this order.
ResolvePlain(h) ==
    LET id == FromHeaders(h)
    IN IF id.anonymous THEN Refuse("ANONYMOUS_FORBIDDEN", id)
       ELSE IF id.suspended THEN Refuse("SUSPENDED_FORBIDDEN", id)
       ELSE IF id.tenant = None THEN Refuse("TENANT_REQUIRED", id)
       ELSE IF id.scope # "acting" THEN Refuse("ACTING_SCOPE_REQUIRED", id)
       ELSE Accept(id)

\* principal_kind_admitted: no list admits every kind; a list, only its members.
PrincipalKindAdmitted(allowed, kind) == allowed = {} \/ kind \in allowed

\* resolve_identity, with the settings c of the box.
ResolveIdentity(c, h, token, verdict) ==
    IF ~c.trusted THEN Accept(Nobody)
    ELSE LET gate == IF c.contract THEN ResolveContract(h, token, verdict) ELSE ResolvePlain(h)
         IN IF gate.code = None
               /\ ~PrincipalKindAdmitted(c.allowed_principal_kinds, gate.identity.kind)
              THEN Refuse("PRINCIPAL_KIND_FORBIDDEN", gate.identity)
              ELSE gate

\* Mutant: any entitlement opens every gate.
AuthorizeAny(c, requested, id) ==
    c.trusted => \A kind \in requested \cap DOMAIN c.entitlements : id.grants # {}

\* enforce_member_authz, authorize_capabilities: each gated capability that is requested
\* takes the entitlement of its own.
Authorize(c, requested, id) ==
    c.trusted => \A kind \in requested \cap DOMAIN c.entitlements : c.entitlements[kind] \in id.grants

\* Mutant: what the caller asserts goes first.
PartitionAsserted(c, id, asserted) ==
    IF c.trusted /\ asserted = None THEN id.tenant ELSE asserted

\* resolve_partition: the tenant in trusted mode, else what the caller asserts.
ResolvePartition(c, id, asserted) == IF c.trusted THEN id.tenant ELSE asserted

\* header_partition before the field of the body.
Asserted(h, body) ==
    IF HeaderValue(h.partition) # None THEN HeaderValue(h.partition) ELSE body.partition

\* requested_capabilities: the names in config.io, and http and s3 when configured.
RequestedCapabilities(body) ==
    body.io \cup (IF body.hosts THEN {"http"} ELSE {}) \cup (IF body.s3 THEN {"s3"} ELSE {})

\* broker_names: what no box-direct binding serves.
BrokerNames(c, body) == body.io \ DOMAIN c.local_resources

\* wire_init: a session is opened for the verified principal only.
WireInit(names, id) ==
    [resources |-> names, tenant |-> id.tenant, actor |-> id.user, kind |-> id.kind,
     behalf |-> id.behalf]

\* request_authorized, enforce_auth: without a configured token everyone passes.
Authorized(c, bearer) == c.access_token # None => bearer = c.access_token
=============================================================================
