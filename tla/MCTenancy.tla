------------------------------ MODULE MCTenancy ------------------------------
(***************************************************************************)
(* Two requests.  The first may send many combinations of headers, tokens  *)
(* and bodies; the second shares its contract, its source or its partition *)
(* with some of them.                                                      *)
(***************************************************************************)
EXTENDS Tenancy

MCRequests == {"r1", "r2"}

\* "a" \o "ba" and "ab" \o "a" are the same bytes.
MCBytes == [a |-> <<1>>, ab |-> <<1, 2>>, s_ba |-> <<2, 1>>, s_a |-> <<1>>, s_x |-> <<3, 3>>]
MCTexts == DOMAIN MCBytes
MCBroken == {"s_x"}
MCMinSourceBytes == 1

\* Files: single-tenant, plain headers, contract, contract for users only; and what must
\* not start.
Base ==
    [exposed |-> FALSE, access_token |-> None, allow_unauthenticated |-> FALSE,
     trusted |-> FALSE, assert_network_isolation |-> FALSE, relaxed |-> FALSE,
     contract |-> FALSE, contract_fields |-> {}, allowed_principal_kinds |-> {},
     local_resources |-> [near |-> "private"], entitlements |-> [db |-> "db_user"],
     events |-> TRUE]

Plain == [Base EXCEPT !.trusted = TRUE, !.exposed = TRUE, !.assert_network_isolation = TRUE]
Contract == [Plain EXCEPT !.contract = TRUE, !.contract_fields = ContractFields]

MCFiles ==
    {Base, Plain, Contract,
     [Base EXCEPT !.exposed = TRUE, !.relaxed = TRUE],
     [Base EXCEPT !.exposed = TRUE, !.access_token = "tok", !.events = FALSE],
     [Base EXCEPT !.local_resources = [near |-> "public"]],
     [Plain EXCEPT !.assert_network_isolation = FALSE],
     [Plain EXCEPT !.allowed_principal_kinds = {"user"}],
     [Contract EXCEPT !.contract_fields = {"issuer"}],
     [Contract EXCEPT !.allowed_principal_kinds = {"user"}]}

MCEnvs == {[access_token |-> t, allow_unauthenticated |-> a] :
              t \in {None, "empty", "tok"}, a \in {None, "truthy"}}

\* What the edge injects.
Headers ==
    [tenant |-> "a", user |-> "u1", roles |-> {}, entitlements |-> {"db_user", "blank"},
     suspended |-> "absent", anonymous |-> "absent", plan |-> "pro", scope |-> "acting",
     mode |-> "live", capture |-> "absent", partition |-> "absent"]

HeaderSets ==
    {Headers,
     [Headers EXCEPT !.tenant = "ab", !.user = "u2", !.mode = "Playground", !.capture = "1",
                     !.partition = "a"],
     [Headers EXCEPT !.tenant = "blank", !.suspended = "TRUE", !.entitlements = {},
                     !.partition = "ab"],
     [Headers EXCEPT !.entitlements = {"other"}, !.mode = "test"],
     [Headers EXCEPT !.anonymous = "true"],
     [Headers EXCEPT !.suspended = "no", !.scope = "absent"],
     [Headers EXCEPT !.suspended = "1", !.roles = {"db_user"}]}

\* The contracts in circulation.
Claims ==
    [workspace_id |-> "a", sub |-> "u1", principal_kind |-> "user", on_behalf_of |-> None,
     roles |-> {}, entitlements |-> {{"db_user"}}, suspended |-> "no", plan |-> "pro"]

Missing == [is |-> "missing"]
Signed(claims) == [is |-> "signed", claims |-> claims]

Tokens ==
    {Missing, Signed(Claims),
     Signed([Claims EXCEPT !.workspace_id = "ab", !.principal_kind = "apikey",
                           !.on_behalf_of = "u1", !.entitlements = {}]),
     Signed([Claims EXCEPT !.suspended = "yes"]), Signed([Claims EXCEPT !.suspended = None]),
     Signed([Claims EXCEPT !.workspace_id = None])}

Body ==
    [parses |-> TRUE, io |-> {"db", "near"}, hosts |-> FALSE, s3 |-> FALSE,
     names |-> "script", oversize |-> None, source |-> "s_ba", logs |-> TRUE,
     partition |-> None]

Bodies ==
    {Body, [Body EXCEPT !.io = {"near"}, !.source = "s_a", !.hosts = TRUE, !.partition = "ab"],
     [Body EXCEPT !.io = {}, !.s3 = TRUE, !.source = "s_x"]}

Refused ==
    {[Body EXCEPT !.parses = FALSE], [Body EXCEPT !.names = "unknown_key"],
     [Body EXCEPT !.names = "neither_or_both"], [Body EXCEPT !.oversize = "SCRIPT_TOO_LARGE"],
     [Body EXCEPT !.oversize = "CONTEXT_TOO_LARGE"]}

Sent(b, h, t, d) == [bearer |-> b, headers |-> h, token |-> t, body |-> d]

MCInputs ==
    [r1 |-> {Sent("tok", h, t, Body) : h \in HeaderSets, t \in Tokens}
              \cup {Sent("tok", h, Signed(Claims), d) : h \in HeaderSets, d \in Bodies}
              \cup {Sent("tok", Headers, Signed(Claims), d) : d \in Refused}
              \cup {Sent("other", Headers, Signed(Claims), Body)},
     r2 |-> {Sent("tok", Headers, Signed(Claims), Body),
             Sent("tok", [Headers EXCEPT !.tenant = "ab", !.mode = "test"], Signed(Claims),
                  [Body EXCEPT !.source = "s_a", !.io = {}])}]
=============================================================================
