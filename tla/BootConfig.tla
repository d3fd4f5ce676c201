----------------------------- MODULE BootConfig -----------------------------
(***************************************************************************)
(* Which configurations a box starts with (runlet/src/config/guards.rs):   *)
(* the environment is merged over the file, then check_exposure refuses    *)
(* what would leave a reachable box unguarded or deny every request.       *)
(*                                                                         *)
(* Addresses, tokens and URLs are what the guards tell apart: whether the  *)
(* bind is exposed, whether a token is set, where a local binding points,  *)
(* which fields of the contract settings are filled in.                    *)
(***************************************************************************)

None == "none"

VALID_PRINCIPAL_KINDS == {"user", "apikey", "service"}

\* jwks_url, issuer and audience: none of them has a safe default.
ContractFields == {"jwks_url", "issuer", "audience"}

\* apply_auth_overrides: a token that is not empty wins over the file; a truthy opt-out
\* sets the file's and never clears it.
Load(file, env) ==
    [file EXCEPT
        !.access_token = IF env.access_token \in {None, "empty"} THEN @ ELSE env.access_token,
        !.allow_unauthenticated = @ \/ env.allow_unauthenticated = "truthy"]

\* check_trusted_isolation
TrustedIsolation(c) == c.trusted /\ c.exposed => c.assert_network_isolation

\* check_ssrf_relaxation; relaxed is debug or engine.allow_wildcard_hosts.
RelaxationIsolated(c) == c.relaxed /\ c.exposed => c.assert_network_isolation

\* check_local_resources: box-direct bindings are co-located.
LocalResourcesPrivate(c) == \A name \in DOMAIN c.local_resources :
                                c.local_resources[name] = "private"

\* check_contract_config
ContractConfigured(c) == c.contract => c.contract_fields = ContractFields

\* check_principal_kind_admission
PrincipalKindsKnown(c) ==
    c.allowed_principal_kinds # {} =>
        c.contract /\ c.allowed_principal_kinds \subseteq VALID_PRINCIPAL_KINDS

\* check_exposure
CheckExposure(c) ==
    /\ c.exposed => c.access_token # None \/ c.allow_unauthenticated
    /\ TrustedIsolation(c)
    /\ RelaxationIsolated(c)
    /\ LocalResourcesPrivate(c)
    /\ ContractConfigured(c)
    /\ PrincipalKindsKnown(c)
=============================================================================
