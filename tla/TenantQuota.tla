----------------------------- MODULE TenantQuota -----------------------------
(***************************************************************************)
(* The per-tenant in-flight quota (runlet/src/quota.rs): a plan table, a   *)
(* map from the trusted tenant to its in-flight count, and RAII guards.    *)
(*                                                                         *)
(* Every operation on the map is done under its mutex, so each is one      *)
(* action.                                                                 *)
(***************************************************************************)
EXTENDS Workload, Naturals, FiniteSets

CONSTANTS
    JobPlan,     \* job -> the plan its identity carries (configured or not)
    plans        \* PlanLimits.plans: plan -> max_concurrent

ASSUME QuotaAssumption ==
    /\ plans \in [DOMAIN plans -> Nat]

VARIABLES
    inflight,    \* TenantQuota.inflight: the tenants with executions in flight
    guards       \* the jobs that hold a QuotaGuard

quotaVars == <<inflight, guards>>

-----------------------------------------------------------------------------

Limits == {plans[p] : p \in DOMAIN plans}

\* PlanLimits::most_restrictive: the least limit, 0 for an empty table.
MostRestrictive ==
    IF Limits = {} THEN 0 ELSE CHOOSE n \in Limits : \A m \in Limits : n <= m

\* PlanLimits::limit_for
LimitFor(plan) == IF plan \in DOMAIN plans THEN plans[plan] ELSE MostRestrictive

Usage(t) == IF t \in DOMAIN inflight THEN inflight[t] ELSE 0

\* Mutant: refuse above the limit instead of at or above it.
AllowedAtLimit(t, plan) == Usage(t) <= LimitFor(plan)

\* PlanLimits::check at the tenant's current usage.
Allowed(t, plan) == Usage(t) < LimitFor(plan)

QuotaInit == inflight = <<>> /\ guards = {}

\* TenantQuota::admit, allowed: count the execution and hand out its guard.
QuotaAdmit(j) ==
    LET t == JobTenant[j] IN
    /\ j \notin guards
    /\ Allowed(t, JobPlan[j])
    /\ inflight' = [x \in DOMAIN inflight \cup {t} |->
                       IF x = t THEN Usage(t) + 1 ELSE inflight[x]]
    /\ guards' = guards \cup {j}

\* TenantQuota::admit, refused: nothing is counted.
QuotaRefused(j) ==
    /\ ~Allowed(JobTenant[j], JobPlan[j])
    /\ UNCHANGED quotaVars

\* QuotaGuard::drop: decrement; the entry is removed when it reaches zero.
QuotaDrop(j) ==
    LET t == JobTenant[j] IN
    /\ j \in guards
    /\ inflight' = IF Usage(t) > 1
                   THEN [inflight EXCEPT ![t] = @ - 1]
                   ELSE [x \in DOMAIN inflight \ {t} |-> inflight[x]]
    /\ guards' = guards \ {j}

\* The end of the guard's scope, where it may be None.
QuotaScopeEnds(j) == IF j \in guards THEN QuotaDrop(j) ELSE UNCHANGED quotaVars

QuotaNext == \E j \in Jobs : QuotaAdmit(j) \/ QuotaDrop(j)

\* What the quota promises its users: the table changes only by an admission or
\* the drop of a guard (quota.rs admit, QuotaGuard::drop).
QuotaSpec == QuotaInit /\ [][QuotaNext]_quotaVars

-----------------------------------------------------------------------------

GuardsOf(t) == {j \in guards : JobTenant[j] = t}

QuotaTypeOK ==
    /\ guards \subseteq Jobs
    /\ DOMAIN inflight \subseteq Tenants
    /\ inflight \in [DOMAIN inflight -> Nat \ {0}]

\* The count the next admission reads is the number of guards alive, for every
\* tenant and whatever executions of other tenants come and go.
UsageExact == \A t \in Tenants : Usage(t) = Cardinality(GuardsOf(t))

\* The plan cap holds at every instant although a tenant's executions may
\* arrive under different plans and end in any order: of a tenant's live
\* executions, at most k were admitted under a limit of k or less.
PlanShare ==
    \A t \in Tenants : \A k \in 0..Cardinality(Jobs) :
        Cardinality({j \in GuardsOf(t) : LimitFor(JobPlan[j]) <= k}) <= k

\* quota.rs:97-98: the map is bounded by the live tenants; a tenant without
\* executions has no entry.
LiveTenantsOnly == DOMAIN inflight = {JobTenant[j] : j \in guards}

\* quota.rs:8-10, fail-closed: at whatever usage, a plan that is not in the
\* table is admitted only where every configured plan is, and never by an
\* empty table.
FailClosed ==
    \A t \in Tenants : \A j \in Jobs :
        JobPlan[j] \notin DOMAIN plans /\ Allowed(t, JobPlan[j]) =>
            /\ DOMAIN plans # {}
            /\ \A p \in DOMAIN plans : Allowed(t, p)
=============================================================================
