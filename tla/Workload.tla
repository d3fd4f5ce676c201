------------------------------ MODULE Workload ------------------------------
(***************************************************************************)
(* The work the box is asked to do.  A job is one execution that is        *)
(* admitted, charged and metered on its own: an /execute request, a /batch *)
(* item, or a before/after phase of a batch.                               *)
(***************************************************************************)
EXTENDS FiniteSets

CONSTANTS
    Jobs,        \* the executions
    Tenants,     \* the tenant ids the edge may assert
    JobTenant    \* job -> its tenant (TrustedIdentity.tenant in trusted mode)

ASSUME WorkloadAssumption ==
    /\ IsFiniteSet(Jobs)
    /\ JobTenant \in [Jobs -> Tenants]
=============================================================================
