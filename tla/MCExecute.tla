------------------------------ MODULE MCExecute ------------------------------
(* Execute on three requests of two tenants that share a bucket, under a    *)
(* configured plan, a stricter one and one that is not in the table.        *)
EXTENDS Execute, TLC

CONSTANTS r1, r2, r3, t1, t2, b1

MCRequests == {r1, r2, r3}
MCTenants == {t1, t2}
MCTenant == r1 :> t1 @@ r2 :> t1 @@ r3 :> t2
MCPlan == r1 :> "pro" @@ r2 :> "mystery" @@ r3 :> "free"
MCPlans == [free |-> 1, pro |-> 2]
MCBucketOf == t1 :> b1 @@ t2 :> b1
MCAsserted == r1 :> t1 @@ r2 :> NoKey @@ r3 :> t1
=============================================================================
