------------------------------ MODULE MCServer ------------------------------
(* Server on an /execute request and a batch with a before phase, two items *)
(* and an after phase.  All are of one tenant; the request comes under a    *)
(* plan that is not in the table.                                            *)
EXTENDS Server, TLC

CONSTANTS r1, k1, i1, i2, pre, post, t1, p1

MCItems == {i1, i2}
MCJobs == {r1, pre, post} \cup MCItems
MCBatchOf == [j \in MCJobs \ {r1} |-> k1]
MCTenant == [j \in MCJobs |-> t1]
MCPlan == [j \in MCJobs |-> IF j = r1 THEN "mystery" ELSE "pro"]
MCPlans == [free |-> 1, pro |-> 2]
MCBucketOf == t1 :> p1
MCAsserted == [j \in MCJobs |-> NoKey]
=============================================================================
