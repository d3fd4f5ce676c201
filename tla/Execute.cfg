SPECIFICATION FairSpec
CONSTANTS
    r1 = r1
    r2 = r2
    r3 = r3
    t1 = t1
    t2 = t2
    b1 = b1
    NoKey = NoKey
    Jobs <- MCRequests
    Requests <- MCRequests
    Tenants <- MCTenants
    JobTenant <- MCTenant
    JobPlan <- MCPlan
    plans <- MCPlans
    Asserted <- MCAsserted
    Buckets = {b1}
    BucketOf <- MCBucketOf
    Trusted = FALSE
    QuotaOn = TRUE
    MaxConcurrent = 1
    MaxPerPartition = 1
    TestRuns = {r2}
    Disconnects = TRUE
INVARIANTS
    UncoveredTasksAbandoned
    RequestsAccounted
PROPERTIES
    ServerStops
CHECK_DEADLOCK FALSE
