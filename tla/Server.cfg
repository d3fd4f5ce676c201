SPECIFICATION ServerFairSpec
CONSTANTS
    r1 = r1
    k1 = k1
    i1 = i1
    i2 = i2
    pre = pre
    post = post
    t1 = t1
    p1 = p1
    NoKey = NoKey
    Requests = {r1}
    TestRuns = {}
    Batches = {k1}
    Items <- MCItems
    Befores = {pre}
    Afters = {post}
    BatchOf <- MCBatchOf
    Jobs <- MCJobs
    Tenants = {t1}
    JobTenant <- MCTenant
    JobPlan <- MCPlan
    plans <- MCPlans
    Asserted <- MCAsserted
    Buckets = {p1}
    BucketOf <- MCBucketOf
    Trusted = TRUE
    QuotaOn = TRUE
    MaxConcurrent = 1
    MaxPerPartition = 2
    Disconnects = TRUE
INVARIANTS
    PlanShare
    HoldingsMatchStep
    BatchDiscipline
    WorkAccounted
PROPERTIES
    BulkheadSpec
    BatchesSettle
CHECK_DEADLOCK FALSE
