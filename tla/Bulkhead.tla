------------------------------ MODULE Bulkhead ------------------------------
(***************************************************************************)
(* The two concurrency limits of the box: the global bulkhead              *)
(* (AppState.limiter, a tokio semaphore) and the per-partition buckets     *)
(* (runlet-core/src/partition.rs), with the key that selects a bucket      *)
(* (resolve_partition in runlet/src/handler/gates.rs).                     *)
(*                                                                         *)
(* /execute only ever tries a permit; a /batch item waits for one.  A      *)
(* tokio semaphore serves its waiters first: a permit that is released     *)
(* while jobs wait goes to the oldest waiter and is never seen as          *)
(* available.                                                              *)
(***************************************************************************)
EXTENDS Workload, Naturals, Sequences, FiniteSets

CONSTANTS
    Asserted,          \* job -> the caller-asserted partition key, or NoKey
    NoKey,             \* no partition key
    Trusted,           \* BOOLEAN: trusted-header mode
    Buckets,           \* the fixed array of buckets
    BucketOf,          \* partition key -> bucket: the stable hash
    MaxConcurrent,     \* permits of the global bulkhead
    MaxPerPartition    \* permits of each bucket; 0 disables fairness

ASSUME BulkheadAssumption ==
    /\ Trusted \in BOOLEAN
    /\ MaxConcurrent \in Nat /\ MaxPerPartition \in Nat
    /\ \A j \in Jobs : /\ BucketOf[JobTenant[j]] \in Buckets
                       /\ Asserted[j] # NoKey => BucketOf[Asserted[j]] \in Buckets

VARIABLES
    available,         \* Semaphore::available_permits of the limiter
    waiters,           \* the limiter's queue of waiting jobs
    permits,           \* the jobs that hold a global permit
    bucket_available,  \* permits left in each bucket
    bucket_permits     \* the jobs that hold a bucket permit

globalVars == <<available, waiters, permits>>
bucketVars == <<bucket_available, bucket_permits>>
bulkheadVars == <<globalVars, bucketVars>>

-----------------------------------------------------------------------------

\* resolve_partition: the trusted tenant, else what the caller asserts.
Partition(j) == IF Trusted THEN JobTenant[j] ELSE Asserted[j]

\* Whether acquire_permits consults the limiter: PartitionLimiter::new is None
\* when disabled, and a request without a key is not limited.
Limited(j) == MaxPerPartition > 0 /\ Partition(j) # NoKey

\* PartitionLimiter::bucket_for
Bucket(j) == BucketOf[Partition(j)]

BulkheadInit ==
    /\ available = MaxConcurrent /\ waiters = <<>> /\ permits = {}
    /\ bucket_available = [b \in Buckets |-> MaxPerPartition]
    /\ bucket_permits = {}

\* PartitionLimiter::try_acquire
TryBucket(j) ==
    /\ Limited(j)
    /\ j \notin bucket_permits
    /\ bucket_available[Bucket(j)] > 0
    /\ bucket_available' = [bucket_available EXCEPT ![Bucket(j)] = @ - 1]
    /\ bucket_permits' = bucket_permits \cup {j}

BucketBusy(j) == Limited(j) /\ bucket_available[Bucket(j)] = 0

\* The drop of a bucket permit.
ReleaseBucket(j) ==
    /\ j \in bucket_permits
    /\ bucket_available' = [bucket_available EXCEPT ![Bucket(j)] = @ + 1]
    /\ bucket_permits' = bucket_permits \ {j}

BucketScopeEnds(j) ==
    IF j \in bucket_permits THEN ReleaseBucket(j) ELSE UNCHANGED bucketVars

Waiting(j) == \E i \in 1..Len(waiters) : waiters[i] = j

\* Semaphore::try_acquire_owned on the limiter.
TryGlobal(j) ==
    /\ j \notin permits /\ ~Waiting(j)
    /\ available > 0
    /\ available' = available - 1
    /\ permits' = permits \cup {j}
    /\ UNCHANGED waiters

GlobalBusy == available = 0

\* Semaphore::acquire_owned, first poll with no permit left: join the queue.
QueueGlobal(j) ==
    /\ j \notin permits /\ ~Waiting(j)
    /\ available = 0
    /\ waiters' = Append(waiters, j)
    /\ UNCHANGED <<available, permits>>

\* The drop of a global permit: to the oldest waiter, else back to the pool.
ReleaseGlobal(j) ==
    /\ j \in permits
    /\ IF waiters = <<>>
       THEN /\ available' = available + 1
            /\ permits' = permits \ {j}
            /\ UNCHANGED waiters
       ELSE /\ permits' = (permits \ {j}) \cup {Head(waiters)}
            /\ waiters' = Tail(waiters)
            /\ UNCHANGED available

\* A waiting acquire is dropped.
CancelWait(j) ==
    \E i \in 1..Len(waiters) :
        /\ waiters[i] = j
        /\ waiters' = [k \in 1..(Len(waiters) - 1) |->
                          IF k < i THEN waiters[k] ELSE waiters[k + 1]]
        /\ UNCHANGED <<available, permits>>

\* The permit, or the wait for it, goes out of scope.
GlobalScopeEnds(j) ==
    IF j \in permits THEN ReleaseGlobal(j)
    ELSE IF Waiting(j) THEN CancelWait(j)
    ELSE UNCHANGED globalVars

BulkheadNext ==
    \E j \in Jobs :
        \/ (TryGlobal(j) \/ QueueGlobal(j) \/ ReleaseGlobal(j) \/ CancelWait(j))
           /\ UNCHANGED bucketVars
        \/ (TryBucket(j) \/ ReleaseBucket(j)) /\ UNCHANGED globalVars
        \/ GlobalScopeEnds(j) /\ BucketScopeEnds(j)

\* What the bulkhead promises its users: permits change hands only by one of the
\* semaphores' own operations, or at the end of the scope that holds them.
BulkheadSpec == BulkheadInit /\ [][BulkheadNext]_bulkheadVars

-----------------------------------------------------------------------------

BulkheadTypeOK ==
    /\ available \in 0..MaxConcurrent
    /\ waiters \in Seq(Jobs)
    /\ permits \subseteq Jobs
    /\ bucket_available \in [Buckets -> 0..MaxPerPartition]
    /\ bucket_permits \subseteq {j \in Jobs : Limited(j)}

\* No permit is lost or made up, on any path a job can leave by: the free and
\* the held permits are the configured capacity, globally and in each bucket.
PermitsConserved ==
    /\ available + Cardinality(permits) = MaxConcurrent
    /\ MaxPerPartition > 0 =>
          \A b \in Buckets :
             bucket_available[b]
             + Cardinality({j \in bucket_permits : Bucket(j) = b})
                = MaxPerPartition

\* A queued batch item is never overtaken: while a job waits no permit is
\* available for a try_acquire of /execute, and a waiting job holds none.
QueueServedFirst ==
    waiters # <<>> => /\ available = 0
                      /\ \A i \in 1..Len(waiters) : waiters[i] \notin permits
=============================================================================
