---------------------------- MODULE ServerProofs ----------------------------
(***************************************************************************)
(* The tenant quota and the bulkhead, and the server that is made of them. *)
(*                                                                         *)
(* The first two parts prove each component, for every set of jobs,        *)
(* tenants, plans, permits and buckets.  The third shows that the server   *)
(* implements both: every step of a handler, an item or a phase is one of  *)
(* their steps or leaves them alone, so that what is proved of them holds  *)
(* of the server.  The last shows that what a handler, an item or a phase  *)
(* holds is determined by the step it is at.  Its proof separates the      *)
(* step's own job, one action at a time, from all others, for which the    *)
(* only possible change is that the oldest waiter is handed a permit.      *)
(***************************************************************************)
EXTENDS Server, FiniteSetTheorems, TLAPS

-----------------------------------------------------------------------------
(* The tenant quota.  UsageExact together with the types is inductive; the *)
(* other invariants rest on it                                             *)

\* most_restrictive is a configured limit that no configured limit is below,
\* so limit_for always yields a number.
LEMMA MostRestrictiveIsLeast ==
    /\ MostRestrictive \in Nat
    /\ \A m \in Limits : MostRestrictive <= m
<1>1. Limits \subseteq Nat
  BY QuotaAssumption DEF Limits, QuotaAssumption
<1>2. CASE Limits = {}
  BY <1>2 DEF MostRestrictive
<1>3. CASE Limits # {}
  <2> DEFINE Less == {ss \in Nat \X Nat : ss[1] < ss[2]}
  <2>1. PICK n \in Limits : \A y \in Limits : ~ (<<y, n>> \in Less)
    <3>1. IsWellFoundedOn(Less, Nat)
      BY NatLessThanWellFounded, Zenon DEF OpToRel
    <3> HIDE DEF Less
    <3> QED
      BY <1>1, <1>3, <3>1, WFMin, Zenon
  <2>2. ASSUME NEW m \in Limits PROVE n <= m
    <3>1. m \in Nat /\ n \in Nat
      BY <1>1
    <3>2. <<m, n>> \in Nat \X Nat /\ <<m, n>>[1] = m /\ <<m, n>>[2] = n
      BY <3>1
    <3>3. ~(<<m, n>>[1] < <<m, n>>[2])
      BY <2>1, <3>2, Zenon
    <3> QED
      BY <3>1, <3>2, <3>3
  <2>3. \E x \in Limits : \A m \in Limits : x <= m
    BY <2>2
  <2> QED
    BY <1>1, <1>3, <2>3, Zenon DEF MostRestrictive
<1> QED
  BY <1>2, <1>3

\* Every plan, configured or not, has a numeric limit.
LEMMA LimitForType == ASSUME NEW plan PROVE LimitFor(plan) \in Nat
  BY MostRestrictiveIsLeast, QuotaAssumption DEF LimitFor, QuotaAssumption

\* The guards of a tenant are finitely many.
LEMMA GuardsFinite ==
    ASSUME QuotaTypeOK, NEW t
    PROVE  IsFiniteSet(GuardsOf(t)) /\ Cardinality(GuardsOf(t)) \in Nat
<1>1. GuardsOf(t) \in SUBSET Jobs
  BY DEF GuardsOf, QuotaTypeOK
<1> QED
  BY <1>1, FS_Subset, FS_CardinalityType, WorkloadAssumption DEF WorkloadAssumption

\* The inductive invariant of the table and its guards.
QuotaInv == QuotaTypeOK /\ UsageExact

\* Initially no tenant has an entry and no guard exists.
LEMMA QuotaInitInv == QuotaInit => QuotaInv
<1> SUFFICES ASSUME QuotaInit PROVE QuotaInv
  OBVIOUS
<1>1. DOMAIN inflight = {}
  BY DEF QuotaInit
<1>2. QuotaTypeOK
  BY <1>1 DEF QuotaTypeOK, QuotaInit
<1>3. \A t \in Tenants : GuardsOf(t) = {} /\ Usage(t) = 0
  BY <1>1 DEF GuardsOf, QuotaInit, Usage
<1> QED
  BY <1>2, <1>3, FS_EmptySet DEF QuotaInv, UsageExact

\* An admission keeps the count of every tenant exact.
LEMMA QuotaAdmitInv ==
    ASSUME QuotaInv, NEW j \in Jobs, QuotaAdmit(j) PROVE QuotaInv'
<1> DEFINE t == JobTenant[j]
<1>1. t \in Tenants
  BY WorkloadAssumption DEF WorkloadAssumption
<1>2. Usage(t) \in Nat
  BY DEF Usage, QuotaInv, QuotaTypeOK
<1>3. QuotaTypeOK'
  BY <1>1, <1>2 DEF QuotaAdmit, QuotaInv, QuotaTypeOK
<1>4. ASSUME NEW u \in Tenants PROVE Usage(u)' = Cardinality(GuardsOf(u)')
  <2>1. IsFiniteSet(GuardsOf(u)) /\ Usage(u) = Cardinality(GuardsOf(u))
    BY GuardsFinite DEF QuotaInv, UsageExact
  <2>2. CASE u = t
    <3>1. GuardsOf(u)' = GuardsOf(u) \cup {j} /\ j \notin GuardsOf(u)
      BY <2>2 DEF GuardsOf, QuotaAdmit
    <3>2. Usage(u)' = Usage(u) + 1
      BY <2>2 DEF Usage, QuotaAdmit
    <3> QED
      BY <2>1, <3>1, <3>2, FS_AddElement
  <2>3. CASE u # t
    <3>1. GuardsOf(u)' = GuardsOf(u)
      BY <2>3 DEF GuardsOf, QuotaAdmit
    <3>2. Usage(u)' = Usage(u)
      BY <2>3 DEF Usage, QuotaAdmit
    <3> QED
      BY <2>1, <3>1, <3>2
  <2> QED
    BY <2>2, <2>3
<1> QED
  BY <1>3, <1>4 DEF QuotaInv, UsageExact

\* So does the drop of a guard: the saturating decrement never saturates and
\* the entry that is removed stood at one.
LEMMA QuotaDropInv ==
    ASSUME QuotaInv, NEW j \in Jobs, QuotaDrop(j) PROVE QuotaInv'
<1> DEFINE t == JobTenant[j]
<1>1. t \in Tenants
  BY WorkloadAssumption DEF WorkloadAssumption
<1>2. IsFiniteSet(GuardsOf(t)) /\ Usage(t) = Cardinality(GuardsOf(t)) /\ Usage(t) \in Nat
  BY <1>1, GuardsFinite DEF QuotaInv, UsageExact
<1>3. j \in GuardsOf(t)
  BY DEF GuardsOf, QuotaDrop
<1>4. Usage(t) # 0
  BY <1>2, <1>3, FS_EmptySet
<1>5. t \in DOMAIN inflight /\ Usage(t) = inflight[t]
  BY <1>4 DEF Usage
<1>6. QuotaTypeOK'
  <2>1. CASE Usage(t) > 1
    BY <1>1, <1>2, <1>5, <2>1 DEF QuotaDrop, QuotaInv, QuotaTypeOK
  <2>2. CASE ~(Usage(t) > 1)
    BY <2>2 DEF QuotaDrop, QuotaInv, QuotaTypeOK
  <2> QED
    BY <2>1, <2>2
<1>7. ASSUME NEW u \in Tenants PROVE Usage(u)' = Cardinality(GuardsOf(u)')
  <2>1. IsFiniteSet(GuardsOf(u)) /\ Usage(u) = Cardinality(GuardsOf(u))
    BY GuardsFinite DEF QuotaInv, UsageExact
  <2>2. CASE u = t
    <3>1. GuardsOf(u)' = GuardsOf(u) \ {j}
      BY <2>2 DEF GuardsOf, QuotaDrop
    <3>2. Cardinality(GuardsOf(u)') = Usage(u) - 1
      BY <1>3, <2>1, <2>2, <3>1, FS_RemoveElement, Zenon
    <3>3. Usage(u)' = Usage(u) - 1
      <4>1. CASE Usage(t) > 1
        BY <1>5, <2>2, <4>1 DEF Usage, QuotaDrop
      <4>2. CASE ~(Usage(t) > 1)
        <5>1. Usage(t) = 1
          BY <1>2, <1>4, <4>2
        <5>2. t \notin DOMAIN inflight'
          BY <4>2 DEF QuotaDrop
        <5> QED
          BY <2>2, <5>1, <5>2 DEF Usage
      <4> QED
        BY <4>1, <4>2
    <3> QED
      BY <3>2, <3>3
  <2>3. CASE u # t
    <3>1. GuardsOf(u)' = GuardsOf(u)
      BY <2>3 DEF GuardsOf, QuotaDrop
    <3>2. Usage(u)' = Usage(u)
      BY <1>5, <2>3 DEF Usage, QuotaDrop
    <3> QED
      BY <2>1, <3>1, <3>2
  <2> QED
    BY <2>2, <2>3
<1> QED
  BY <1>6, <1>7 DEF QuotaInv, UsageExact

\* The inductive step.
LEMMA QuotaNextInv == QuotaInv /\ [QuotaNext]_quotaVars => QuotaInv'
<1> SUFFICES ASSUME QuotaInv, [QuotaNext]_quotaVars PROVE QuotaInv'
  OBVIOUS
<1>1. CASE UNCHANGED quotaVars
  BY <1>1 DEF quotaVars, QuotaInv, QuotaTypeOK, UsageExact, Usage, GuardsOf
<1>2. CASE QuotaNext
  BY <1>2, QuotaAdmitInv, QuotaDropInv DEF QuotaNext
<1> QED
  BY <1>1, <1>2

\* The in-flight table is well typed and its count is the number of live
\* guards of each tenant, in every state of the quota.
THEOREM QuotaExact == QuotaSpec => [](QuotaTypeOK /\ UsageExact)
<1>1. QuotaSpec => []QuotaInv
  BY QuotaInitInv, QuotaNextInv, PTL DEF QuotaSpec
<1>2. QuotaInv => QuotaTypeOK /\ UsageExact
  BY DEF QuotaInv
<1> QED
  BY <1>1, <1>2, PTL

-----------------------------------------------------------------------------
(* The consequences and the plan cap                                       *)

\* quota.rs:97-98: an entry of the table and a live guard imply each other.
LEMMA EntriesAreLive == QuotaInv => LiveTenantsOnly
<1> SUFFICES ASSUME QuotaInv PROVE LiveTenantsOnly
  OBVIOUS
<1>1. ASSUME NEW t \in DOMAIN inflight PROVE \E j \in guards : JobTenant[j] = t
  <2>1. t \in Tenants /\ Usage(t) # 0
    BY <1>1 DEF QuotaInv, QuotaTypeOK, Usage
  <2>2. GuardsOf(t) # {}
    BY <2>1, FS_EmptySet DEF QuotaInv, UsageExact
  <2> QED
    BY <2>2 DEF GuardsOf
<1>2. ASSUME NEW j \in guards PROVE JobTenant[j] \in DOMAIN inflight
  <2> DEFINE t == JobTenant[j]
  <2>1. t \in Tenants
    BY WorkloadAssumption DEF WorkloadAssumption, QuotaInv, QuotaTypeOK
  <2>2. IsFiniteSet(GuardsOf(t)) /\ GuardsOf(t) # {}
    BY GuardsFinite, Zenon DEF QuotaInv, GuardsOf
  <2>3. Usage(t) # 0
    BY <2>1, <2>2, FS_EmptySet DEF QuotaInv, UsageExact
  <2> QED
    BY <2>3 DEF Usage
<1> QED
  BY <1>1, <1>2, Zenon DEF LiveTenantsOnly

\* quota.rs:8-10: the limit of an unknown plan is below every configured one.
LEMMA UnknownPlanIsRestricted == QuotaInv => FailClosed
<1> SUFFICES ASSUME QuotaInv, NEW t \in Tenants, NEW j \in Jobs,
                    JobPlan[j] \notin DOMAIN plans, Allowed(t, JobPlan[j])
             PROVE  DOMAIN plans # {} /\ \A p \in DOMAIN plans : Allowed(t, p)
  BY DEF FailClosed
<1>1. Usage(t) \in Nat
  BY GuardsFinite DEF QuotaInv, UsageExact
<1>2. Usage(t) < MostRestrictive
  BY DEF Allowed, LimitFor
<1>3. DOMAIN plans # {}
  BY <1>1, <1>2 DEF MostRestrictive, Limits
<1>4. ASSUME NEW p \in DOMAIN plans PROVE Allowed(t, p)
  <2>1. plans[p] \in Limits /\ plans[p] \in Nat /\ LimitFor(p) = plans[p]
    BY QuotaAssumption DEF QuotaAssumption, Limits, LimitFor
  <2> QED
    BY <1>1, <1>2, <2>1, MostRestrictiveIsLeast DEF Allowed
<1> QED
  BY <1>3, <1>4

\* The live executions of t that were admitted under a limit of at most k.
StrictGuards(t, k) == {j \in GuardsOf(t) : LimitFor(JobPlan[j]) <= k}

\* An admission under a limit of at most k finds at most that many live.
LEMMA AdmitKeepsShare ==
    ASSUME QuotaInv, PlanShare, NEW j \in Jobs, QuotaAdmit(j) PROVE PlanShare'
<1> SUFFICES ASSUME NEW t \in Tenants, NEW k \in 0..Cardinality(Jobs)
             PROVE  Cardinality(StrictGuards(t, k)') <= k
  BY DEF PlanShare, StrictGuards
<1>1. Cardinality(Jobs) \in Nat /\ IsFiniteSet(Jobs)
  BY FS_CardinalityType, WorkloadAssumption DEF WorkloadAssumption
<1>2. Cardinality(StrictGuards(t, k)) <= k
  BY DEF PlanShare, StrictGuards
<1>3. CASE JobTenant[j] = t /\ LimitFor(JobPlan[j]) <= k
  <2>1. IsFiniteSet(GuardsOf(t)) /\ Usage(t) = Cardinality(GuardsOf(t)) /\ Usage(t) \in Nat
    BY GuardsFinite DEF QuotaInv, UsageExact
  <2>2. Usage(t) + 1 <= k
    BY <1>1, <1>3, <2>1, LimitForType DEF QuotaAdmit, Allowed
  <2>3. IsFiniteSet(GuardsOf(t) \cup {j}) /\ Cardinality(GuardsOf(t) \cup {j}) <= Usage(t) + 1
    BY <2>1, FS_AddElement
  <2>4. StrictGuards(t, k)' \in SUBSET (GuardsOf(t) \cup {j})
    BY <1>3 DEF StrictGuards, GuardsOf, QuotaAdmit
  <2>5. /\ Cardinality(StrictGuards(t, k)') <= Cardinality(GuardsOf(t) \cup {j})
        /\ Cardinality(StrictGuards(t, k)') \in Nat
        /\ Cardinality(GuardsOf(t) \cup {j}) \in Nat
    BY <2>3, <2>4, FS_Subset, FS_CardinalityType
  <2> QED
    BY <1>1, <2>1, <2>2, <2>3, <2>5
<1>4. CASE ~(JobTenant[j] = t /\ LimitFor(JobPlan[j]) <= k)
  <2>1. StrictGuards(t, k)' = StrictGuards(t, k)
    BY <1>4 DEF StrictGuards, GuardsOf, QuotaAdmit
  <2> QED
    BY <1>2, <2>1
<1> QED
  BY <1>3, <1>4

\* A drop only makes the sets smaller.
LEMMA DropKeepsShare ==
    ASSUME QuotaInv, PlanShare, NEW j \in Jobs, QuotaDrop(j) PROVE PlanShare'
<1> SUFFICES ASSUME NEW t \in Tenants, NEW k \in 0..Cardinality(Jobs)
             PROVE  Cardinality(StrictGuards(t, k)') <= k
  BY DEF PlanShare, StrictGuards
<1>1. Cardinality(Jobs) \in Nat
  BY FS_CardinalityType, WorkloadAssumption DEF WorkloadAssumption
<1>2. StrictGuards(t, k) \in SUBSET GuardsOf(t)
  BY DEF StrictGuards
<1>3. StrictGuards(t, k)' \in SUBSET StrictGuards(t, k)
  BY DEF StrictGuards, GuardsOf, QuotaDrop
<1>4. IsFiniteSet(StrictGuards(t, k))
  BY <1>2, GuardsFinite, FS_Subset DEF QuotaInv
<1>5. /\ Cardinality(StrictGuards(t, k)') <= Cardinality(StrictGuards(t, k))
      /\ Cardinality(StrictGuards(t, k)') \in Nat /\ Cardinality(StrictGuards(t, k)) \in Nat
  BY <1>3, <1>4, FS_Subset, FS_CardinalityType
<1>6. Cardinality(StrictGuards(t, k)) <= k
  BY DEF PlanShare, StrictGuards
<1> QED
  BY <1>1, <1>5, <1>6

\* With no guard every set is empty.
LEMMA InitKeepsShare == QuotaInit => PlanShare
<1> SUFFICES ASSUME QuotaInit, NEW t \in Tenants, NEW k \in 0..Cardinality(Jobs)
             PROVE  Cardinality(StrictGuards(t, k)) <= k
  BY DEF PlanShare, StrictGuards
<1>1. Cardinality(Jobs) \in Nat
  BY FS_CardinalityType, WorkloadAssumption DEF WorkloadAssumption
<1>2. StrictGuards(t, k) = {}
  BY DEF StrictGuards, GuardsOf, QuotaInit
<1> QED
  BY <1>1, <1>2, FS_EmptySet

\* The step of the plan cap, which needs the exact count.
LEMMA ShareStep == QuotaInv /\ PlanShare /\ [QuotaNext]_quotaVars => PlanShare'
<1> SUFFICES ASSUME QuotaInv, PlanShare, [QuotaNext]_quotaVars PROVE PlanShare'
  OBVIOUS
<1>1. CASE UNCHANGED quotaVars
  BY <1>1 DEF quotaVars, PlanShare, GuardsOf
<1>2. CASE QuotaNext
  BY <1>2, AdmitKeepsShare, DropKeepsShare DEF QuotaNext
<1> QED
  BY <1>1, <1>2

\* For every plan table: of a tenant's live executions at most k were admitted
\* under a limit of k or less.
THEOREM QuotaCapsPlans == QuotaSpec => []PlanShare
  BY QuotaInitInv, QuotaNextInv, InitKeepsShare, ShareStep, PTL DEF QuotaSpec

\* The table is bounded by the live tenants.
THEOREM QuotaTableLive == QuotaSpec => []LiveTenantsOnly
  BY QuotaInitInv, QuotaNextInv, EntriesAreLive, PTL DEF QuotaSpec

\* An unknown plan is never treated better than a configured one.
THEOREM QuotaFailsClosed == QuotaSpec => []FailClosed
  BY QuotaInitInv, QuotaNextInv, UnknownPlanIsRestricted, PTL DEF QuotaSpec

-----------------------------------------------------------------------------
(* The bulkhead and the partition buckets.  The global semaphore and the   *)
(* buckets share no state, so each has its own inductive invariant         *)

\* No job is queued twice. Without it a job handed the permit at the head of
\* the queue could still be waiting further back.
WaitersDistinct ==
    \A i, k \in 1..Len(waiters) : waiters[i] = waiters[k] => i = k

GlobalInv ==
    /\ available \in Nat /\ waiters \in Seq(Jobs) /\ permits \subseteq Jobs
    /\ available + Cardinality(permits) = MaxConcurrent
    /\ QueueServedFirst
    /\ WaitersDistinct

BucketCount(b) == Cardinality({j \in bucket_permits : Bucket(j) = b})

BucketInv ==
    /\ bucket_available \in [Buckets -> Nat]
    /\ bucket_permits \subseteq {j \in Jobs : Limited(j)}
    /\ \A b \in Buckets : bucket_available[b] + BucketCount(b) = MaxPerPartition

BulkheadInv == GlobalInv /\ BucketInv

\* Any set of jobs is finite.
LEMMA JobsFinite ==
    ASSUME NEW S, S \subseteq Jobs PROVE IsFiniteSet(S) /\ Cardinality(S) \in Nat
  BY FS_Subset, FS_CardinalityType, WorkloadAssumption DEF WorkloadAssumption

\* A job that is limited has a bucket.
LEMMA BucketType == ASSUME NEW j \in Jobs, Limited(j) PROVE Bucket(j) \in Buckets
  BY BulkheadAssumption DEF BulkheadAssumption, Limited, Bucket, Partition

-----------------------------------------------------------------------------
(* The global semaphore                                                    *)

\* try_acquire takes a permit only when nobody is queued.
LEMMA TryGlobalInv ==
    ASSUME GlobalInv, NEW j \in Jobs, TryGlobal(j) PROVE GlobalInv'
<1>1. waiters = <<>>
  BY DEF GlobalInv, QueueServedFirst, TryGlobal
<1>2. IsFiniteSet(permits) /\ Cardinality(permits) \in Nat
  BY JobsFinite DEF GlobalInv
<1>3. Cardinality(permits') = Cardinality(permits) + 1
  BY <1>2, FS_AddElement, SMTT(30) DEF TryGlobal
<1>4. available' \in Nat /\ available' + Cardinality(permits') = MaxConcurrent
  BY <1>2, <1>3, BulkheadAssumption DEF GlobalInv, TryGlobal, BulkheadAssumption
<1>5. QueueServedFirst' /\ WaitersDistinct'
  BY <1>1 DEF QueueServedFirst, WaitersDistinct, TryGlobal
<1> QED
  BY <1>4, <1>5 DEF GlobalInv, TryGlobal

\* A job joins the queue only when no permit is left.
LEMMA QueueGlobalInv ==
    ASSUME GlobalInv, NEW j \in Jobs, QueueGlobal(j) PROVE GlobalInv'
<1>1. waiters' \in Seq(Jobs) /\ Len(waiters') = Len(waiters) + 1
  BY DEF GlobalInv, QueueGlobal
<1>2. \A i \in 1..Len(waiters') :
         waiters'[i] = IF i = Len(waiters) + 1 THEN j ELSE waiters[i]
  BY DEF GlobalInv, QueueGlobal
<1>3. \A i \in 1..Len(waiters) : waiters[i] # j
  BY DEF QueueGlobal, Waiting
<1>4. WaitersDistinct'
  BY <1>1, <1>2, <1>3 DEF WaitersDistinct, GlobalInv
<1>5. \A i \in 1..Len(waiters) : waiters[i] \notin permits
  BY DEF GlobalInv, QueueServedFirst
<1>6. QueueServedFirst'
  BY <1>1, <1>2, <1>5 DEF QueueServedFirst, QueueGlobal, GlobalInv
<1> QED
  BY <1>1, <1>4, <1>6 DEF GlobalInv, QueueGlobal

\* A released permit goes to the oldest waiter, or back to the pool.
LEMMA ReleaseGlobalInv ==
    ASSUME GlobalInv, NEW j \in Jobs, ReleaseGlobal(j) PROVE GlobalInv'
<1>1. IsFiniteSet(permits) /\ Cardinality(permits) \in Nat
  BY JobsFinite DEF GlobalInv
<1>2. IsFiniteSet(permits \ {j}) /\ Cardinality(permits \ {j}) = Cardinality(permits) - 1
  BY <1>1, FS_RemoveElement DEF ReleaseGlobal
<1>3. CASE waiters = <<>>
  <2>1. available' \in Nat /\ available' + Cardinality(permits') = MaxConcurrent
    <3>1. available' = available + 1 /\ permits' = permits \ {j}
      BY <1>3 DEF ReleaseGlobal
    <3>2. available \in Nat /\ available + Cardinality(permits) = MaxConcurrent
      BY DEF GlobalInv
    <3> QED
      BY <1>1, <1>2, <3>1, <3>2
  <2>2. QueueServedFirst' /\ WaitersDistinct'
    BY <1>3 DEF QueueServedFirst, WaitersDistinct, ReleaseGlobal
  <2> QED
    BY <1>3, <2>1, <2>2 DEF GlobalInv, ReleaseGlobal
<1>4. CASE waiters # <<>>
  <2>1. /\ waiters' = Tail(waiters) /\ Len(waiters) \in Nat \ {0}
        /\ Len(waiters') = Len(waiters) - 1 /\ waiters' \in Seq(Jobs)
        /\ \A i \in 1..Len(waiters') : waiters'[i] = waiters[i + 1]
    BY <1>4 DEF GlobalInv, ReleaseGlobal
  <2>2. Head(waiters) = waiters[1] /\ Head(waiters) \in Jobs
    BY <1>4 DEF GlobalInv
  <2>3. available = 0 /\ available' = 0 /\ permits' = (permits \ {j}) \cup {Head(waiters)}
    BY <1>4 DEF GlobalInv, QueueServedFirst, ReleaseGlobal
  <2>4. Head(waiters) \notin permits
    BY <1>4, <2>1, <2>2 DEF GlobalInv, QueueServedFirst
  <2>5. Cardinality(permits') = Cardinality(permits)
    <3> DEFINE S == permits \ {j}
               x == Head(waiters)
    <3>1. IsFiniteSet(S) /\ x \notin S /\ permits' = S \cup {x}
      BY <1>2, <2>3, <2>4
    <3>2. Cardinality(S) = Cardinality(permits) - 1
      BY <1>2
    <3> HIDE DEF S, x
    <3>3. Cardinality(S \cup {x}) = Cardinality(S) + 1
      BY <3>1, FS_AddElement
    <3> QED
      BY <1>1, <3>1, <3>2, <3>3
  <2>6. WaitersDistinct'
    BY <2>1 DEF GlobalInv, WaitersDistinct
  <2>7. \A i \in 1..Len(waiters') : waiters'[i] \notin permits'
    <3> TAKE i \in 1..Len(waiters')
    <3>1. i + 1 \in 1..Len(waiters) /\ i + 1 # 1 /\ 1 \in 1..Len(waiters)
      BY <2>1
    <3>2. waiters[i + 1] # waiters[1]
      BY <3>1 DEF GlobalInv, WaitersDistinct
    <3>3. waiters[i + 1] \notin permits
      BY <1>4, <3>1 DEF GlobalInv, QueueServedFirst
    <3> QED
      BY <2>1, <2>2, <2>3, <3>2, <3>3
  <2> QED
    BY <2>1, <2>2, <2>3, <2>5, <2>6, <2>7 DEF GlobalInv, QueueServedFirst
<1> QED
  BY <1>3, <1>4

\* A cancelled wait takes its entry out of the queue and nothing else.
LEMMA CancelWaitInv ==
    ASSUME GlobalInv, NEW j \in Jobs, CancelWait(j) PROVE GlobalInv'
<1>1. PICK i \in 1..Len(waiters) :
         /\ waiters[i] = j
         /\ waiters' = [k \in 1..(Len(waiters) - 1) |->
                           IF k < i THEN waiters[k] ELSE waiters[k + 1]]
         /\ UNCHANGED <<available, permits>>
  BY DEF CancelWait
<1>2. Len(waiters) \in Nat \ {0} /\ \A k \in 1..Len(waiters) : waiters[k] \in Jobs
  BY <1>1 DEF GlobalInv
<1>3. waiters' \in Seq(Jobs) /\ Len(waiters') = Len(waiters) - 1
  BY <1>1, <1>2
<1>4. \A k \in 1..Len(waiters') :
         waiters'[k] = IF k < i THEN waiters[k] ELSE waiters[k + 1]
  BY <1>1, <1>3
<1>5. WaitersDistinct'
  <2> DEFINE from(k) == IF k < i THEN k ELSE k + 1
  <2> SUFFICES ASSUME NEW k \in 1..Len(waiters'), NEW l \in 1..Len(waiters'),
                      waiters'[k] = waiters'[l]
               PROVE  k = l
    BY DEF WaitersDistinct
  <2>1. from(k) \in 1..Len(waiters) /\ from(l) \in 1..Len(waiters)
    BY <1>2, <1>3
  <2>2. waiters'[k] = waiters[from(k)] /\ waiters'[l] = waiters[from(l)]
    BY <1>4
  <2>3. from(k) = from(l)
    BY <2>1, <2>2, Zenon DEF GlobalInv, WaitersDistinct
  <2> QED
    BY <1>2, <1>3, <2>3
<1>6. waiters # <<>>
  BY <1>2
<1>7. QueueServedFirst'
  BY <1>1, <1>2, <1>3, <1>4, <1>6 DEF GlobalInv, QueueServedFirst
<1> QED
  BY <1>1, <1>3, <1>5, <1>7 DEF GlobalInv

\* What a step of the bulkhead may do to the global semaphore.
GlobalStep(j) ==
    \/ TryGlobal(j) \/ QueueGlobal(j) \/ ReleaseGlobal(j) \/ CancelWait(j)
    \/ UNCHANGED globalVars

\* The invariant of the semaphore is preserved by each of its operations.
LEMMA GlobalStepInv ==
    ASSUME GlobalInv, NEW j \in Jobs, GlobalStep(j) PROVE GlobalInv'
<1>1. CASE UNCHANGED globalVars
  BY <1>1 DEF GlobalInv, globalVars, QueueServedFirst, WaitersDistinct
<1> QED
  BY <1>1, TryGlobalInv, QueueGlobalInv, ReleaseGlobalInv, CancelWaitInv DEF GlobalStep

-----------------------------------------------------------------------------
(* The buckets                                                             *)

\* The holders of a bucket are finitely many.
LEMMA BucketCountType ==
    ASSUME BucketInv, NEW b
    PROVE  /\ IsFiniteSet({j \in bucket_permits : Bucket(j) = b})
           /\ BucketCount(b) \in Nat
<1>1. {j \in bucket_permits : Bucket(j) = b} \subseteq Jobs
  BY DEF BucketInv
<1> QED
  BY <1>1, JobsFinite DEF BucketCount

\* A bucket permit is taken from the bucket it is counted in.
LEMMA TryBucketInv ==
    ASSUME BucketInv, NEW j \in Jobs, TryBucket(j) PROVE BucketInv'
<1>1. Bucket(j) \in Buckets
  BY BucketType DEF TryBucket
<1>2. ASSUME NEW b \in Buckets
      PROVE  bucket_available'[b] + BucketCount(b)' = MaxPerPartition
  <2> DEFINE H == {k \in bucket_permits : Bucket(k) = b}
  <2>1. /\ IsFiniteSet(H) /\ Cardinality(H) \in Nat /\ BucketCount(b) = Cardinality(H)
        /\ bucket_available[b] + Cardinality(H) = MaxPerPartition
        /\ bucket_available[b] \in Nat
    BY BucketCountType, Zenon DEF BucketInv, BucketCount
  <2>2. BucketCount(b)' = Cardinality({k \in bucket_permits' : Bucket(k) = b})
    BY DEF BucketCount, Bucket, Partition
  <2>3. CASE b = Bucket(j)
    <3>1. {k \in bucket_permits' : Bucket(k) = b} = H \cup {j} /\ j \notin H
      BY <2>3 DEF TryBucket
    <3>2. bucket_available'[b] = bucket_available[b] - 1
      BY <2>3 DEF TryBucket, BucketInv
    <3> HIDE DEF H
    <3>3. Cardinality(H \cup {j}) = Cardinality(H) + 1
      BY <2>1, <3>1, FS_AddElement, SMTT(30)
    <3>4. BucketCount(b)' = Cardinality(H \cup {j})
      BY <2>2, <3>1, Zenon
    <3> QED
      BY <2>1, <3>2, <3>3, <3>4
  <2>4. CASE b # Bucket(j)
    <3>1. {k \in bucket_permits' : Bucket(k) = b} = H
      BY <2>4 DEF TryBucket
    <3>2. bucket_available'[b] = bucket_available[b]
      BY <2>4 DEF TryBucket, BucketInv
    <3> QED
      BY <2>1, <2>2, <3>1, <3>2
  <2> QED
    BY <2>3, <2>4
<1>3. bucket_available' \in [Buckets -> Nat]
  BY <1>1 DEF TryBucket, BucketInv
<1>4. bucket_permits' \subseteq {k \in Jobs : Limited(k)}
  BY DEF TryBucket, BucketInv
<1> QED
  BY <1>2, <1>3, <1>4 DEF BucketInv, Limited, Partition

\* And returned to it.
LEMMA ReleaseBucketInv ==
    ASSUME BucketInv, NEW j \in Jobs, ReleaseBucket(j) PROVE BucketInv'
<1>1. Bucket(j) \in Buckets
  BY BucketType DEF ReleaseBucket, BucketInv
<1>2. ASSUME NEW b \in Buckets
      PROVE  bucket_available'[b] + BucketCount(b)' = MaxPerPartition
  <2> DEFINE H == {k \in bucket_permits : Bucket(k) = b}
  <2>1. /\ IsFiniteSet(H) /\ Cardinality(H) \in Nat /\ BucketCount(b) = Cardinality(H)
        /\ bucket_available[b] + Cardinality(H) = MaxPerPartition
        /\ bucket_available[b] \in Nat
    BY BucketCountType, Zenon DEF BucketInv, BucketCount
  <2>2. BucketCount(b)' = Cardinality({k \in bucket_permits' : Bucket(k) = b})
    BY DEF BucketCount, Bucket, Partition
  <2>3. CASE b = Bucket(j)
    <3>1. {k \in bucket_permits' : Bucket(k) = b} = H \ {j} /\ j \in H
      BY <2>3 DEF ReleaseBucket
    <3>2. bucket_available'[b] = bucket_available[b] + 1
      BY <2>3 DEF ReleaseBucket, BucketInv
    <3> HIDE DEF H
    <3>3. Cardinality(H \ {j}) = Cardinality(H) - 1
      BY <2>1, <3>1, FS_RemoveElement, Zenon
    <3>4. BucketCount(b)' = Cardinality(H \ {j})
      BY <2>2, <3>1, Zenon
    <3> QED
      BY <2>1, <3>2, <3>3, <3>4
  <2>4. CASE b # Bucket(j)
    <3>1. {k \in bucket_permits' : Bucket(k) = b} = H
      BY <2>4 DEF ReleaseBucket
    <3>2. bucket_available'[b] = bucket_available[b]
      BY <2>4 DEF ReleaseBucket, BucketInv
    <3> QED
      BY <2>1, <2>2, <3>1, <3>2
  <2> QED
    BY <2>3, <2>4
<1>3. bucket_available' \in [Buckets -> Nat]
  BY <1>1 DEF ReleaseBucket, BucketInv
<1>4. bucket_permits' \subseteq {k \in Jobs : Limited(k)}
  BY DEF ReleaseBucket, BucketInv
<1> QED
  BY <1>2, <1>3, <1>4 DEF BucketInv, Limited, Partition

\* What a step of the bulkhead may do to the buckets.
BucketStep(j) == TryBucket(j) \/ ReleaseBucket(j) \/ UNCHANGED bucketVars

\* The invariant of the buckets is preserved by each of their operations.
LEMMA BucketStepInv ==
    ASSUME BucketInv, NEW j \in Jobs, BucketStep(j) PROVE BucketInv'
<1>1. CASE UNCHANGED bucketVars
  BY <1>1 DEF BucketInv, bucketVars, BucketCount, Bucket, Partition, Limited
<1> QED
  BY <1>1, TryBucketInv, ReleaseBucketInv DEF BucketStep

-----------------------------------------------------------------------------
(* The theorems                                                            *)

\* Initially all permits are free and nobody waits.
LEMMA BulkheadInitInv == BulkheadInit => BulkheadInv
<1> SUFFICES ASSUME BulkheadInit PROVE BulkheadInv
  OBVIOUS
<1>1. GlobalInv
  BY FS_EmptySet, BulkheadAssumption
     DEF BulkheadInit, GlobalInv, QueueServedFirst, WaitersDistinct, BulkheadAssumption
<1>2. \A b \in Buckets : {j \in bucket_permits : Bucket(j) = b} = {}
  BY DEF BulkheadInit
<1>3. \A b \in Buckets : BucketCount(b) = 0
  BY <1>2, FS_EmptySet, Zenon DEF BucketCount
<1>4. BucketInv
  BY <1>3, BulkheadAssumption DEF BulkheadInit, BucketInv, BulkheadAssumption
<1> QED
  BY <1>1, <1>4 DEF BulkheadInv

\* Every step is a step of the semaphore and a step of the buckets.
LEMMA BulkheadNextInv == BulkheadInv /\ [BulkheadNext]_bulkheadVars => BulkheadInv'
<1> SUFFICES ASSUME BulkheadInv, [BulkheadNext]_bulkheadVars PROVE BulkheadInv'
  OBVIOUS
<1>1. CASE UNCHANGED bulkheadVars
  BY <1>1 DEF bulkheadVars, globalVars, bucketVars, BulkheadInv, GlobalInv, BucketInv,
              QueueServedFirst, WaitersDistinct, BucketCount, Bucket, Partition, Limited
<1>2. CASE BulkheadNext
  <2>1. PICK j \in Jobs : GlobalStep(j) /\ BucketStep(j)
    BY <1>2 DEF BulkheadNext, GlobalStep, BucketStep, GlobalScopeEnds, BucketScopeEnds
  <2> QED
    BY <2>1, GlobalStepInv, BucketStepInv DEF BulkheadInv
<1> QED
  BY <1>1, <1>2

\* The invariant of the parts implies the properties of the whole.
LEMMA BulkheadInvImplies ==
    BulkheadInv => BulkheadTypeOK /\ PermitsConserved /\ QueueServedFirst
<1> SUFFICES ASSUME BulkheadInv
             PROVE  BulkheadTypeOK /\ PermitsConserved /\ QueueServedFirst
  OBVIOUS
<1>1. available \in 0..MaxConcurrent
  <2>1. Cardinality(permits) \in Nat
    BY JobsFinite DEF BulkheadInv, GlobalInv
  <2> QED
    BY <2>1, BulkheadAssumption DEF BulkheadInv, GlobalInv, BulkheadAssumption
<1>2. bucket_available \in [Buckets -> 0..MaxPerPartition]
  <2>1. \A b \in Buckets : BucketCount(b) \in Nat
    BY BucketCountType, Zenon DEF BulkheadInv
  <2> QED
    BY <2>1, BulkheadAssumption DEF BulkheadInv, BucketInv, BulkheadAssumption
<1>3. BulkheadTypeOK
  BY <1>1, <1>2 DEF BulkheadTypeOK, BulkheadInv, GlobalInv, BucketInv
<1>4. PermitsConserved
  BY DEF PermitsConserved, BulkheadInv, GlobalInv, BucketInv, BucketCount
<1> QED
  BY <1>3, <1>4 DEF BulkheadInv, GlobalInv

\* On every path a job may take, the free and the held permits make up the
\* configured capacity, globally and in each bucket.
THEOREM BulkheadConserves == BulkheadSpec => [](BulkheadTypeOK /\ PermitsConserved)
  BY BulkheadInitInv, BulkheadNextInv, BulkheadInvImplies, PTL DEF BulkheadSpec

\* While a job waits for the bulkhead, no permit is there for a try_acquire.
THEOREM BulkheadServesQueue == BulkheadSpec => []QueueServedFirst
  BY BulkheadInitInv, BulkheadNextInv, BulkheadInvImplies, PTL DEF BulkheadSpec

-----------------------------------------------------------------------------
(* The server                                                              *)

\* What one step on behalf of job j may do to the quota.
QuotaStep(j) == QuotaAdmit(j) \/ QuotaDrop(j) \/ UNCHANGED quotaVars

\* What one step on behalf of job j may do to the bulkhead.
BulkheadStep(j) ==
    \/ GlobalStep(j) /\ UNCHANGED bucketVars
    \/ BucketStep(j) /\ UNCHANGED globalVars
    \/ GlobalScopeEnds(j) /\ BucketScopeEnds(j)

\* Such a step is a step of the quota's specification.
LEMMA QuotaStepIsNext ==
    ASSUME NEW j \in Jobs, QuotaStep(j) PROVE [QuotaNext]_quotaVars
  BY DEF QuotaStep, QuotaNext

\* Such a step is a step of the bulkhead's specification.
LEMMA BulkheadStepIsNext ==
    ASSUME NEW j \in Jobs, BulkheadStep(j) PROVE [BulkheadNext]_bulkheadVars
  BY DEF BulkheadStep, BulkheadNext, GlobalStep, BucketStep, bulkheadVars

\* Each gate and step of /execute, and a disconnect, uses the quota properly.
LEMMA ExecuteQuotaStep ==
    ASSUME NEW r \in Requests, Arrive(r) \/ Handler(r) \/ RunTask(r) \/ Disconnect(r)
    PROVE  QuotaStep(r)
<1>1. CASE EnforceQuota(r)
  BY <1>1, Zenon DEF EnforceQuota, QuotaStep, QuotaRefused
<1>2. CASE EmitAudit(r) \/ EmitDenied(r) \/ Disconnect(r)
  BY <1>2, Zenon DEF EmitAudit, EmitDenied, Disconnect, QuotaScopeEnds, QuotaStep
<1>3. CASE ~EnforceQuota(r) /\ ~EmitAudit(r) /\ ~EmitDenied(r) /\ ~Disconnect(r)
  BY <1>3 DEF Handler, Arrive, RunTask, EnforceAuth, ResolveIdentity, ParseBody,
              EnforceMemberAuthz, ResolveScript, ValidateSizes, OpenSession, Gate,
              AcquirePartition, AcquireGlobal, DropGlobal, DropPartition, EmitUsage,
              QuotaStep
<1> QED
  BY <1>1, <1>2, <1>3

\* And the bulkhead.
LEMMA ExecuteBulkheadStep ==
    ASSUME NEW r \in Requests, Arrive(r) \/ Handler(r) \/ RunTask(r) \/ Disconnect(r)
    PROVE  BulkheadStep(r)
<1> USE DEF BulkheadStep, GlobalStep, BucketStep
<1>1. CASE AcquirePartition(r)
  BY <1>1 DEF AcquirePartition
<1>2. CASE AcquireGlobal(r)
  BY <1>2 DEF AcquireGlobal, BucketScopeEnds
<1>3. CASE DropGlobal(r)
  BY <1>3 DEF DropGlobal
<1>4. CASE DropPartition(r)
  BY <1>4 DEF DropPartition, BucketScopeEnds
<1>5. CASE Disconnect(r)
  BY <1>5 DEF Disconnect
<1>6. CASE /\ ~AcquirePartition(r) /\ ~AcquireGlobal(r) /\ ~DropGlobal(r)
           /\ ~DropPartition(r) /\ ~Disconnect(r)
  <2>1. UNCHANGED bulkheadVars
    BY <1>6, SMTT(30) DEF Handler, Arrive, RunTask, EnforceAuth, ResolveIdentity, ParseBody,
                EnforceMemberAuthz, ResolveScript, ValidateSizes, EnforceQuota,
                OpenSession, Gate, EmitUsage, EmitAudit, EmitDenied
  <2> QED
    BY <2>1, Zenon DEF bulkheadVars
<1> QED
  BY <1>1, <1>2, <1>3, <1>4, <1>5, <1>6

\* A step of run_batch itself uses neither.
LEMMA BatchHandlerLeavesBoth ==
    ASSUME NEW b \in Batches, BatchArrives(b) \/ BatchHandler(b) \/ BatchDisconnect(b)
    PROVE  UNCHANGED quotaVars /\ UNCHANGED bulkheadVars
  BY DEF BatchArrives, BatchHandler, BatchDisconnect, BatchGates, BatchDenied, StartBefore,
         BeforeEnds, CheckShared, FanOut, Collect, StartAfter, AfterEnds

\* Each step of an item or a phase uses the quota properly.
LEMMA JobQuotaStep ==
    ASSUME NEW j \in BatchJobs, JobStep(j) \/ RunJobTask(j) PROVE QuotaStep(j)
<1>1. CASE JobQuota(j)
  BY <1>1 DEF JobQuota, QuotaStep, QuotaRefused
<1>2. CASE JobEmitAudit(j) \/ JobDenied(j) \/ AbortJob(j)
  BY <1>2, Zenon DEF JobEmitAudit, JobDenied, AbortJob, JobScopeEnds, QuotaScopeEnds, QuotaStep
<1>3. CASE ~JobQuota(j) /\ ~JobEmitAudit(j) /\ ~JobDenied(j) /\ ~AbortJob(j)
  BY <1>3, Zenon DEF JobStep, RunJobTask, CheckJob, JobSession, JobGate, JobGlobal, JobServed,
              JobJoined, JobEmitUsage, QuotaStep
<1> QED
  BY <1>1, <1>2, <1>3, SMTT(30)

\* And the bulkhead.
LEMMA JobBulkheadStep ==
    ASSUME NEW j \in BatchJobs, JobStep(j) \/ RunJobTask(j) PROVE BulkheadStep(j)
<1> USE DEF BulkheadStep, GlobalStep, BucketStep
<1>1. CASE JobGlobal(j)
  BY <1>1 DEF JobGlobal
<1>2. CASE JobEmitAudit(j) \/ JobDenied(j) \/ AbortJob(j)
  BY <1>2, Zenon DEF JobEmitAudit, JobDenied, AbortJob, JobScopeEnds, GlobalScopeEnds
<1>3. CASE ~JobGlobal(j) /\ ~JobEmitAudit(j) /\ ~JobDenied(j) /\ ~AbortJob(j)
  <2>1. UNCHANGED bulkheadVars
    BY <1>3, Zenon DEF JobStep, RunJobTask, CheckJob, JobQuota, JobSession, JobGate, JobServed,
                JobJoined, JobEmitUsage
  <2> QED
    BY <2>1 DEF bulkheadVars
<1> QED
  BY <1>1, <1>2, <1>3

\* Every step of the server is a step or a stutter of both components.
LEMMA ServerStepsImplement ==
    [ServerNext]_serverVars => [QuotaNext]_quotaVars /\ [BulkheadNext]_bulkheadVars
<1> SUFFICES ASSUME [ServerNext]_serverVars
             PROVE  [QuotaNext]_quotaVars /\ [BulkheadNext]_bulkheadVars
  OBVIOUS
<1>1. CASE ServeExecute
  <2>1. PICK r \in Requests : Arrive(r) \/ Handler(r) \/ RunTask(r) \/ Disconnect(r)
    BY <1>1 DEF ServeExecute, ExecuteStep
  <2>2. r \in Jobs
    BY ExecuteAssumption DEF ExecuteAssumption
  <2> QED
    BY <2>1, <2>2, ExecuteQuotaStep, ExecuteBulkheadStep, QuotaStepIsNext, BulkheadStepIsNext
<1>2. CASE \E b \in Batches : BatchArrives(b) \/ BatchHandler(b) \/ BatchDisconnect(b)
  BY <1>2, BatchHandlerLeavesBoth
<1>3. CASE \E j \in BatchJobs : JobStep(j) \/ RunJobTask(j)
  <2>1. PICK j \in BatchJobs : JobStep(j) \/ RunJobTask(j)
    BY <1>3
  <2>2. j \in Jobs
    BY BatchAssumption DEF BatchAssumption, BatchJobs
  <2> QED
    BY <2>1, <2>2, JobQuotaStep, JobBulkheadStep, QuotaStepIsNext, BulkheadStepIsNext
<1>4. CASE ServerSignal \/ ServerStop \/ UNCHANGED serverVars
  BY <1>4 DEF ServerSignal, ServerStop, Signal, Stop, serverVars
<1> QED
  BY <1>1, <1>2, <1>3, <1>4 DEF ServerNext, ServeBatch, BatchStep

\* The server implements the quota table: no handler, item or phase touches it
\* except by an admission or the drop of a guard.
THEOREM ServerImplementsQuota == ServerSpec => QuotaSpec
<1>1. ServerInit => QuotaInit
  BY DEF ServerInit, Init
<1> QED
  BY <1>1, ServerStepsImplement, PTL DEF ServerSpec, QuotaSpec

\* The server implements the bulkhead.
THEOREM ServerImplementsBulkhead == ServerSpec => BulkheadSpec
<1>1. ServerInit => BulkheadInit
  BY DEF ServerInit, Init
<1> QED
  BY <1>1, ServerStepsImplement, PTL DEF ServerSpec, BulkheadSpec

\* Therefore, while /execute and /batch are served at once and clients come and
\* go, the usage of every tenant is exact and the plan caps hold.
THEOREM ServerQuotaExact == ServerSpec => [](UsageExact /\ PlanShare /\ LiveTenantsOnly)
  BY ServerImplementsQuota, QuotaExact, QuotaCapsPlans, QuotaTableLive, PTL

\* And no permit is lost, and the queue is served first.
THEOREM ServerPermitsConserved == ServerSpec => [](PermitsConserved /\ QueueServedFirst)
  BY ServerImplementsBulkhead, BulkheadConserves, BulkheadServesQueue, PTL

-----------------------------------------------------------------------------
(* What a step on behalf of j does to another job k                        *)

\* Another job loses no permit; it gains one only as a waiter, and leaves the
\* queue only by gaining it.
LEMMA GlobalFrame ==
    ASSUME GlobalInv, NEW j \in Jobs, NEW k, k # j, GlobalStep(j)
    PROVE  /\ k \in permits => k \in permits'
           /\ Waiting(k)' => Waiting(k)
           /\ k \in permits' => k \in permits \/ Waiting(k)
           /\ Waiting(k) => Waiting(k)' \/ k \in permits'
<1>1. CASE TryGlobal(j)
  BY <1>1 DEF TryGlobal, Waiting
<1>2. CASE QueueGlobal(j)
  <2>1. Len(waiters) \in Nat /\ Len(waiters') = Len(waiters) + 1
    BY <1>2 DEF QueueGlobal, GlobalInv
  <2>2. \A i \in 1..Len(waiters') :
           waiters'[i] = IF i = Len(waiters) + 1 THEN j ELSE waiters[i]
    BY <1>2 DEF QueueGlobal, GlobalInv
  <2>3. Waiting(k)' <=> Waiting(k)
    BY <2>1, <2>2 DEF Waiting
  <2> QED
    BY <1>2, <2>3 DEF QueueGlobal
<1>3. CASE ReleaseGlobal(j)
  <2>1. CASE waiters = <<>>
    BY <1>3, <2>1, Zenon DEF ReleaseGlobal, Waiting
  <2>2. CASE waiters # <<>>
    <3>1. /\ Len(waiters) \in Nat \ {0} /\ Len(waiters') = Len(waiters) - 1
          /\ \A i \in 1..Len(waiters') : waiters'[i] = waiters[i + 1]
          /\ Head(waiters) = waiters[1]
          /\ permits' = (permits \ {j}) \cup {Head(waiters)}
      BY <1>3, <2>2 DEF ReleaseGlobal, GlobalInv
    <3>2. Waiting(k)' => Waiting(k)
      BY <3>1 DEF Waiting
    <3>3. ASSUME Waiting(k) PROVE Waiting(k)' \/ k = waiters[1]
      <4>1. PICK i \in 1..Len(waiters) : waiters[i] = k
        BY <3>3 DEF Waiting
      <4>2. CASE i # 1
        <5>1. i - 1 \in 1..Len(waiters') /\ waiters'[i - 1] = waiters[i]
          BY <3>1, <4>2
        <5> QED
          BY <4>1, <5>1, Zenon DEF Waiting
      <4> QED
        BY <4>1, <4>2
    <3>4. Waiting(waiters[1])
      BY <3>1 DEF Waiting
    <3> QED
      BY <3>1, <3>2, <3>3, <3>4
  <2> QED
    BY <2>1, <2>2
<1>4. CASE CancelWait(j)
  <2>1. PICK i \in 1..Len(waiters) :
           /\ waiters[i] = j
           /\ waiters' = [n \in 1..(Len(waiters) - 1) |->
                             IF n < i THEN waiters[n] ELSE waiters[n + 1]]
           /\ UNCHANGED <<available, permits>>
    BY <1>4 DEF CancelWait
  <2>2. Len(waiters) \in Nat \ {0} /\ \A n \in 1..Len(waiters) : waiters[n] \in Jobs
    BY <2>1 DEF GlobalInv
  <2>3. /\ Len(waiters') = Len(waiters) - 1
        /\ \A n \in 1..Len(waiters') :
              waiters'[n] = IF n < i THEN waiters[n] ELSE waiters[n + 1]
    BY <2>1, <2>2
  <2>4. Waiting(k)' => Waiting(k)
    BY <2>2, <2>3 DEF Waiting
  <2>5. ASSUME Waiting(k) PROVE Waiting(k)'
    <3>1. PICK n \in 1..Len(waiters) : waiters[n] = k
      BY <2>5 DEF Waiting
    <3>2. n # i
      BY <2>1, <3>1
    <3> DEFINE m == IF n < i THEN n ELSE n - 1
    <3>3. m \in 1..Len(waiters') /\ waiters'[m] = waiters[n]
      BY <2>2, <2>3, <3>2
    <3> QED
      BY <3>1, <3>3 DEF Waiting
  <2> QED
    BY <2>1, <2>4, <2>5
<1>5. CASE UNCHANGED globalVars
  BY <1>5 DEF globalVars, Waiting
<1> QED
  BY <1>1, <1>2, <1>3, <1>4, <1>5 DEF GlobalStep

\* A job whose scope has ended holds no permit and does not wait.
LEMMA GlobalEnds ==
    ASSUME GlobalInv, NEW j \in Jobs, GlobalScopeEnds(j)
    PROVE  j \notin permits' /\ ~Waiting(j)'
<1>1. CASE j \in permits
  <2>1. ReleaseGlobal(j)
    BY <1>1 DEF GlobalScopeEnds
  <2>2. CASE waiters = <<>>
    BY <2>1, <2>2 DEF ReleaseGlobal, Waiting
  <2>3. CASE waiters # <<>>
    <3>1. /\ Len(waiters) \in Nat \ {0} /\ Len(waiters') = Len(waiters) - 1
          /\ \A i \in 1..Len(waiters') : waiters'[i] = waiters[i + 1]
          /\ Head(waiters) = waiters[1]
          /\ permits' = (permits \ {j}) \cup {Head(waiters)}
      BY <2>1, <2>3 DEF ReleaseGlobal, GlobalInv
    <3>2. \A i \in 1..Len(waiters) : waiters[i] # j
      BY <1>1, <2>3 DEF GlobalInv, QueueServedFirst
    <3> QED
      BY <3>1, <3>2 DEF Waiting
  <2> QED
    BY <2>2, <2>3
<1>2. CASE j \notin permits /\ Waiting(j)
  <2>1. PICK i \in 1..Len(waiters) :
           /\ waiters[i] = j
           /\ waiters' = [n \in 1..(Len(waiters) - 1) |->
                             IF n < i THEN waiters[n] ELSE waiters[n + 1]]
           /\ UNCHANGED <<available, permits>>
    BY <1>2 DEF GlobalScopeEnds, CancelWait
  <2>2. Len(waiters) \in Nat \ {0} /\ \A n \in 1..Len(waiters) : waiters[n] \in Jobs
    BY <2>1 DEF GlobalInv
  <2>3. /\ Len(waiters') = Len(waiters) - 1
        /\ \A n \in 1..Len(waiters') :
              waiters'[n] = IF n < i THEN waiters[n] ELSE waiters[n + 1]
    BY <2>1, <2>2
  <2>4. \A n \in 1..Len(waiters) : n # i => waiters[n] # j
    BY <2>1 DEF GlobalInv, WaitersDistinct
  <2> QED
    BY <1>2, <2>1, <2>2, <2>3, <2>4 DEF Waiting
<1>3. CASE j \notin permits /\ ~Waiting(j)
  BY <1>3 DEF GlobalScopeEnds, globalVars, Waiting
<1> QED
  BY <1>1, <1>2, <1>3

\* A step on behalf of j moves only j in the buckets and in the quota.
LEMMA OthersKeep ==
    ASSUME NEW j, NEW k, k # j, BucketStep(j), QuotaStep(j)
    PROVE  (k \in bucket_permits' <=> k \in bucket_permits)
           /\ (k \in guards' <=> k \in guards)
  BY DEF BucketStep, TryBucket, ReleaseBucket, bucketVars,
         QuotaStep, QuotaAdmit, QuotaDrop, quotaVars

\* A step of the bulkhead is a step of each of its halves.
LEMMA BulkheadStepParts ==
    ASSUME NEW j, BulkheadStep(j) PROVE GlobalStep(j) /\ BucketStep(j)
  BY Zenon DEF BulkheadStep, GlobalStep, BucketStep, GlobalScopeEnds, BucketScopeEnds

\* A request that is not the one stepping keeps what it holds.
LEMMA RequestFrame ==
    ASSUME GlobalInv, NEW j \in Jobs, NEW r \in Requests, r # j, RequestHoldings(r),
           BulkheadStep(j), QuotaStep(j), pc'[r] = pc[r]
    PROVE  RequestHoldings(r)'
<1>1. GlobalStep(j) /\ BucketStep(j)
  BY BulkheadStepParts, Zenon
<1>2. (r \in permits' <=> r \in permits) /\ ~Waiting(r)'
  BY <1>1, GlobalFrame, Zenon DEF RequestHoldings
<1>3. (r \in bucket_permits' <=> r \in bucket_permits) /\ (r \in guards' <=> r \in guards)
  BY <1>1, OthersKeep, ZenonT(30)
<1> QED
  BY <1>2, <1>3 DEF RequestHoldings, Limited, Partition

\* Neither does another job, except that a waiter may be handed a permit.
LEMMA JobFrame ==
    ASSUME GlobalInv, NEW j \in Jobs, NEW k \in BatchJobs, k # j, JobHoldings(k),
           BulkheadStep(j), QuotaStep(j), jpc'[k] = jpc[k],
           k \in gate_permits' <=> k \in gate_permits
    PROVE  JobHoldings(k)'
<1>1. GlobalStep(j) /\ BucketStep(j)
  BY BulkheadStepParts, Zenon
<1>2. /\ k \in permits => k \in permits'
      /\ Waiting(k)' => Waiting(k)
      /\ k \in permits' => k \in permits \/ Waiting(k)
      /\ Waiting(k) => Waiting(k)' \/ k \in permits'
  BY <1>1, GlobalFrame, Zenon
<1>3. (k \in bucket_permits' <=> k \in bucket_permits) /\ (k \in guards' <=> k \in guards)
  BY <1>1, OthersKeep
<1> QED
  BY <1>2, <1>3 DEF JobHoldings

-----------------------------------------------------------------------------
(* The invariant                                                           *)

\* The jobs that have not been started, by the step of their batch: StartBefore,
\* FanOut and StartAfter only ever start jobs that hold nothing.
PhaseOrder ==
    \A b \in Batches :
        /\ bpc[b] \in {"idle", "gates", "before"} => \A j \in BeforeOf(b) : jpc[j] = "idle"
        /\ bpc[b] \in {"idle", "gates", "before", "before_run", "shared", "fan_out"}
              => \A j \in ItemsOf(b) : jpc[j] = "idle"
        /\ bpc[b] \in {"idle", "gates", "before", "before_run", "shared", "fan_out",
                       "items", "after"}
              => \A j \in AfterOf(b) : jpc[j] = "idle"

ServerInv ==
    /\ pc \in [Requests -> Steps]
    /\ jpc \in [BatchJobs -> JobSteps]
    /\ bpc \in [Batches -> BatchSteps]
    /\ BulkheadInv
    /\ PhaseOrder
    /\ HoldingsMatchStep

\* Initially nobody has started and nothing is held.
LEMMA ServerInitInv == ServerInit => ServerInv
<1> SUFFICES ASSUME ServerInit PROVE ServerInv
  OBVIOUS
<1> USE DEF ServerInit, Init, ExecuteInit, BatchInit, QuotaInit, BulkheadInit
<1>1. pc \in [Requests -> Steps] /\ jpc \in [BatchJobs -> JobSteps]
      /\ bpc \in [Batches -> BatchSteps]
  BY DEF Steps, JobSteps, BatchSteps
<1>2. BulkheadInv
  BY BulkheadInitInv
<1>3. PhaseOrder
  BY DEF PhaseOrder, BeforeOf, ItemsOf, AfterOf, BatchJobs
<1>4. ASSUME NEW r \in Requests PROVE RequestHoldings(r)
  BY DEF RequestHoldings, Waiting, RequestCharged
<1>5. ASSUME NEW j \in BatchJobs PROVE JobHoldings(j)
  BY SMTT(30) DEF JobHoldings, Waiting, JobCharged, JobAdmitted
<1> QED
  BY <1>1, <1>2, <1>3, <1>4, <1>5 DEF ServerInv, HoldingsMatchStep

-----------------------------------------------------------------------------
(* The stepping request                                                    *)

\* Each action of a request leaves it with what its next step is to hold.
LEMMA RequestStepHoldings ==
    ASSUME ServerInv, NEW r \in Requests, Arrive(r) \/ Handler(r) \/ RunTask(r) \/ Disconnect(r)
    PROVE  /\ pc' \in [Requests -> Steps]
           /\ \A q \in Requests : q # r => pc'[q] = pc[q]
           /\ RequestHoldings(r)'
<1> USE DEF RequestCharged, Goto
<1>0. /\ pc \in [Requests -> Steps] /\ RequestHoldings(r) /\ GlobalInv /\ r \in Jobs
      /\ (Limited(r)' <=> Limited(r))
  BY ExecuteAssumption, Zenon
     DEF ServerInv, HoldingsMatchStep, BulkheadInv, ExecuteAssumption, Limited, Partition
<1>1. CASE UNCHANGED <<quotaVars, bulkheadVars>>
           /\ \/ Arrive(r) \/ EnforceAuth(r) \/ ResolveIdentity(r) \/ ParseBody(r)
              \/ EnforceMemberAuthz(r) \/ ResolveScript(r) \/ ValidateSizes(r)
              \/ OpenSession(r) \/ EmitUsage(r) \/ RunTask(r)
  <2>1. UNCHANGED <<waiters, permits, bucket_permits, guards>>
    BY <1>1, Zenon DEF quotaVars, bulkheadVars, globalVars, bucketVars
  <2>2. CASE Arrive(r) \/ EnforceAuth(r)
    BY <1>0, <2>1, <2>2 DEF Arrive, EnforceAuth, RequestHoldings, Waiting, Steps
  <2>3. CASE ResolveIdentity(r)
    BY <1>0, <2>1, <2>3, SMTT(30) DEF ResolveIdentity, Gate, Refuse, RequestHoldings, Waiting, Steps
  <2>4. CASE ParseBody(r) \/ EnforceMemberAuthz(r) \/ ResolveScript(r) \/ ValidateSizes(r)
    BY <1>0, <2>1, <2>4, SMTT(30) DEF ParseBody, EnforceMemberAuthz, ResolveScript, ValidateSizes,
                            Gate, Refuse, RequestHoldings, Waiting, Steps
  <2>5. CASE OpenSession(r)
    BY <1>0, <2>1, <2>5, SMTT(30) DEF OpenSession, Gate, Refuse, RequestHoldings, Waiting, Steps
  <2>6. CASE EmitUsage(r)
    BY <1>0, <2>1, <2>6, SMTT(30) DEF EmitUsage, RequestHoldings, Waiting, Steps
  <2>7. CASE RunTask(r)
    BY <1>0, <2>1, <2>7, ZenonT(30) DEF RunTask, executeVars, RequestHoldings, Waiting
  <2> QED
    BY <1>1, <2>2, <2>3, <2>4, <2>5, <2>6, <2>7, SMTT(30)
<1>2. CASE EnforceQuota(r)
  <2>1. UNCHANGED <<waiters, permits, bucket_permits>>
    BY <1>2 DEF EnforceQuota, bulkheadVars, globalVars, bucketVars
  <2>2. CASE QuotaAdmit(r) /\ Goto(r, "session")
    BY <1>0, <1>2, <2>1, <2>2, Zenon DEF EnforceQuota, QuotaAdmit, RequestHoldings, Waiting, Steps
  <2>3. CASE UNCHANGED quotaVars
    BY <1>0, <1>2, <2>1, <2>3, SMTT(30)
       DEF EnforceQuota, QuotaAdmit, Refuse, quotaVars, RequestHoldings, Waiting, Steps
  <2> QED
    BY <1>2, <2>2, <2>3, Zenon DEF EnforceQuota, QuotaRefused
<1>3. CASE AcquirePartition(r)
  <2>1. UNCHANGED <<waiters, permits, guards>>
    BY <1>3, SMTT(30) DEF AcquirePartition, quotaVars, globalVars
  <2> QED
    BY <1>0, <1>3, <2>1, SMTT(30)
       DEF AcquirePartition, TryBucket, BucketBusy, Refuse, bucketVars, RequestHoldings,
           Waiting, Steps
<1>4. CASE AcquireGlobal(r)
  <2>1. UNCHANGED guards
    BY <1>4, SMTT(30) DEF AcquireGlobal, quotaVars
  <2>2. CASE TryGlobal(r) /\ Goto(r, "exec") /\ UNCHANGED bucketVars
    BY <1>0, <1>4, <2>1, <2>2, SMTT(30)
       DEF AcquireGlobal, TryGlobal, bucketVars, RequestHoldings, Waiting, Steps
  <2>3. CASE BucketScopeEnds(r) /\ Refuse(r, "global") /\ UNCHANGED globalVars
    BY <1>0, <1>4, <2>1, <2>3, SMTT(30)
       DEF AcquireGlobal, BucketScopeEnds, ReleaseBucket, Refuse, bucketVars, globalVars,
           RequestHoldings, Waiting, Steps
  <2> QED
    BY <1>4, <2>2, <2>3 DEF AcquireGlobal
<1>5. CASE DropGlobal(r)
  <2>1. GlobalScopeEnds(r)
    BY <1>5 DEF DropGlobal, GlobalScopeEnds, ReleaseGlobal
  <2>2. r \notin permits' /\ ~Waiting(r)'
    BY <1>0, <2>1, GlobalEnds
  <2>3. UNCHANGED <<bucket_permits, guards>>
    BY <1>5, SMTT(30) DEF DropGlobal, bucketVars, quotaVars
  <2> QED
    BY <1>0, <1>5, <2>2, <2>3, SMTT(30) DEF DropGlobal, RequestHoldings, Steps
<1>6. CASE DropPartition(r)
  <2>1. UNCHANGED <<waiters, permits, guards>>
    BY <1>6, ZenonT(30) DEF DropPartition, globalVars, quotaVars
  <2> QED
    BY <1>0, <1>6, <2>1
       DEF DropPartition, BucketScopeEnds, ReleaseBucket, bucketVars, RequestHoldings,
           Waiting, Steps
<1>7. CASE EmitAudit(r) \/ EmitDenied(r)
  <2>1. UNCHANGED <<waiters, permits, bucket_permits>>
    BY <1>7, SMTT(30) DEF EmitAudit, EmitDenied, bulkheadVars, globalVars, bucketVars
  <2>2. r \notin guards'
    BY <1>7, SMTT(30) DEF EmitAudit, EmitDenied, QuotaScopeEnds, QuotaDrop, quotaVars
  <2> QED
    BY <1>0, <1>7, <2>1, <2>2, Zenon DEF EmitAudit, EmitDenied, RequestHoldings, Waiting, Steps
<1>8. CASE Disconnect(r)
  <2>1. r \notin permits' /\ ~Waiting(r)'
    BY <1>0, <1>8, GlobalEnds, SMTT(30) DEF Disconnect
  <2>2. r \notin guards' /\ r \notin bucket_permits'
    BY <1>8 DEF Disconnect, QuotaScopeEnds, QuotaDrop, quotaVars, BucketScopeEnds,
                ReleaseBucket, bucketVars
  <2> QED
    BY <1>0, <1>8, <2>1, <2>2, SMTT(30) DEF Disconnect, RequestHoldings, Steps
<1> QED
  <2>1. CASE Arrive(r) \/ EnforceAuth(r) \/ ResolveIdentity(r) \/ ParseBody(r)
              \/ EnforceMemberAuthz(r) \/ ResolveScript(r) \/ ValidateSizes(r)
              \/ OpenSession(r) \/ EmitUsage(r) \/ RunTask(r)
    BY <1>1, <2>1, Zenon
       DEF Arrive, EnforceAuth, ResolveIdentity, ParseBody, EnforceMemberAuthz, Gate,
           ResolveScript, ValidateSizes, OpenSession, EmitUsage, RunTask
  <2> QED
    BY <1>2, <1>3, <1>4, <1>5, <1>6, <1>7, <1>8, <2>1, SMTT(30) DEF Handler

-----------------------------------------------------------------------------
(* The stepping item or phase                                              *)

\* The end of a job's scope gives back everything.
LEMMA JobScopeEndsAll ==
    ASSUME GlobalInv, NEW j \in Jobs, JobScopeEnds(j), j \notin bucket_permits
    PROVE  /\ j \notin permits' /\ ~Waiting(j)'
           /\ j \notin guards' /\ j \notin gate_permits' /\ j \notin bucket_permits'
           /\ \A k : k # j => (k \in gate_permits' <=> k \in gate_permits)
<1>1. j \notin permits' /\ ~Waiting(j)'
  BY GlobalEnds DEF JobScopeEnds
<1>2. j \notin guards'
  BY ZenonT(30) DEF JobScopeEnds, QuotaScopeEnds, QuotaDrop, quotaVars
<1> QED
  BY <1>1, <1>2 DEF JobScopeEnds, bucketVars

\* Each action of a job leaves it with what its next step is to hold.
LEMMA JobStepHoldings ==
    ASSUME ServerInv, NEW j \in BatchJobs, JobStep(j) \/ RunJobTask(j)
    PROVE  /\ jpc' \in [BatchJobs -> JobSteps]
           /\ \A k \in BatchJobs : k # j => jpc'[k] = jpc[k]
           /\ \A k \in BatchJobs : k # j => (k \in gate_permits' <=> k \in gate_permits)
           /\ jpc[j] = "idle" => jpc'[j] = "idle"
           /\ bpc' = bpc
           /\ JobHoldings(j)'
<1> USE DEF JobCharged, JobAdmitted, JobGoto
<1>0. jpc \in [BatchJobs -> JobSteps] /\ JobHoldings(j) /\ GlobalInv /\ j \in Jobs
  BY BatchAssumption
     DEF ServerInv, HoldingsMatchStep, BulkheadInv, BatchAssumption, BatchJobs
<1>1. CASE CheckJob(j) \/ JobSession(j) \/ JobServed(j) \/ JobJoined(j) \/ JobEmitUsage(j)
  <2>1. UNCHANGED <<bpc, waiters, permits, bucket_permits, gate_permits, guards>>
    BY <1>1 DEF CheckJob, JobSession, JobServed, JobJoined, JobEmitUsage, quotaVars,
                bulkheadVars, globalVars, bucketVars, gateVars
  <2>2. CASE CheckJob(j) \/ JobSession(j)
    BY <1>0, <2>1, <2>2, ZenonT(30) DEF CheckJob, JobSession, JobHoldings, Waiting, JobSteps
  <2>3. CASE JobServed(j) \/ JobJoined(j) \/ JobEmitUsage(j)
    <3>1. ~Waiting(j)
      BY <1>0, <2>3 DEF JobServed, JobJoined, JobEmitUsage, JobHoldings, GlobalInv,
                        QueueServedFirst, Waiting
    <3> QED
      BY <1>0, <2>1, <2>3, <3>1, SMTT(30)
         DEF JobServed, JobJoined, JobEmitUsage, JobHoldings, Waiting, JobSteps
  <2> QED
    BY <1>1, <2>2, <2>3, ZenonT(30)
<1>2. CASE JobQuota(j)
  <2>1. UNCHANGED <<bpc, waiters, permits, bucket_permits, gate_permits>>
    BY <1>2 DEF JobQuota, bulkheadVars, globalVars, bucketVars, gateVars
  <2>2. CASE QuotaAdmit(j) /\ JobGoto(j, "session")
    BY <1>0, <1>2, <2>1, <2>2, ZenonT(30) DEF JobQuota, QuotaAdmit, JobHoldings, Waiting, JobSteps
  <2>3. CASE UNCHANGED quotaVars
    BY <1>0, <1>2, <2>1, <2>3
       DEF JobQuota, QuotaAdmit, quotaVars, JobHoldings, Waiting, JobSteps
  <2> QED
    BY <1>2, <2>2, <2>3, Zenon DEF JobQuota, QuotaRefused
<1>3. CASE JobGate(j)
  <2>1. UNCHANGED <<bpc, waiters, permits, bucket_permits, guards>>
    BY <1>3, Zenon DEF JobGate, quotaVars, bulkheadVars, globalVars, bucketVars
  <2> QED
    BY <1>0, <1>3, <2>1, Zenon DEF JobGate, JobHoldings, Waiting, JobSteps
<1>4. CASE JobGlobal(j)
  <2>1. UNCHANGED <<bpc, bucket_permits, gate_permits, guards>>
    BY <1>4, Zenon DEF JobGlobal, quotaVars, bucketVars, gateVars
  <2>2. CASE TryGlobal(j) /\ JobGoto(j, "exec")
    BY <1>0, <1>4, <2>1, <2>2, ZenonT(30) DEF JobGlobal, TryGlobal, JobHoldings, Waiting, JobSteps
  <2>3. CASE QueueGlobal(j) /\ JobGoto(j, "queued")
    <3>1. Waiting(j)'
      <4>1. /\ Len(waiters) + 1 \in 1..Len(waiters')
            /\ waiters'[Len(waiters) + 1] = j
        BY <1>0, <2>3 DEF QueueGlobal, GlobalInv
      <4> QED
        BY <4>1 DEF Waiting
    <3>2. j \notin permits'
      BY <2>3, Zenon DEF QueueGlobal
    <3> QED
      BY <1>0, <1>4, <2>1, <2>3, <3>1, <3>2, SMTT(30) DEF JobGlobal, JobHoldings, JobSteps
  <2> QED
    BY <1>4, <2>2, <2>3 DEF JobGlobal
<1>5. CASE JobEmitAudit(j) \/ JobDenied(j) \/ AbortJob(j)
  <2>1. JobScopeEnds(j) /\ UNCHANGED bpc
    BY <1>5 DEF JobEmitAudit, JobDenied, AbortJob
  <2>2. j \notin bucket_permits
    BY <1>0 DEF JobHoldings
  <2>3. /\ j \notin permits' /\ ~Waiting(j)'
        /\ j \notin guards' /\ j \notin gate_permits' /\ j \notin bucket_permits'
        /\ \A k : k # j => (k \in gate_permits' <=> k \in gate_permits)
    BY <1>0, <2>1, <2>2, JobScopeEndsAll, Zenon
  <2>4. jpc[j] # "idle" /\ \E s \in {"rendered", "gone"} : jpc' = [jpc EXCEPT ![j] = s]
    BY <1>5, Zenon DEF JobEmitAudit, JobDenied, AbortJob, JobAwaits
  <2> QED
    BY <1>0, <2>1, <2>3, <2>4, SMTT(30) DEF JobHoldings, JobSteps
<1>6. CASE RunJobTask(j)
  BY <1>0, <1>6 DEF RunJobTask, batchVars, gateVars, quotaVars, bulkheadVars, globalVars,
                    bucketVars, JobHoldings, Waiting
<1> QED
  BY <1>1, <1>2, <1>3, <1>4, <1>5, <1>6, SMTT(30) DEF JobStep

-----------------------------------------------------------------------------
(* The stepping batch                                                      *)

\* A step of run_batch starts the jobs of one phase of b, which were idle, or
\* moves none.
LEMMA BatchStarts ==
    ASSUME ServerInv, NEW b \in Batches,
           BatchArrives(b) \/ BatchHandler(b) \/ BatchDisconnect(b)
    PROVE  \A j \in BatchJobs :
              \/ jpc'[j] = jpc[j]
              \/ /\ jpc[j] = "idle" /\ jpc'[j] = "check" /\ BatchOf[j] = b
                 /\ \/ j \in Befores /\ bpc[b] = "before" /\ bpc'[b] = "before_run"
                    \/ j \in Items /\ bpc[b] = "fan_out" /\ bpc'[b] = "items"
                    \/ j \in Afters /\ bpc[b] = "after" /\ bpc'[b] = "after_run"
<1> USE DEF BatchGoto
<1>0. bpc \in [Batches -> BatchSteps] /\ jpc \in [BatchJobs -> JobSteps] /\ PhaseOrder
  BY Zenon DEF ServerInv
<1>1. CASE StartBefore(b)
  BY <1>0, <1>1, Zenon DEF StartBefore, PhaseOrder, BeforeOf
<1>2. CASE FanOut(b)
  BY <1>0, <1>2, Zenon DEF FanOut, PhaseOrder, ItemsOf
<1>3. CASE StartAfter(b)
  BY <1>0, <1>3 DEF StartAfter, PhaseOrder, AfterOf
<1>4. CASE ~StartBefore(b) /\ ~FanOut(b) /\ ~StartAfter(b)
  BY <1>4, Zenon DEF BatchArrives, BatchHandler, BatchDisconnect, BatchGates, BatchDenied,
              BeforeEnds, CheckShared, Collect, AfterEnds
<1> QED
  BY <1>1, <1>2, <1>3, <1>4, Zenon

\* A step of run_batch starts only jobs that hold nothing yet.
LEMMA BatchStepHoldings ==
    ASSUME ServerInv, NEW b \in Batches,
           BatchArrives(b) \/ BatchHandler(b) \/ BatchDisconnect(b)
    PROVE  /\ bpc' \in [Batches -> BatchSteps] /\ jpc' \in [BatchJobs -> JobSteps]
           /\ PhaseOrder'
           /\ \A j \in BatchJobs : JobHoldings(j)'
<1> USE DEF BatchGoto
<1>0. /\ bpc \in [Batches -> BatchSteps] /\ jpc \in [BatchJobs -> JobSteps] /\ PhaseOrder
      /\ \A j \in BatchJobs : JobHoldings(j)
  BY DEF ServerInv, HoldingsMatchStep
<1>1. UNCHANGED <<waiters, permits, bucket_permits, gate_permits, guards>>
  <2>1. UNCHANGED quotaVars /\ UNCHANGED bulkheadVars
    BY BatchHandlerLeavesBoth
  <2>2. UNCHANGED gate_permits
    BY Zenon DEF BatchArrives, BatchHandler, BatchDisconnect, BatchGates, BatchDenied, StartBefore,
           BeforeEnds, CheckShared, FanOut, Collect, StartAfter, AfterEnds, gateVars
  <2> QED
    BY <2>1, <2>2 DEF quotaVars, bulkheadVars, globalVars, bucketVars
<1>2. /\ bpc' \in [Batches -> BatchSteps] /\ jpc' \in [BatchJobs -> JobSteps]
      /\ \A c \in Batches : c # b => bpc'[c] = bpc[c]
  BY <1>0, Zenon DEF BatchArrives, BatchHandler, BatchDisconnect, BatchGates, BatchDenied,
              StartBefore, BeforeEnds, CheckShared, FanOut, Collect, StartAfter, AfterEnds,
              BatchSteps, JobSteps
<1>3. \A j \in BatchJobs :
         \/ jpc'[j] = jpc[j]
         \/ /\ jpc[j] = "idle" /\ jpc'[j] = "check" /\ BatchOf[j] = b
            /\ \/ j \in Befores /\ bpc[b] = "before" /\ bpc'[b] = "before_run"
               \/ j \in Items /\ bpc[b] = "fan_out" /\ bpc'[b] = "items"
               \/ j \in Afters /\ bpc[b] = "after" /\ bpc'[b] = "after_run"
  BY BatchStarts, Zenon
<1>4. ASSUME NEW j \in BatchJobs PROVE JobHoldings(j)'
  <2>1. CASE jpc'[j] = jpc[j]
    BY <1>0, <1>1, <2>1, Zenon DEF JobHoldings, Waiting
  <2>2. CASE jpc[j] = "idle" /\ jpc'[j] = "check"
    BY <1>0, <1>1, <2>2, Zenon DEF JobHoldings, Waiting, JobCharged, JobAdmitted
  <2> QED
    BY <1>3, <2>1, <2>2, Zenon
<1>5. PhaseOrder'
  <2>1. bpc'[b] = bpc[b] \/ <<bpc[b], bpc'[b]>> \in
          {<<"idle", "gates">>, <<"gates", "before">>, <<"before", "before_run">>,
           <<"before", "shared">>, <<"before_run", "shared">>, <<"shared", "fan_out">>,
           <<"fan_out", "items">>, <<"items", "after">>, <<"after", "after_run">>}
        \/ bpc'[b] \in {"done", "gone", "denied_first", "denied_after"}
    BY <1>0, Zenon DEF BatchArrives, BatchHandler, BatchDisconnect, BatchGates, BatchDenied,
                StartBefore, BeforeEnds, CheckShared, FanOut, Collect, StartAfter, AfterEnds
  <2>2. ASSUME NEW c \in Batches, c # b PROVE
           /\ \A j \in BeforeOf(c) : jpc[j] = "idle" => jpc'[j] = "idle"
           /\ \A j \in ItemsOf(c) : jpc[j] = "idle" => jpc'[j] = "idle"
           /\ \A j \in AfterOf(c) : jpc[j] = "idle" => jpc'[j] = "idle"
    BY <1>3, <2>2, Zenon DEF BeforeOf, ItemsOf, AfterOf, BatchJobs
  <2>3. ASSUME bpc'[b] \in {"idle", "gates", "before"}, NEW j \in BeforeOf(b)
        PROVE  jpc'[j] = "idle"
    <3>1. bpc[b] \in {"idle", "gates", "before"} /\ jpc[j] = "idle"
      BY <1>0, <2>1, <2>3, Zenon DEF PhaseOrder
    <3> QED
      BY <1>3, <2>3, <3>1, BatchAssumption, Zenon DEF BeforeOf, BatchJobs, BatchAssumption
  <2>4. ASSUME bpc'[b] \in {"idle", "gates", "before", "before_run", "shared", "fan_out"},
               NEW j \in ItemsOf(b)
        PROVE  jpc'[j] = "idle"
    <3>1. /\ bpc[b] \in {"idle", "gates", "before", "before_run", "shared", "fan_out"}
          /\ jpc[j] = "idle"
      BY <1>0, <2>1, <2>4, SMTT(30) DEF PhaseOrder
    <3> QED
      BY <1>3, <2>4, <3>1, BatchAssumption, ZenonT(30) DEF ItemsOf, BatchJobs, BatchAssumption
  <2>5. ASSUME bpc'[b] \in {"idle", "gates", "before", "before_run", "shared", "fan_out",
                            "items", "after"},
               NEW j \in AfterOf(b)
        PROVE  jpc'[j] = "idle"
    <3>1. /\ bpc[b] \in {"idle", "gates", "before", "before_run", "shared", "fan_out",
                         "items", "after"}
          /\ jpc[j] = "idle"
      BY <1>0, <2>1, <2>5 DEF PhaseOrder
    <3> QED
      BY <1>3, <2>5, <3>1, BatchAssumption, ZenonT(30) DEF AfterOf, BatchJobs, BatchAssumption
  <2> DEFINE InOrder(c) ==
        /\ bpc[c] \in {"idle", "gates", "before"} => \A j \in BeforeOf(c) : jpc[j] = "idle"
        /\ bpc[c] \in {"idle", "gates", "before", "before_run", "shared", "fan_out"}
              => \A j \in ItemsOf(c) : jpc[j] = "idle"
        /\ bpc[c] \in {"idle", "gates", "before", "before_run", "shared", "fan_out",
                        "items", "after"}
              => \A j \in AfterOf(c) : jpc[j] = "idle"
  <2>6. InOrder(b)'
    BY <2>3, <2>4, <2>5, Zenon DEF BeforeOf, ItemsOf, AfterOf
  <2>7. ASSUME NEW c \in Batches, c # b PROVE InOrder(c)'
    <3>1. bpc'[c] = bpc[c] /\ InOrder(c)
      BY <1>0, <1>2, <2>7, ZenonT(30) DEF PhaseOrder
    <3> QED
      BY <2>2, <2>7, <3>1, Zenon DEF BeforeOf, ItemsOf, AfterOf
  <2> QED
    BY <2>6, <2>7 DEF PhaseOrder
<1> QED
  BY <1>2, <1>4, <1>5

-----------------------------------------------------------------------------
(* The inductive step and the theorems                                     *)

\* A step of a request preserves the invariant.
LEMMA ExecuteKeepsInv ==
    ASSUME ServerInv, BulkheadInv', NEW r \in Requests,
           Arrive(r) \/ Handler(r) \/ RunTask(r) \/ Disconnect(r), UNCHANGED batchVars
    PROVE  ServerInv'
<1>1. BulkheadStep(r) /\ QuotaStep(r) /\ r \in Jobs /\ GlobalInv
  BY ExecuteBulkheadStep, ExecuteQuotaStep, ExecuteAssumption
     DEF ExecuteAssumption, ServerInv, BulkheadInv
<1>2. /\ pc' \in [Requests -> Steps]
      /\ \A q \in Requests : q # r => pc'[q] = pc[q]
      /\ RequestHoldings(r)'
  BY RequestStepHoldings, Zenon
<1>3. \A q \in Requests : RequestHoldings(q)'
  BY <1>1, <1>2, RequestFrame DEF ServerInv, HoldingsMatchStep
<1>4. jpc' = jpc /\ bpc' = bpc /\ gate_permits' = gate_permits
  BY Zenon DEF batchVars, gateVars
<1>5. \A k \in BatchJobs : JobHoldings(k)'
  BY <1>1, <1>4, JobFrame, ServerAssumption, Zenon
     DEF ServerInv, HoldingsMatchStep, ServerAssumption
<1> QED
  BY <1>2, <1>3, <1>4, <1>5, SMTT(30) DEF ServerInv, HoldingsMatchStep, PhaseOrder

\* So does a step of an item or a phase.
LEMMA JobKeepsInv ==
    ASSUME ServerInv, BulkheadInv', NEW j \in BatchJobs, JobStep(j) \/ RunJobTask(j),
           UNCHANGED executeVars
    PROVE  ServerInv'
<1>1. BulkheadStep(j) /\ QuotaStep(j) /\ j \in Jobs /\ GlobalInv
  BY JobBulkheadStep, JobQuotaStep, BatchAssumption
     DEF BatchAssumption, BatchJobs, ServerInv, BulkheadInv
<1>2. /\ jpc' \in [BatchJobs -> JobSteps]
      /\ \A k \in BatchJobs : k # j => jpc'[k] = jpc[k]
      /\ \A k \in BatchJobs : k # j => (k \in gate_permits' <=> k \in gate_permits)
      /\ jpc[j] = "idle" => jpc'[j] = "idle"
      /\ bpc' = bpc
      /\ JobHoldings(j)'
  BY JobStepHoldings, Zenon
<1>3. \A k \in BatchJobs : JobHoldings(k)'
  BY <1>1, <1>2, JobFrame DEF ServerInv, HoldingsMatchStep
<1>4. pc' = pc
  BY Zenon DEF executeVars
<1>5. \A q \in Requests : RequestHoldings(q)'
  BY <1>1, <1>4, RequestFrame, ServerAssumption
     DEF ServerInv, HoldingsMatchStep, ServerAssumption
<1>6. \A k \in BatchJobs : jpc[k] = "idle" => jpc'[k] = "idle"
  BY <1>2, Zenon
<1>7. PhaseOrder'
  BY <1>2, <1>6, Zenon DEF ServerInv, PhaseOrder, BeforeOf, ItemsOf, AfterOf, BatchJobs
<1> QED
  BY <1>2, <1>3, <1>4, <1>5, <1>7, ZenonT(30) DEF ServerInv, HoldingsMatchStep

\* And a step of run_batch.
LEMMA BatchKeepsInv ==
    ASSUME ServerInv, BulkheadInv', NEW b \in Batches,
           BatchArrives(b) \/ BatchHandler(b) \/ BatchDisconnect(b), UNCHANGED executeVars
    PROVE  ServerInv'
<1>1. /\ bpc' \in [Batches -> BatchSteps] /\ jpc' \in [BatchJobs -> JobSteps]
      /\ PhaseOrder'
      /\ \A j \in BatchJobs : JobHoldings(j)'
  BY BatchStepHoldings
<1>2. UNCHANGED <<pc, waiters, permits, bucket_permits, guards>>
  BY BatchHandlerLeavesBoth, ZenonT(30)
     DEF executeVars, quotaVars, bulkheadVars, globalVars, bucketVars
<1>3. \A r \in Requests : RequestHoldings(r)'
  BY <1>2 DEF ServerInv, HoldingsMatchStep, RequestHoldings, Waiting, Limited, Partition
<1> QED
  BY <1>1, <1>2, <1>3, SMTT(30) DEF ServerInv, HoldingsMatchStep

\* Every step of the server preserves the invariant.
LEMMA ServerNextInv == ServerInv /\ [ServerNext]_serverVars => ServerInv'
<1> SUFFICES ASSUME ServerInv, [ServerNext]_serverVars PROVE ServerInv'
  OBVIOUS
<1>1. BulkheadInv'
  BY ServerStepsImplement, BulkheadNextInv, SMTT(30) DEF ServerInv
<1>2. CASE ServeExecute
  BY <1>1, <1>2, ExecuteKeepsInv, SMTT(30) DEF ServeExecute, ExecuteStep
<1>3. CASE ServeBatch
  BY <1>1, <1>3, JobKeepsInv, BatchKeepsInv DEF ServeBatch, BatchStep
<1>4. CASE ServerSignal \/ ServerStop \/ UNCHANGED serverVars
  <2>1. UNCHANGED <<pc, bpc, jpc, waiters, permits, bucket_permits, gate_permits, guards>>
    BY <1>4 DEF ServerSignal, ServerStop, Signal, Stop, serverVars, executeVars, batchVars,
                gateVars, quotaVars, bulkheadVars, globalVars, bucketVars
  <2> QED
    BY <1>1, <2>1, ZenonT(30)
       DEF ServerInv, HoldingsMatchStep, RequestHoldings, JobHoldings, Waiting,
                      PhaseOrder, Limited, Partition
<1> QED
  BY <1>2, <1>3, <1>4, SMTT(30) DEF ServerNext

\* What every handler, item and phase holds follows from its step, for every
\* number of them and of permits, plans and disconnecting clients.
THEOREM ServerHoldings == ServerSpec => []HoldingsMatchStep
<1>1. ServerInv => HoldingsMatchStep
  BY DEF ServerInv
<1> QED
  BY <1>1, ServerInitInv, ServerNextInv, PTL DEF ServerSpec

\* A request that was answered, or whose client has gone, holds no permit and
\* no quota unit.
THEOREM ServerReleasesAll == ServerSpec => []NothingHeldAfterLeaving
<1>1. HoldingsMatchStep => NothingHeldAfterLeaving
  BY SMTT(30) DEF HoldingsMatchStep, RequestHoldings, NothingHeldAfterLeaving, Left, RequestCharged
<1> QED
  BY <1>1, ServerHoldings, PTL

\* A request executes only with both permits and its quota unit.
THEOREM ServerPermitsCover == ServerSpec => []PermitsCoverExecution
<1>1. HoldingsMatchStep => PermitsCoverExecution
  BY SMTT(30) DEF HoldingsMatchStep, RequestHoldings, PermitsCoverExecution, RequestCharged
<1> QED
  BY <1>1, ServerHoldings, PTL

\* A finished or aborted item or phase holds nothing.
THEOREM ServerJobsRelease == ServerSpec => []FinishedJobsHoldNothing
<1>1. HoldingsMatchStep => FinishedJobsHoldNothing
  BY DEF HoldingsMatchStep, JobHoldings, FinishedJobsHoldNothing, JobCharged, JobAdmitted
<1> QED
  BY <1>1, ServerHoldings, PTL

\* No /execute request is given a permit while a batch item waits for one.
THEOREM ServerNoOvertaking == ServerSpec => NoOvertaking
<1>1. ASSUME ServerInv, [ServerNext]_serverVars
      PROVE  [\A r \in Requests : r \in permits' \ permits => waiters = <<>>]_serverVars
  <2> SUFFICES ASSUME NEW r \in Requests, r \in permits' \ permits PROVE waiters = <<>>
    OBVIOUS
  <2>1. GlobalInv /\ RequestHoldings(r) /\ r \in Jobs
    BY <1>1, ExecuteAssumption, SMTT(30)
       DEF ServerInv, BulkheadInv, HoldingsMatchStep, ExecuteAssumption
  <2>2. PICK j \in Jobs : GlobalStep(j)
    <3>1. CASE BulkheadNext
      BY <3>1 DEF BulkheadNext, GlobalStep, GlobalScopeEnds
    <3>2. CASE UNCHANGED bulkheadVars
      BY <2>1, <3>2, SMTT(30) DEF bulkheadVars, GlobalStep
    <3> QED
      BY <1>1, <3>1, <3>2, ServerStepsImplement, SMTT(30)
  <2>3. j = r
    BY <2>1, <2>2, GlobalFrame, SMTT(30) DEF RequestHoldings
  <2>4. TryGlobal(r)
    <3>1. ~QueueGlobal(r) /\ ~UNCHANGED globalVars
      BY DEF QueueGlobal, globalVars
    <3>2. ~ReleaseGlobal(r)
      BY DEF ReleaseGlobal
    <3>3. ~CancelWait(r)
      BY DEF CancelWait
    <3> QED
      BY <2>2, <2>3, <3>1, <3>2, <3>3, SMTT(30) DEF GlobalStep
  <2> QED
    BY <2>1, <2>4 DEF TryGlobal, GlobalInv, QueueServedFirst
<1> QED
  BY <1>1, ServerInitInv, ServerNextInv, PTL DEF ServerSpec, NoOvertaking
=============================================================================
