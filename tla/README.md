# A TLA+ verification of runlet

runlet is a service that executes short JavaScript handlers for many tenants.
This directory models its control: who is admitted, what is held while a script
runs, what is counted and reported, how the script reaches the outside, and how
the process stops. The modules are checked with TLC on small instances, and the
invariants that matter most are proved with TLAPS for every size.

Every definition is a translation of source under `src/`; `PROJECT.json` names
the lines (`map`). Data are abstracted to what the properties tell apart. Where a
library decides something (tokio's semaphores, channels and mutexes, axum
dropping a future, quinn, QuickJS), the model is written from how the code uses
it and is marked external in the map.

## 1. The system

| Part | Source | Module | State |
|---|---|---|---|
| runtime pool | `runlet-core/src/pool.rs`, `host.rs` | `JsPool` | modelled |
| tenant quota | `runlet/src/quota.rs` | `TenantQuota` | modelled |
| bulkhead, partition buckets | `runlet-core/src/partition.rs`, `handler/gates.rs` | `Bulkhead` | modelled |
| `/execute` handler | `handler/mod.rs`, `gates.rs`, `response.rs`, `telemetry.rs` | `Execution`, `Execute` | modelled |
| `/batch` handler | `handler/batch.rs`, `batch_items.rs`, `lifecycle.rs` | `Execution`, `Batch` | modelled |
| the server: both handlers, signal and stop | `main.rs` | `Server` | partly |
| broker session, box-direct calls | `broker.rs`, `local_io.rs`, `runlet-wire/src/wire.rs` | `EgressSession` | modelled |
| shared QUIC connection | `broker.rs` | `QuicClient` | partly |
| circuit breaker | `runlet-wire/src/breaker.rs` | `CircuitBreaker` | modelled |
| usage, audit and log events | `events.rs` | `EventPipeline` | modelled |
| identity-contract keys | `contract.rs` | `ContractKeys` | modelled |
| trusted identity, entitlements | `identity.rs`, `authz.rs`, `contract.rs`, `handler/gates.rs` | `Identity`, `Tenancy` | modelled |
| bytecode cache | `runlet-core/src/bytecode.rs`, `engine/classify.rs` | `Tenancy` | modelled |
| startup guards | `runlet/src/config/guards.rs` | `BootConfig` | partly |
| one invocation in the engine | `runlet-core/src/engine/`, `capability.rs` | `Invocation` | modelled |
| the script's surface `$std` | `runlet-core/src/engine/inject.rs`, `js/std_lazy.js`, `js/std_freeze.js` | `StdSurface` | modelled |
| in-engine `http`, address policy | `runlet-core/src/http.rs`, `ssrf.rs`, `sandbox.rs` | `HttpClient`, `Ssrf`, `OpBudget` | modelled |
| in-engine `s3` | `runlet-core/src/s3.rs` | `ObjectStore`, `OpBudget` | modelled |
| exact numbers | `runlet-core/src/decimal.rs`, `js/decimal.js`, `js/money.js`, `js/list.js` | `Money` | partly |
| dates | `runlet-core/src/sys.rs`, `js/datetime.js` | `Calendar` | partly |
| error codes and status line | `errors.rs`, `status.rs`, `handler/response.rs` | `ErrorContract` | modelled |

How they meet. A request enters `run_execute` or `run_batch` on the async
runtime. It passes the gates in order (credential, identity, body, entitlement,
script, quota, egress session, partition permit, global permit), each of which
may answer at once; what the earlier ones acquired is released by Rust's scopes.
The execution itself is a blocking task that takes a QuickJS runtime from the
pool, injects the script's surface, runs it, and puts the runtime back. While it
runs, the script calls out through the broker session of its request, a
loopback service, or the `http` and `s3` capabilities of the engine itself. When it has returned, the handler records counters, emits a
usage and an audit event, and answers. A batch does the same for each item, in
tasks of their own between a *before* and an *after* phase. At any await the
client may leave, and the server then drops the handler's future: its guards and
permits go, its blocking task stays.

## 2. Modules

`Workload` declares the jobs (a job is one execution: a request, an item or a
phase), their tenants and their plans. `TenantQuota` and `Bulkhead` are the two
shared limiters, each with a specification of its own, in which any job may take
any step the limiter allows. `Execution` is what both handlers do around one
execution: the blocking task, the outcome counters, the two events. `Execute`
and `Batch` are the handlers, written as one action per gate on top of the
operations of the limiters. `Server` interleaves them and adds the end of the
process. `QuotaSpec` and `BulkheadSpec` of `Server` say that the composition
implements the two limiters' own specifications.

`Tenancy` follows the other thread through the same handler: whose request it
is. It leaves the limiters out (their gates may refuse any request) and keeps
what identity decides: the configuration the box could start with
(`BootConfig`), what the headers and the contract make of the caller
(`Identity`), the entitlements, the partition, the broker session opened for the
principal, the bytecode cache keyed by partition and source, and the events
booked on the principal. Whether a contract's signature stands is a free choice
there; `ContractKeys` models the keys behind it.

`Script` is one execution seen from the script: arbitrary code that does one
thing at a time with what it finds under `$std`. `StdSurface` says what that is:
eager members injected in order, units that are built when they are first read
and leave their members in one global slot, the profile's pruning, the lock
before the handler. A script may replace `$std` itself and the functions of `Object`
that the engine calls; where a unit's body calls one of them, code of the script runs
inside the build and may read further members (`Interposed`, `Callers`). `HttpClient` and `ObjectStore` are the capabilities that call
out; both use the address policy of `Ssrf`, whose classifier is written out over
the octets of an address. Names are resolved by the check and again by each
connection, with whatever answer DNS gives then; redirects lead to any URL; other
users write to the bucket between two pages of a listing. `OpBudget` is the
abstract specification of an operation limit, and `Script` instantiates it twice
(`HttpBudget` and `S3Budget`, `INSTANCE OpBudget WITH` the length of a collector
for the operations used and the number of refused calls), so that `BudgetsKept`
says each capability implements it.

`Calendar` is a script at work on a date: an instant and the zone it is viewed in.
Years, months, weeks and leap days are the real ones; the units of the clock are
constants, so that a day is short enough to look at every instant around a
change of the offset.

`Money` is a script at work on a column of amounts. Decimals are pairs of a
mantissa and a scale, so that 1.5 and 1.50 compare equal and print differently,
as in `rust_decimal`. A quotient that is not exact keeps as many places as leave its
mantissa within `MaxMantissa`, and at most `MaxScale`, where the library has 96 bits and
28 places: a larger quotient has fewer places. A row is an amount of money, a decimal, a
number, a string that reads as a number, or blank. What the column ought to be worth is kept beside it as an
exact number, which is what the results are measured by.

| Module | State | Actions and the code they translate |
|---|---|---|
| `JsPool` | `accepting`, `in_flight`, `release_seq`, the queue, each thread's step and runtime | each atomic operation of `acquire`, `release`, `run` and `shutdown` is a step |
| `TenantQuota` | `inflight` (a partial map), the live `guards` | `admit` and `QuotaGuard::drop`, each under the mutex |
| `Bulkhead` | free permits, holders, FIFO of waiters; the same per bucket | `try_acquire`, `acquire` with its queue, drops, a cancelled wait |
| `Execute` | each request's step, refusal, answer, events; counters | one action per gate of `run_execute`, `Disconnect` at every await, `Stop` |
| `Batch` | each batch's phase, each job's step, the gate's slots, results | `run_batch`, `run_item`, the phases, `JoinSet` abortion |
| `EgressSession` | clock, the two byte streams as parts of frames, the step of the thread | handshake, call, timeout, drain; send and body of a loopback call; after a timeout inside a frame, reads that slip (`Slips`) |
| `QuicClient` | cached connection, the mutex's holder, each session's connection | lock, reuse, dial, open, invalidate and retry |
| `CircuitBreaker` | failures, open, the rest of the window, trips | `allow` (clock, then lock) and `record` |
| `EventPipeline` | both channels, who waits to send, the writers, the flush | `record`, `send_timeout`, the writer loop, `close` and `flush`, the exit of `main`; stdout may stall for good |
| `ContractKeys` | cached keys, age of the last refresh, each request's step | lookup, check of the interval, fetch, store, second lookup |
| `BootConfig`, `Identity` | none | merge and guards of the configuration; headers, claims, `resolve_identity`, entitlements, partition, `wire_init` |
| `Tenancy` | the booted configuration; each request's input, step, identity, session, module, events sent and still to send; who has left; the cache | one action per gate, the load, the compile and store, an eviction, the response, each `record` of an event, `Disconnect` at every await |
| `ErrorContract` | none | envelope, capability tags and the projection on the status line |
| `Invocation` | stage, pending exception, budgets and buffers, outcome, response | `emit`, `log`, `io` calls, throw, catch, interrupt, classification, `build_response` |
| `StdSurface` | stage, eager members, globals, what the script has replaced, the builds in progress, the slot, what each unit's getters return | one injection after the other, a getter's first and later reads, the body, the taking from the slot, a failed build, assignments and replacements, `std_freeze.js` |
| `HttpClient` | the policy, the call in progress, the last connection, metrics, answers | `inject_http`'s closure: limit, `validate_url`, connect, `validate_redirect`, body, `finish` |
| `ObjectStore` | the configuration, the bucket, the listing in progress, what was signed, metrics, answers | `do_presign`, `do_presign_post`, `do_usage` page by page, `do_delete`; writes of others |
| `Calendar` | the date at hand, the one before, the last call | `parse`, `from`, `add`, `sub`, `start_of`, `end_of`, `add_business_days`, `in_zone`; `diff`, durations, ISO text and parts are operators |
| `Money` | the column, what it is worth, the roundings made, the allocations | `make`, `add`/`sub`, `mul`/`div`/`neg`/`abs`, `round`, `add_pct`, `pct` with `sub_pct`, `allocate`, `amount`; the list verbs are operators on the column |

`MCExecute`, `MCServer`, `MCTenancy`, `MCValues` and `MCScript` give the constants their values. The other runs
instantiate their module from the `.cfg` alone. Definitions whose comment begins
with *Mutant* are wrong variants of the definition below them: each passing
property is violated when one of them replaces its original (`mutants` in
`PROJECT.json`).

## 3. What the runs check

| Run | States | Properties |
|---|---|---|
| `JsPool` | 83 039 | `PoolAccounted`: the gauge counts exactly the running threads and the unwound ones, and no warm slot is lost before shutdown but by unwinding; `ShutdownSettles`: after shutdown the pool comes to rest |
| `Execute` | 299 634 | `UncoveredTasksAbandoned`: a task without a permit is one whose client left; `RequestsAccounted`: every answered request is counted once, in the counter that fits, and its events fit its answer; `ServerStops` |
| `Server` | 339 208 | `PlanShare`: a plan's share holds in every mix of plans; `HoldingsMatchStep`; `BatchDiscipline`: no more items past the gate than the ceiling, slots conserved, *before* is a barrier and *after* sees every result; `WorkAccounted`; `BulkheadSpec`: the composition implements the bulkhead; `BatchesSettle` |
| `Egress` | 554 587 | `SessionInStep`: until a call has timed out a call reads no response but its own, and metrics are reported only for a session in which every request that was written had its own response read, unless a timeout left a frame half read; `CallsMeetDeadline`; `BrokerCallsReturn` although the broker never answers |
| `Quic` | 11 384 | `ConnectionShared`: one death of the connection is absorbed by the retry, one dial while none dies; `SessionsOpen`: every session is opened or refused, or the broker withholds a stream of a live connection for ever |
| `Breaker` | 541 344 | `ProbesSpaced`: however long a probe takes, the next one is admitted by a clock at least a cool-down later; `BreakerCloses`: a target that is back is called again |
| `Events` | 1 114 630 | `DropsOnlyWhenSaturated`: a usage or audit event is dropped only after a whole window of saturation, or when its writer is gone; `AcceptedReachesSink`: what was accepted is written in order, and the flush loses nothing unless its budget ends; `OnlyStdoutHoldsUp`: no request and not the exit waits for a writer for ever, slow or panicked, unless stdout is stalled |
| `Keys` | 1 033 346 | `LastGoodKept`: a failed refresh keeps the last good keys; `CacheCatchesUp`: a key that stays published reaches the cache |
| `Invocation` | 2 961 120 | `BudgetsHold` against a script that catches everything; `CauseReachesCaller`: status line, retry hint and `Retry-After` agree, capability errors keep their hint through rethrows, an interrupted handler answers `TIMEOUT` |
| `Tenancy` | 3 499 652 | `ContractDecides`: two requests with the same verified contract are the same principal, whatever their headers; `ExecutedIsEntitled`: what executes passed every guard the operator set up; `RecordedForTenant`: one tenant is behind the partition, the session and the events of a request, and the events are its decision, all of it once it is answered and a beginning of it when the client leaves; `ModuleIsOwn`: the module a request evaluates was compiled from its own source in its own namespace |
| `Script` | 1 715 806 | `ConnectsWhereAllowed`: connections go to listed hosts, and to internal addresses only in debug mode, for a host listed with its port, or for an IPv6 literal; `HttpMetered`: every call that was let in is recorded once, in order, with the status that was answered, the refused ones come after all of them, and redirects are bounded; `BudgetsKept`; `TotalsHold`: a total counts each object that was left alone once, and nothing that was never there; `SignedWithinPolicy`; `SurfaceSound`: getters keep and return the members of their own unit, built for the profile, whatever the script replaces, and a script that replaces nothing gets the same members every time and a locked handler; `SplitsKeepWorth`: a currency's total is off by no more than the roundings made, and no share gets a unit before one with a larger remainder; `AggregatesAgree`: what a column's sum is, or when it throws, and how mean, extrema and sort order agree; `PeriodsTile`: periods have no gap and no overlap, and a boundary is refused only where the clocks skip it; `ShiftsKeepTheCalendar`: months are counted on UTC's calendar, business days on the view's; `ReadingsAgree`: components, ISO text and differences give the same instant, but for the rounding of an offset with seconds and years of five digits |

One further run, `EgressRepliesMatch`, is expected to fail; it shows where the code
and a statement about it disagree (section 6).

The modules state more than the runs list: a type invariant of each module, `GcAmortized` and `ShutdownOnlyShrinks` of `JsPool`,
`NothingHeldAfterLeaving`, `PermitsCoverExecution`, `RefusedNeverRuns` and
`RequestsAnswered` of `Execute`, `PermitsConserved` and `QueueServedFirst`
of `Bulkhead`, `UsageExact`, `LiveTenantsOnly` and `FailClosed` of `TenantQuota`,
`FinishedJobsHoldNothing` of `Batch`, `NoOvertaking`, `QuotaSpec` and
`ServerComesToRest` of `Server`, `OpenIffTripped` and `TripsAreTransitions` of `CircuitBreaker`, `OnlyListedReached`
and `EffectsSurvive` of `Invocation`. They hold in the same configurations, and
most of them are proved (section 4); the runs keep those that take the most
steps to break.

### Bounds

The bounds are chosen so that each contended case occurs. `JsPool`: three threads
on two slots make the queue run empty and full, four calls wrap the collection
counter twice. `Execute`: three requests for one permit of one bucket, so that
one holds, one is refused and one comes after the release. `Server`: a request
and two items compete for one permit under limits of one and two, the request
under a plan that is not in the table; a batch has both phases. `Egress`: three
calls are a call that times out, the one that meets its late reply, and one
after; one tick to the deadline and one beyond it. `Quic`: two sessions and three
connections are enough for each session to fail once and dial once. `Breaker`: a
threshold of two below the saturation at three, calls of up to four ticks with a
cool-down of two, so that a probe is joined by another; the trip counter wraps at three. `Events`: three senders on a
channel of one, so that one is buffered and two wait. `Server` has one batch, so that what its items wait
for is held by each other and by the request. `Keys`: two keys that
rotate, one that is never published, two requests, one of which may leave.
`Invocation`: two operations per budget, log entries below, at and above the
entry bound and the total. `Tenancy`: two requests. One may send any of seven
sets of headers, six tokens and three bodies, and each malformed one; the other
shares a contract, a partition or a source with it. Ten configuration files under
six environments hold each boot guard's failing side. The byte strings of two
partitions and sources are equal when joined without the length, so that a cache
key without it collides. `Script`: a behaviour has to do with the surface and the
capabilities, with amounts, or with a date, which share no state. Two or three
things a script does, with limits of two: a second call meets the limit, and a
listing meets it between its pages, since three keys fill two pages of two. Names
resolve to a public address, a private one, both kinds of one embedded in IPv6, or
nothing, and may change between check and connect; literals are public, private, and one
of IPv6 in brackets; five allow-lists hold the empty
one, a bare host, a host with a port, a literal and the wildcard; two redirects are
followed where the code follows four. A lifetime is negative, zero, or above a cap
of zero or five; the default is above the cap. Sums overflow above five. A script
replaces functions of `Object` and `$std` where it has no capability (`Replaceable`), as
neither has to do with the other. Dates: a
day of 32 ticks, eight zones (UTC, one east of it, one change forward and one back inside
a day and at a midnight, one that skips the last hour of a day, one whose offset has a
second), the years 1995 to 2007, of which those up to 2004 stand for four digits
(`LastTextYear`), and one call out of range. A date is parsed or
built and then worked on once: each of its properties relates one call's input to
its result, so that what matters is the set of dates to start from, which holds a
leap day, ends of months, quarters and years, days whose ISO week is of another year,
and instants on both sides of a change of the offset.
`Money`: a currency with two places, one with none and
an unknown code; amounts below and above the minor unit and a negative one; a number with
an exponent, and strings whose order is not that of their amounts; weights that leave
units over, of unequal sizes, with a zero, a fraction, and lists that are refused; quotients
of four places or fewer. Four operations on four rows are a purchase, its split, a deduction from
one share and a second currency beside it.

### Fairness

Weak fairness is assumed only of steps the runtime owes: a scheduled thread or
task, an await that has a timeout, the shutdown sequence. Nothing is assumed of
clients, brokers, loopback services, the script or the reader of stdout, with the
exceptions stated at the definitions. In `Execute` the
broker handshake and the final drain end, since the code gives them no timeout
(`EgressSession` shows what happens otherwise). In `EgressSession` the script
itself ends, which the engine's interrupt handler enforces. In `EventPipeline` threads,
timers and writers run as long as stdout takes lines, however slowly; once it is stalled
nothing is assumed, since `println!` blocks a thread of the runtime. In `ContractKeys` the
JWKS endpoint answers or fails: its client has no timeout (`main.rs`), so that this is an
assumption on the endpoint and the network. `QuicClient` uses
strong fairness of the mutex because tokio's is first come, first served, and assumes that
a dial ends, since QUIC handshakes time out, but not that the broker grants a stream;
`ContractKeys` uses strong fairness for the arrival of requests with a given key. `Tenancy` and
`Script` have no fairness and no liveness property; their deadlock check is off
because all requests finish, and the script ends.

## 4. What is proved

| Module | Theorems | Argument |
|---|---|---|
| `ServerProofs` | `QuotaExact`, `QuotaCapsPlans`, `QuotaTableLive`, `QuotaFailsClosed` | `QuotaInv`: the type and `UsageExact`, which is inductive with it. The share of a plan follows from an invariant of its own on the number of guards admitted at or below each limit |
| | `BulkheadConserves`, `BulkheadServesQueue` | `GlobalInv` (free + held = capacity, waiters distinct and holding nothing, nobody waits while a permit is free) and `BucketInv`; each operation preserves each half |
| | `ServerImplementsQuota`, `ServerImplementsBulkhead`, `ServerQuotaExact`, `ServerPermitsConserved` | every step of the server is, for some job, a step of the quota or leaves it alone, and the same for the bulkhead; the limiters' theorems carry over |
| | `ServerHoldings`, `ServerReleasesAll`, `ServerPermitsCover`, `ServerJobsRelease`, `ServerNoOvertaking` | `ServerInv`: the bulkhead's invariant, the order of phases and `HoldingsMatchStep`. The frame lemmas say what a step of one job does to another: nothing, but hand a waiter its permit. `QueueServedFirst` is the invariant behind the last |
| `LedgerProofs` | `RequestsAccountedFor` | `ExecuteLedger`: refusal, task and events of a request follow from its step. `ExecuteTally`: the outcome counters are the number of concluded requests, the refusals that of rejected ones, and the executions lie between those observed for certain and those that may have been before they were dropped. A step moves one request, and with it one counter or none (`RequestCounted`) |
| `BatchLedgerProofs` | `BatchesKeepDiscipline`, `ServerWorkAccounted`, `ServerCoversTasks` | `ServerBooks`: the same ledger and tally for items and phases (`ServerLedger`, `ServerTally`), the order of a batch's phases (`BatchPhases`), the gate's slots (`GateExact`: free + held = ceiling), on top of `ServerInv` and `ExecuteLedger` |
| `EgressProofs` | `BreakerOpenIffTripped`, `BreakerTripsAreTransitions`, `BreakerProbesSpaced` | the two fields and the counter agree; the probe theorem adds `ProbeWindow`: while the breaker is open its window lasts at least a cool-down beyond the clock that each probe still out has read, so that none of them has to be short |
| | `EgressInStep`, `EgressDeadline`, `EgressTypes` | `SessionInv`: the parts of frames in the two streams are counted (`Counted`, `Framed`), a response is one its request can have (`Answered`), the request written last is the last of the stream (`LastWritten`), and the box never reads more than it is owed (`Steady`). As long as it is owed exactly what it is about to read, every request that was written has had its own response; only a timeout or the end of the stream makes the difference. `DrainLast` keeps the answer to the drain from being met before it is asked for |
| `EventProofs` | `EventsDropped`, `EventsReachSink` | `LineInv`: who waits to send, and in which order (`Line`); a send that was given a slot keeps it (`Slots`), so that one that times out never had one; a writer exits with nothing left (`Writers`). What was written and what is held is, in order, what was accepted |
| `EngineProofs` | `PoolGaugeExact`, `PoolWarmSet`, `PoolExact` | `PoolInv`: types and gauge together, since the decrement stays in `Nat` only because of the gauge; the warm set rests on it |
| | `InvocationBudgets`, `InvocationReach`, `InvocationStatus`, `InvocationEffects`, `InvocationTimeout`, `InvocationCause` | four invariants: of the budgets (`BudgetInv`), of the shape of exceptions, outcomes and responses (`ResponseInv`), of an interrupt (`TimeoutInv`) and of a capability's error (`CauseInv`) on its way to the answer |
| | `KeysLastGood` | `KeysInv`: what was fetched is not empty unless the endpoint has served an empty set, and neither is the cache once loaded |
| `TenancyProofs` | `TenancyContract`, `TenancyModules` | the answer to a verified contract is a function of its claims (`VerifiedAnswer`), and every request past the gate holds the answer of `resolve_identity` (`ContractInv`); the digest is injective in namespace and source because of the length in front (`DigestInjective`), and every entry is filed under the digest of what it was compiled from (`ModuleInv`) |
| | `TenancyEntitled`, `TenancyRecord` | `RecordInv`: the box passed the boot guards; a request past a gate passed it under that box (`Admitted`); its session is its own principal's (`SessionOwn`); it has no events before it is decided, and then what was sent and what is still owed make up its decision, on its own principal (`Trail`), wherever its client leaves |
| | `QuicShares` | `QuicInv`: a session that has got as far as its retry saw a connection die since it began, one that failed saw two (`Opened`); before any has died, the connection that was dialled is the cached one (`FirstLife`) |
| `ScriptProofs` | `ScriptBudgets` | `HttpInv` and `S3Inv`: a call in progress was let in below the limit, which only it can use up, so recording stays within it; every step of a capability is a `Use`, a `Refuse` or a stutter of `OpBudget` |
| | `ScriptMetered` | `MeterInv`: below the limit nothing was refused yet, so that what is recorded next is also what is answered next, at the same place |
| | `ScriptConnects` | `HttpConnInv` and `S3ConnInv`: a call that is about to connect has a target that passed the checks (`Reachable`). For an IPv4 literal the check is what decides, for a name the filter of the connection, whatever the check had been told; an IPv6 literal in brackets is the stated exception |
| | `ScriptSigned` | `SignedInv`: what was signed last is a link of an allowed method or a form, with a lifetime `clamp_expires` returned; its bounds are `ClampBounds` |
| | `ScriptSurface` | `StageInv` (profile and lock); `FrameInv`, for every script: however deep the builds nest, all but the innermost are in their bodies, and the slot holds what the innermost is about to take, built for the profile; and `UnitInv`, while nothing is replaced: at most a build and one inside it are in progress, their units are not kept yet, and what is kept is the last build |

The assumptions are those the modules name. Most say that the sets of jobs, threads
and requests are finite, that names used as markers are not members of the sets they
mark, and that limits are natural numbers (`WorkloadAssumption`, `QuotaAssumption`,
`BulkheadAssumption`, `ExecutionAssumption`, `ExecuteAssumption`,
`PoolAssumption`, `BreakerAssumption`, `InvocationAssumption`,
`PipelineAssumption`, `KeysAssumption`, `QuicAssumption`). `BatchAssumption` and
`ServerAssumption` add that a batch has at most one *before* and one *after*, and
that no job is both a request and part of a batch; `EgressAssumption` that the clock
goes beyond the deadline; `TenancyAssumption` that texts are finite byte strings.
`ScriptAssumption` adds that a redirect limit is positive, that a URL that can be
requested has a port, that a bucket name in front of an endpoint makes a name and no
address, and that the addresses called internal are ones the classifier knows.

Every invariant and refinement the runs check is proved, with these exceptions.

- What is eventually to happen: the prover does not handle fairness.
- `SplitsKeepWorth` and `AggregatesAgree` of `Money`: sums, allocations and sorts are
  folds over a column of any length, and what a fold computes needs induction over
  data.
- `PeriodsTile`, `ShiftsKeepTheCalendar` and `ReadingsAgree` of `Calendar`: the date
  of a day number goes through quotients of quotients, which the arithmetic of the
  provers does not decide, and business days are a recursion over their number.
- `TotalsHold` of `Script`: the total of a listing is a sum over the set of its
  objects, and that sums of disjoint sets add up needs the same induction.

## 5. Not modelled

- Value utilities of the script surface other than exact numbers and dates (text,
  dictionaries, templates, checks, hashes and identifiers): pure functions on data.
  Of the exact numbers: cash rounding (`round_to`), `from_minor`, overflow of the
  96-bit mantissa and the rounding of sums and products that reach it, formatting, and the list verbs that only select or group. Of the
  dates: formatting and humanized text, and more than one change of a zone's offset.
- Of `http`: request headers, methods and bodies, the reuse of connections, and the
  check of box-direct URLs. Of `s3`: the byte layout and
  the timestamps of a signature (it is the tuple of what goes into it), the XML of a
  page, and overflow of the count of objects.
- The wire encoding of requests.
- Startup wiring, defaults of the configuration, tracing and the text of `/metrics`.
- The registries of scripts and modules: a key is known or not (`Tenancy`).
- In `QuicClient`: the choice among replicas, certificate pinning and tokens.
- Benchmarks and examples.

## 6. Statements the code does not meet

One is a run with an entry in `findings`. `EgressRepliesMatch`: replies carry no
identity, and a call that times out leaves its connection in use; the next call
reads the late reply as its own (`broker.rs`, `BrokerSession::call`).

The others are stated in their modules under *Claims of comments and
specifications that the code does not meet*. Adding the name to the module's
`.cfg` shows the counterexample.

| Definition | The statement | What happens |
|---|---|---|
| `DrainsToEmpty` (`JsPool`) | `pool.rs:216-218`: "the pool drains to empty without interrupting work" | a release that read the flag before the shutdown pushes after the drain |
| `DrainedIsFinal` (`JsPool`) | `host.rs:371-373`: "poll pool_stats until `in_flight` reaches zero" | a run that passed the check before the shutdown acquires after the poll |
| `PooledRuntimesClean` (`JsPool`) | `engine/mod.rs:143`: "so pooled runtime is clean" | a failed context creation returns between arming and clearing the handler |
| `BulkheadBoundsTasks` (`Execute`) | `handler/types.rs:40-42`: "a permit is held across the blocking execution span" | the permits are locals of the handler's future: a client that leaves frees them while its script runs. `UncoveredTasksAbandoned` says what remains true |
| `StoppedMeansReturned` (`Execute`) | `main.rs:312`: "so every `host.run` has returned" | an abandoned task outlives its request |
| `ExecutionsMetered` (`Execute`) | `handler/telemetry.rs:171`: "Every request that reaches execution produces exactly these two" | a dropped handler emits neither event |
| `EveryRequestAudited` (`Execute`) | `events.rs:4-5`: "an `audit` event for every request" | a failed credential answers 401 before anything is emitted |
| `TestRunsUnbilled` (`Execute`) | `identity.rs:15-16`: a test run "never enters the live stream / billing / audit"; `handler/telemetry.rs:245-246`: it "MUST NOT enter" them | `emit_executed` does not look at the mode |
| `PartitionShare` (`Batch`) | `batch-execution/spec.md:60-61`: "per-partition fairness" for batches too | items take no partition permit, so a batch beside requests or other batches exceeds the share |
| `RejectedBeforeExecution` (`Batch`) | `metrics.rs:215`: "Requests rejected before execution" | a failed *before* script counts as both |
| `LocalCallsMeetDeadline` (`EgressSession`) | `local_io.rs:87`: "deadline bounding every box-direct round-trip" | the body is read outside the timeout |
| `ThreadNotPinned` (`EgressSession`) | `docs/design/resource-egress.md:292-293`: a hung broker "cannot pin a `spawn_blocking` thread" | the drain has no timeout |
| `OneLiveConnection` (`QuicClient`) | `broker.rs:129-130`: "Holds one live `Connection` for reuse" | `invalidate` empties the cache whatever it holds |
| `SingleProbe` (`CircuitBreaker`) | `breaker.rs:67-69`: "only that one request probes while others keep fast-failing until the probe resolves" | a probe that takes longer than the cool-down is joined by a second one. `ProbesSpaced` says what remains true |
| `LossesAreCounted` (`EventPipeline`) | `tenant-metering/spec.md:67-69`: "Every dropped usage/audit event SHALL increment" | a request dropped in `send_timeout`, or a panic of the writer, loses one silently |
| `ExitReached` (`EventPipeline`) | `events.rs:307`: "a stuck writer can never hang process exit"; 328: "can never hang on a stuck stdout writer" | a writer blocks its thread in `println!`, for which the runtime waits when `main` returns. `OnlyStdoutHoldsUp` says what remains true |
| `FetchesBounded` (`ContractKeys`) | `contract.rs:159`: "bounding churn under bad-token bursts" | all requests that arrive during a fetch fetch too |
| `OwnRefreshCounts` (`ContractKeys`) | `identity-contract-verification/spec.md:69`: "if the key is then present, verifies" | an older answer stored in between takes the key away |
| `BackendErrorsRoundTrip` (`Invocation`) | `capability-registry/spec.md:104-105`: the envelope carries "the backend's `code` with `retryable: true`" | a source outside a fixed list loses its tag |
| `TimeoutsReported` (`Invocation`) | `execution/spec.md:121-122`: "the response error code is `TIMEOUT`" | an interrupt at the top level is `SYNTAX_ERROR`, in serialisation `INTERNAL` |
| `MemoryLimitParks` (`Invocation`) | `execution/spec.md:105-107`: `MEMORY_LIMIT` "SHALL be non-retryable" | in serialisation it becomes a retryable `INTERNAL` |
| `LogEntriesBounded` (`Invocation`) | `diagnostic-logging/spec.md:64-65`: "each entry SHALL be bounded in size" | a truncated entry keeps its whole template |
| `DeterministicReadsNoClock` (`Invocation`) | `js/determinism.js:2-3`: "neutralize nondeterministic surfaces" | the top level runs before the pass |
| `ExtremaSkipStrays` (`Money`) | `js/list.js:203-204`: "A column is treated as money once any money value is seen; other values are then skipped" | `min` and `max` compare a bare number before or after it, or throw |
| `EqualValuesCollapse` (`Money`) | `js/list.js:157-158`: "Equal wrapper values (money by amount+currency, …) collapse" | the key is the printed amount: 1.5 and 1.50 stay apart |
| `TiesToTheFirst` (`Money`) | `money/spec.md:153-154`: "earlier-listed shares receive leftover units first" | remainders are those of rounded quotients: a larger quota has fewer places, so that equal remainders differ as decimals |
| `NumbersHaveASum` (`Money`) | `list/spec.md:141-142`: `sum` of numbers "SHALL return an exact `Decimal`" | a number that JavaScript prints with an exponent, as 1e-7, throws |
| `MonthsClampInTheView` (`Calendar`) | `datetime/spec.md:119-120, 130-131`: "Jan 31 + 1 month → the last day of February", "not an overflowed March date"; `docs/10-datetime.md:68-69` | `add` is sent no zone: in a view that is on another day than UTC the months are counted from UTC's day |
| `BoundariesExist` (`Calendar`) | `datetime/spec.md:183-190`: `start_of` and `end_of` "SHALL return the boundary instant" | they throw where the clocks of the view skip that midnight, or the last instant before it |
| `SerializesAsRfc3339` (`Calendar`) | `datetime/spec.md:75-76`: "it SHALL serialize to its RFC 3339 UTC string" | a year of more than four digits has a sign, which `parse` refuses |
| `IsoIsTheInstant` (`Calendar`) | `datetime/spec.md:227`: the string is "of the same instant" | chrono prints an offset to the minute; that of a local mean time has seconds |
| `InternalBlocked` (`Script`) | `http.rs:243`: "blocks private/internal IPs"; `http/spec.md:80` | an IPv6 literal keeps its brackets, so that it is neither an address nor a name to the check |
| `HandlerFindsLock` (`Script`) | `std-namespace/spec.md:105`: "a handler cannot mutate, replace, or extend any `$std` member" | `std_freeze.js` takes `Object.freeze`, `Object.defineProperty` and `$std` as the top level has left them |
| `BuiltOnce` (`Script`) | `js/std_lazy.js:4`: "its build-unit is built exactly once", and 9-11 | a unit whose body calls a replaced function can be built again inside its own build |

The modules of `Script` follow the code where these differ; they have no definition
of their own.

| Module | The statement | What the model, and the code, do |
|---|---|---|
| `OpBudget`, `Script` | `docs/deployment.md:127`: `max_ops` is a "Cap on total external operations (db/http/mail/…) per execution"; `http/spec.md:220`: "after `max_ops` external operations are already used" | `http`, `s3` and `io` count apart, each up to the limit |
| `ObjectStore` | `s3/spec.md:152`: "Every `s3` operation SHALL be recorded as a metric" | a page or a delete that could not be sent, and a delete that is not allowed, record none |
| `HttpClient` | `http.rs:27`: "Maximum number of redirects to follow per request", 5 | the URLs counted include the first, so that four are followed |
| `Calendar` | `docs/10-datetime.md:23`: `parse` takes "ISO 8601 / RFC 3339 (with or without a timezone)" | a time has to carry an offset, only a plain date may not |
| `Calendar` | `docs/10-datetime.md:80-82`: `start_of` is the "first instant" of its period, `end_of` the last | `end_of` is the end of the first showing where the clocks show the end of the period twice (`PeriodsTile`) |
| `Calendar` | `add_business_days` steps by days | a step is 24 hours: it can skip a day of the view when its offset changes on a weekday (`Steady` in `ShiftsKeepTheCalendar`) |
| `StdSurface` | a getter that failed may be read again | once `sys` has failed after defining its global, which can be defined once, no later read succeeds (`BodyEnds`) |

## 7. Running it

`tlc -config Server.cfg MCServer` checks a run (`PROJECT.json` lists run, module
and configuration); `tlapm ServerProofs.tla` checks a proof module.

## 8. Plan

Next to be modelled, in this order: the rendering of a batch's response under
its size cap; the registries of scripts and modules; the choice among replicas in
`QuicClient`. Next to be proved: `TotalsHold`, once sums over sets can be
reasoned about, and that `Calendar` reads back the date of every day number.
