# A verification of the digital cookbook's concurrent core

The repository is a collection of worked articles. Most of its directories hold independent examples,
benchmarks and configuration; its own concurrent logic is in `architecture/` and `capstone/`, and there
mostly in small Go programs that rely on a shared table, a lock, a channel or a queue. This project models
those parts in TLA+, checks them with TLC on small instances, and proves the most important of them with
TLAPS for every value of the constants.

`PROJECT.json` lists the components, the runs, the mutations that show that each property can fail, the
source lines behind every definition, the findings, the hazards and the theorems.

## 1. Inventory

Paths are relative to `src/`. "Hard" names the behaviour that a test hardly reaches.

| Component | State | Operations | Hard | Correct when |
|---|---|---|---|---|
| Job queue, `architecture/background-jobs` (`worker/queue.go`, `main.go`, `listen.go`, `sql/01-schema.sql`) | table `jobs` (state, attempt, lease owner and end); the worker processes | insert, claim, heartbeat, complete, fail, reclaim; poll or LISTEN; drain on SIGTERM | workers paused past their lease; answers lost after a commit; a notification before LISTEN; crashes | an attempt has one worker, only the latest attempt finishes the job, no job is forgotten |
| Redis lock with fencing, `architecture/resilience/locking` (`redislock.go`, `fence.go`) | lock key with TTL, fence counter, the fenced resource | acquire with token, release, expiry, fenced write | late writes and releases, lost answers, a damaged counter | an earlier owner never overwrites a later one or frees its lock |
| etcd leader election (`etcdlock.go`) | election keys under sessions | campaign, token, resign, close | a leader deposed without being told | as above |
| Adaptive limiter, `architecture/resilience/backpressure/adaptive` | AIMD limit, slots in use, queue of waiters | acquire, release, cancellation | cancellation meets wake-up; the limit moves under waiters | no slot leaks, none is idle while someone waits, FIFO |
| Bounded queue, `.../backpressure/boundedqueue` | channel, two counters | offer under four policies, take | several producers and consumers between two channel operations | counters add up, only `Block` blocks |
| Order saga, `architecture/saga/go` | workflow position, order, money, stock, idempotency keys | six forward activities, two compensations, close | retries after the effect, attempts that outlive their timeout, cancellation | effects happen once, nothing is undone after the pivot |
| Click publisher, `capstone/shortlinks/internal/events/events.go` | bounded channel, counters, publishing goroutine | click, publish, close | handlers at work during the shutdown, an unavailable broker | every click is counted once, no send on a closed channel, the shutdown ends |
| Links, outbox relay, broker and analytics, `capstone/shortlinks` (`internal/links`, `internal/store`, `internal/events`, the Java consumer) | links, outbox rows, the broker's stream and its window of message ids, the tables of the analytics | create, publish and mark, deliver again, enter once | two relays, a crash between publish and mark, a redelivery after the commit, two consumers with one event | every created link is announced, a click is counted once |
| CQRS projector and rebuild, `architecture/cqrs/go` | event log, the read model's two tables with their checkpoints | append, project, wait for a token, rebuild, switch | log numbers that commit out of order, two projectors, a switch under a running projector | the read model is the fold of the log up to its checkpoint, and reaches its end |
| Event sourcing, `architecture/event-sourcing-deep/go` (`store.go`, `projector.go`, `rebuild.go`, `aggregate.go`) | streams with versions, checkpoints (transaction number and position), two tables of balances | append at a version, project below a watermark, rebuild and swap | two commands on one version, commits out of order, a rebuild that dies half-way | histories have no gap, a table is the fold of what its checkpoint covers |
| Breaker, bulkhead, retry, `architecture/resilience/patterns` | breaker state, counters | allow, record | outcomes that belong to an earlier state, times read before waiting for the mutex | half-open admits a bounded number of probes, none is lost, and it ends |
| Rate limiters, `architecture/resilience/ratelimit` | buckets, windows | allow | seams of windows, rounding | the promised rate |
| Scheduler, `architecture/background-jobs/scheduler` | table of ticks, advisory lock | tick | the winner of a slot fails | one row for a slot |
| Event coordination, idempotent consumer, `architecture/event-coordination`, `idempotency` | deduplication tables | handle, compensate | redelivery, crash between effect and acknowledgement | effects once |
| Realtime hub, `architecture/realtime/server-go` (`bus.go`, `hub.go`, `main.go`) | journal, bus reader, a queue per subscriber | publish, subscribe, history, stream, reconnect | the seam of history and live stream, full queues, restarts | no event twice, none out of order, no gap but those counted |
| Temporal and gRPC examples, serialization, migrators, configuration, testing; all other top-level directories | none of their own | | | not modelled: demonstrations of libraries and tools |

Components interact through a shared store more than through calls: workers meet in the `jobs` table,
clients of the lock in Redis and in the fenced resource, the saga's activities in its `Store`, handlers and
the publisher in a channel. Each module below therefore has one shared state and many actors.

## 2. Plan

Written, in this order (the most important first):

1. `JobTable` (the SQL statements), `JobWorker` (the processes over it), `JobPromise` (the abstract queue
   that they implement), `JobWorkerProofs`.
2. `FencedLock`, `FencedLockProofs`, and `EtcdElection` with the same resource.
3. `AdaptiveLimiter` and `BoundedQueue`.
4. `OrderSaga`.
5. `ClickPublisher`.
6. `Projection`.
7. `AnalyticsPromise` and `LinkEvents`, which implements it, with its part of `ShortlinksProofs`.
8. `EventStream`, the event stream of the realtime hub.
9. `Breaker` with its part of `ResilienceProofs`.
10. `EventStore` with `EventStoreProofs`.
11. The proofs about `AdaptiveLimiter` and `ClickPublisher`, which complete `ResilienceProofs` and `ShortlinksProofs`, and
    `OrderSagaProofs`.
12. `ProjectionProofs`, `EventStreamProofs` and the proof about `BoundedQueue` (in `ResilienceProofs`).

What would come next, and why it comes last:

13. The cache in front of the store of the short links service (an entry filled from what was read before an
    update), and the stores of event-sourcing-deep over KurrentDB and Kafka, which differ in what an append
    promises.
14. The scheduler and the load shedder: one transaction and one counter each.

`JobTable` and `JobWorker` are composed by EXTENDS: a worker's action is a statement of the table together
with what the process makes of its answer. `LinkEvents` composes the service's table, its relays, the broker and
the consumers; it takes clicks as `ClickPublisher` leaves them, each handed to the broker at most once.

A proof module extends the module it is about. Two of them hold the proofs about a family of small components:
`ResilienceProofs` (the limiter, the breaker, the bounded queue) and `ShortlinksProofs` (the way of an event, the click
publisher). They extend all of these modules, whose common names therefore carry a prefix: `BreakerInit`, `QueueSpec`,
`PublisherNext` (the limiter's and `LinkEvents`' do not). No module declares a RECURSIVE operator, so that all of them
can be proved about.

## 3. The modules

**JobTable.** One variable per column that matters. `left[j]` replaces `leased_until`: the ticks until it,
with -1 for every moment after. `rowLock` is the row lock of a claim between its subquery (`LockNext`) and
its commit (`ClaimRow`) or roll-back (`UnlockRow`). The claim's `run_at <= now()` is true of every queued row,
as nothing in the repository sets `run_at`; the order by `run_at, id` is the order of ids.

**JobWorker.** `pc[w]` is where process `w` is in `run()` (main.go:57-109), `WaitForJob` or `doWork`. `task[w]`
holds what doWork has: the job, its attempt, the ticker (`beatIn`, `beatDue`), the work still to do. `slow`
says that the process has fallen behind the clock; `Tick` lets time pass only when every process that is
not slow has served its due timers. Without such a bound no heartbeat could keep any lease; with it
`PunctualKeepsLease` says exactly how much lateness the choice of `lease/3` tolerates. Errors of a statement
happen before or after it takes effect. `FallBehind`, `Stop`, `Crash` and the error actions draw on one
budget, `MaxFaults`. Every worker has a `-id` of its own. `Fail` is exported by queue.go and called by nothing
in the repository: `Failing = {}` is the program of main.go, and the runs also let one job fail through it.
`-heartbeat=false` is not modelled. A process' own steps are `Untimed(w)` and those of the two timers of an idle worker: `WakeUp`
(the poll interval) and `WaitTimeout` (the two seconds of `WaitForJob`). A timer repairs whatever else failed to wake a worker and so
hides it; hence `FairSpec` owes neither. `WokenByNotify` says what `LISTEN` and the two triggers achieve by themselves, and
`EventuallySettled` has a timer as its hypothesis: either one settles what nobody was notified of, such as
the job inserted between the empty claim and `LISTEN` (FIXTURES.md:313-321 describes this window, so it is no finding).

**JobPromise** is the abstract queue: no leases, clocks or processes. It allows an attempt's body to end at
any time, even next to another attempt's, and demands that a job is done only for its latest attempt.

**FencedLock.** The three ways through `luaAcquireWithToken` are actions, since Redis runs a script as a
whole. An acquisition's random id is replaced by the number of the grant, which is unique too and lets
the properties speak of order. Clients sleep by taking no step. An unlock travels: `releases` holds those
sent and not yet arrived, which may arrive more than once. `Counters` are the values the fence key may hold at
first, damaged ones included. Overflow at 2^63 is `Garbage`: INCR fails on it in the same way.

**EtcdElection** models the election only as far as `etcdlock.go` uses it: a key per session, the smallest
live create revision leads.

**AdaptiveLimiter.** A section under the mutex is one action; the select on `ready` and `ctx.Done`, and taking
the mutex again, are separate. The float limit is counted in units of 1/`Unit` slot and a decrease is rounded
down to a unit; `int(l.limit)` is `\div Unit`. A caller that gives up takes its own element out of the list
(`RemoveAt`), wherever it is.

**BoundedQueue.** Every channel operation is a step, every counter's `Add` another. An element is the number of
the call that brought it.

**OrderSaga.** `step` is the activity that the workflow awaits; `AfterSuccess` and `AfterError` are the workflow's
text. An attempt may fail before or after its effect, and one that timed out stays in `late` and may take effect
at any later time, more than once (two attempts of the same activity). Cancellation abandons an activity
that is awaited on the workflow's context and makes those that follow fail at once, except in the disconnected
context of `compensate`.

**ClickPublisher.** The RWMutex is modelled with its writer preference; `closed` and the closing of the channel
are two steps, as in the code, under the write lock.

**Projection.** `seq` is the sequence behind `order_events.seq`; an event is in `pending` between its number and
its commit. A transaction of `applyLog` is four steps: the row lock (`SELECT ... FOR UPDATE`), the reading of the
log, the first write to `orders_read`, the commit, in which table and checkpoint change together. What a
transaction has written is visible to itself only, so the model keeps the batch and applies it at the commit.
`writing` and the label `renamed` are the two sides of the table's lock: a rename waits for every transaction
that has written the table, and a write waits for the rename's transaction. Row and table can be locked in
opposite orders; `BreakDeadlock` is PostgreSQL's answer. Amounts and users are left out, as they do not change
after `created`. `table` and `ckpt` are indexed by the names in the schema; after a switch the row and the table of
`orders_read_v2` no longer exist, which the model writes as empty and 0, as a new rebuild finds them. `late` is a history
variable, read by no action: the orders with an event that was committed after one with a greater number.

**AnalyticsPromise** is what the short links service promises its analytics: links are seen, published clicks are
counted once. It knows no replicas, brokers or redeliveries.

**LinkEvents.** The way of an event from `Service.Create` to the tables of the analytics. A request draws codes until
one is free and writes link and outbox row in one transaction; a relay reads a batch of rows that are not marked,
publishes them one by one and marks them in a statement of its own; two relays may hold the same rows. The
broker (external: modelled from how the code uses it) stores a copy unless its window still knows the id,
forgets ids at any time and delivers again whatever is not acknowledged. A consumer's transaction is open between
the execution of its INSERT and the commit, and another consumer waits for the key. A step of any actor may fail,
before or after its effect. To the abstract promise only links, stored clicks and the analytics' tables are
visible (`Promise`).

**EventStream.** One topic of `server-go` over `redis-streams`. `reader` is `Run`'s memory of where it is in the
journal, `out` a delivery that has reached some of the subscribers, `sub` a subscriber's queue under one of the
three policies, `conn` the handler of `/sse`: the number it has sent up to and the events it has taken out of the queue and
not sent. It sends one event at a time, while the goroutine beside it may already hold the next batch (`held` counts
its events; the channel between the two is unbuffered). `missed` holds the
events that the service left out: those a full queue dropped and those the reader jumped over at its start. The
browser is external: it reconnects with the number of the last event it has seen.

**Breaker.** A request takes a worker, asks `AllowAt`, calls, and hands the outcome to `Record`. The times it brings
were read before it waited for the mutex and may be `MaxLag` old. `probes` is a history variable: the calls admitted
since the breaker became half-open. The dependency goes down and comes back at any time, `MaxOutages` times.

**EventStore.** A command reads a stream (`Version`), decides, and appends one or two events in a transaction: it
draws its number with its first statement and may find a version taken (the unique key waits for an open
transaction). `ProjectBatchInto` is four steps: the watermark, the checkpoint's row lock, the batch, the commit.
The projector's transaction draws a number of its own when it writes, so it holds the watermark back too. A
rebuild stops the online projector only for its swap; its writers may finish while it drains. All streams have
one history (registered, filled, emptied litre by litre), so the version that a row has reached stands for its
balance. `global_pos` orders only the events of one transaction.

## 4. The runs

A run `X` checks the module `MCX`, which extends `X` with the model values of its sets, or `X` itself where the
configuration alone can give the constants (`OrderSaga`, `LinkEvents`, `EventStream`, `Breaker`, `EventStore`).

| Run | Instance | Shows |
|---|---|---|
| JobWorker | 2 workers (one listening), 2 jobs, lease 3, work 4 ticks, 2 attempts, 2 mishaps | leases and fences, that the queue implements `JobPromise`, that notifications wake those who listen, and that every job is settled by either timer |
| FencedLock | 3 clients, 4 grants, TTL 1, counters 0, 5, -1, -2 and unusable | order of tokens, fencing, harmless late releases, no lock for ever |
| EtcdElection | 2 candidates, 5 revisions | the finding of section 5 |
| AdaptiveLimiter | 4 callers, limit 1 to 3 slots in halves, step 1.5, factor 1/2 | slots, FIFO, every wait ends |
| BoundedQueue | 3 producers, capacity 2, 4 offers, all policies | counters, termination of `Offer` |
| OrderSaga | 1 order, 3 attempts | once-only effects, the pivot, the end of the saga |
| ClickPublisher | 2 handlers, 5 clicks, buffer 2 | every click counted, no send on a closed channel, shutdown ends |
| Projection | 2 writers, 2 orders, 2 projectors, 3 events, 2 rebuilds, 1 failure | every order without a late event is shown as the log has it, the position goes back by a switch only, and reaches the end of the log |
| LinkEvents | 2 requests for 2 codes, 1 click, 1 relay with batches of 2, 2 consumers, 1 failure | once-only counting, nothing lost, and that it implements `AnalyticsPromise` |
| EventStream | 1 client, 5 events, queues of 2, 2 failures, all three policies | order without repetition, no silent gap, events arrive |
| Breaker | 4 requests, 3 workers, threshold 2, 2 probes, pause 1, lag 1, 2 outages | probes are accounted for, the breaker recovers |
| EventStore | 2 writers, 2 streams of at most 3 events, 1 projector and 1 rebuild, batches of 2, 3 transactions, 1 failure or rebuild | tables are folds, no version is skipped, histories are sound, events are projected |

Why the bounds suffice for the interesting cases. *JobWorker*: work is longer than the lease, so heartbeats
matter; two mishaps are what the known failures need (a pause and a reclaim race, a lost answer after a
commit and a crash); two attempts reach both branches of `Fail`. One worker polls and one listens: as no timer is owed,
the poller may sleep for ever, and the listener has to do with its notifications. *FencedLock*: a client that wakes up needs
two successors to tell "older" from "previous", hence three clients and four grants. *AdaptiveLimiter*: four
callers allow a runner, a cancelled waiter at the front and two behind it; the step of 1.5 slots makes a
release wake two. *BoundedQueue*: capacity 2 is the least in which an eviction can hit a queue with room. Four offers end, so `OfferReturns` speaks of a loop of
`DropOldest` whose competitors come to an end; a loop among producers that never stop is not examined.
*OrderSaga*: orders share nothing but their account's sum, which is additive, so one is enough; three attempts
give a first, a middle and a last one. *ClickPublisher*: five clicks fill the buffer twice and leave one in
hand. *Projection*: two projectors and the rebuild are all that meet at one checkpoint; three events allow a batch,
a later one and one that comes after the switch; the second rebuild starts from what a failed one left. Two
writers make an event late, which main.go's single one never does: then `ReadModelIsFold` does not hold (section 5), and
`PunctualOrdersAreShown` is what is left of it. Its behaviours include those in which one writer is idle; in them no order is late, and it says the same as
`ReadModelIsFold`. *LinkEvents*: two requests make a batch
of two rows and draw the same code; two consumers meet at one key; one failure is what separates publishing from marking,
or a commit from its acknowledgement, and the proofs remove this bound as well as the others. There is one relay;
that two of them lose nothing is proved, and that they announce every link in the end is not checked. *EventStream*: clients share
nothing but the reader and `out`, so one is enough for what is said of each; five events overflow a queue of two while a
history is sent; two failures are a break of the connection during the recovery from another, or a restart. *Breaker*: a
fourth request waits while three are admitted, of which two are probes and one may stem from before the trip; two outages
let a call of the first end in the half-open time after the second. *EventStore*: three transactions give a stream its
three events or race on both streams; the one failure is spent on a rebuild or on a projector, which otherwise blow up the state space; a
transaction's roll-back and the death of a rebuild are not charged to it, nor is a failure of the rebuild's own projector.

Deadlock is checked in JobWorker, AdaptiveLimiter and Breaker, which never stop. Elsewhere the bound on grants, offers,
clicks, revisions, requests or events ends a behaviour, or the saga ends, and the configuration says
`CHECK_DEADLOCK FALSE`.

### Fairness

Safety properties are checked under the same runs and need none. For liveness:

* JobWorker: time passes, a live process goes on with what it does (the runtime schedules goroutines and every
  statement ends), a body that is due ends, processes that ended are restarted (compose and k8s manifests) and
  someone keeps running `worker -reclaim`. Nothing obliges a mishap. The poll interval and the timeout of `WaitForJob` are
  hypotheses of `EventuallySettled`, one of the two at a time.
* FencedLock: only Redis' clock. Clients may sleep for ever.
* AdaptiveLimiter, BoundedQueue, ClickPublisher: goroutines that can run do; the holder of a slot gives it back;
  a publication ends within its timeout; a shutdown has a deadline. Consumers, requests and cancellations are
  not owed.
* OrderSaga: Temporal ends every attempt, by its answer or by StartToCloseTimeout.
* Projection: `projectOnce` is called again and again (by the projector's schedule and by waiting readers), and a
  rebuild that was begun goes on. Fairness is strong, as PostgreSQL queues those who wait for a row or a table.
  Writers and failures are not owed.
* LinkEvents: the relay's ticker and the consumer's loop go on (both are restarted), and failures are bounded. Requests
  and clicks are not owed, nor is it that the broker forgets.
* EventStream: the reader reads on, handlers and clients run, and a client that was cut off reconnects. Publications
  are not owed.
* Breaker: a request that began is handled to its end, and time passes. That the dependency comes back is a hypothesis
  of `Recovers`.
* EventStore: the projector is called again and again, a command that began ends, and the rebuild leaves its drain and
  swaps. That commands stop is a hypothesis of `EventsAreProjected`.

## 5. Findings

One run refutes a sentence of the repository (`PROJECT.json`, "findings"): `etcdlock.go:12-14` says that etcd gives fencing
for free. `FencingToken` asks for the *current* leader's revision, so a deposed leader that asks late is given its
successor's token, and its write passes.

Other disagreements that the models let happen, without a run of their own:

* `worker/queue.go:106-108` says of reclaim that a job is not executed twice at the same time. A worker paused past
  its lease goes on executing next to the one that got the job after it, as main.go:101-102 itself says. The
  completion is fenced (`DoneByLatestAttempt` is proved).
* `boundedqueue.go:105-107` says that the send is tried again when a consumer has made room meanwhile. The code evicts
  whatever is oldest unless the queue is empty; no element is miscounted (`CountersBalance`).
* `architecture/saga/README.md:46-49` says that idempotency makes a compensation a no-op when the effect was not applied.
  That is so of `unreserve`, which looks at the key of `reserve`, and not of `refund` (`EffectsOnce` allows `paid = -1`).
* `architecture/cqrs/go/projector.go:129` says that the projection has caught up with the log when the lag is 0.
  Numbers are drawn before the commit: with two writers, an event that commits after a larger number was projected
  lies behind the checkpoint and is not applied before a rebuild. Its order is shown wrong until then, and no other is
  (`PunctualOrdersAreShown`, proved as `LateCommitsAreConfined`). The cursor of event-sourcing-deep excludes
  this, and `EventStoreProofs` proves it.
* `resilience/patterns/breaker/breaker.go:103` says that all probes succeeded when the breaker closes. A success of a call
  that was admitted before the trip counts as well (the parameters of `Record` do not tell), so fewer probes may suffice. And line 106 says
  that an outcome is not expected while the breaker is open: those of calls admitted before the trip arrive then, and are
  ignored.
* `architecture/realtime/server-go/main.go:173` fills the seam between history and live stream; `bus.go:163-171` can jump over entries when
  the first read of a new process times out, and connected clients are not told (`missed`).
* `event-sourcing-deep/go/rebuild.go:49-50` demands that the comparison before the swap finds no difference. `drainLoop`
  (350-365) asks whether the writers have finished after it has seen an empty batch, so the shadow may lack what they commit
  between the two. The projector catches up after the swap (`EventsAreProjected`).

## 6. The proofs

**JobWorkerProofs** (for any sets of jobs and workers, any lease of at least three ticks, any work, any number
of mishaps). The invariants are not inductive one by one. The inductive invariant `IInv` adds to them: `InHand`
(what a busy worker has in hand is an attempt that the row has reached, and its own if it owns the row),
`InTime` (of the lease of a punctual worker at least
`Lease - Beat` ticks are left, and more by what its heartbeat timer still has to run) and `Executed` (a worker about to
complete has recorded its attempt as ended). About the heartbeat period the proof uses `1 <= Beat` and `Beat < Lease`
only: a third of the lease is more than is needed by a worker that serves its timer within a tick, and the rest is
its margin. The
refinement `Spec => PromiseSpec` maps state, attempt and history to the abstract queue; every action of a worker
becomes one abstract step or a stutter, with `Owned` making the abstract guard of `Finish` true.

**FencedLockProofs** (any set of clients, any first value of the counter). `IInv` states that a token is its
grant's number plus a constant offset, the counter less the number of grants; the order of tokens, the
monotony of the resource and the harmlessness of late releases follow.

**ShortlinksProofs.** *LinkEvents* (any requests, codes, clicks, relays, consumers, batch sizes and failures). `IInv` relates the tables to
what the processes have in hand: an open request holds a code and a number nobody else has (`OpenRequests`), rows and
links come in pairs (`RowsAndLinks`), what is marked or remembered was published (`StreamRows`), what a consumer learnt
from its INSERT stays true until it commits (`ConsumerKnows`), and two open transactions never have the same key
(`OneInsert`). The last two are why an event that is delivered twice is counted once. From it follow `CountedOnce`,
`NothingVanishes`, and that every step is a step of `AnalyticsPromise` or a stutter: the safety part (`Promise!Safe`); its
fairness is left to TLC.

*ClickPublisher* (any handlers, buffer and clicks). `EveryClickCounted` is inductive by itself; the bounds of the
counters follow from it and not the other way round. `Closing`: whoever closes the channel has set `closed` under the
write lock, after which no handler reaches its send.

**ResilienceProofs.** *AdaptiveLimiter* (any callers, limits and rates). `InLine`: a caller is in the list at most once and not when its
channel is closed. Then what `Wake` takes off the list has as many members as it counts (`FirstCounted`,
`WakeProperties`), and each of the ways back to idle keeps `inFlight` equal to the number of holders. The set of
callers need not be finite.

*Breaker* (any requests, workers, thresholds, pauses and lags). `NoLostProbe` is inductive together with
`ProbesInFlight`: a request that is about to call is not counted already.

*BoundedQueue* (any capacity, number of offers, policy, producers and consumers). An element is in one place: with a
producer, in the channel, or in one of the sets `taken`, `evicted`, `refused` (`OnePlace`). `Balance` says which
elements each counter has counted already, those of a producer between its channel operation and its `Add` excepted,
and `CountersBalance` is what follows for the numbers. The proof needs no bound on anything, not even `Capacity > 0`; the
types (`QueueTyping`) need it, which `New` demands (boundedqueue.go:61-63).

**EventStoreProofs** (any writers, streams, runs of the projector, batch sizes and histories). The core is `Settled(n)`: no
transaction with a number below `n` is open or still to come. A watermark is settled, and stays so while numbers grow.
`IInv` adds to the types: `Log` (the order of the log is the order of versions in each stream, and every version's
predecessors are there), `Writers` (an open transaction's number is younger than the versions it builds on, and its keys are
its own), `Tables` and `Projectors` (what a table, or a transaction of the projector, shows is what is not after its
cursor, and everything up to the cursor is settled; a batch is a beginning of what comes after), `ShadowRuns` (the
shadow is written only while the rebuild drains). The three invariants of the run follow. Least and greatest
elements are described by predicates (`Watermark(n)`, `Version(s, v)`) that the actions quantify over, so that no proof
depends on there being one.

**ProjectionProofs** (any orders, writers, projectors and rebuilds). `Locks` and `Batches`: a transaction of `applyLog` holds
its table's row from its first step to its end, and reads what comes after the table's position. So a position goes back
by the switch only (`PositionGoesForward`). For the read model the order of commits decides, order by order: an order that is not in
`late` was never overtaken (`CommitsInTime`), so a batch has all of its events that come after the position and up to the batch's
last one (`BatchIsPrefix`), and what `AppliedFold` and `PunctualStep` make of it is the fold of the log for that order
(`LateCommitsAreConfined`, for any number of writers, without a condition on their commits). `Numbers` and `Orders` (numbers are drawn
once, an order is created before it is paid) hold with late commits too. With
one writer, as main.go runs it, `late` stays empty and the whole table is the fold (`ReadModelOfOneWriter`); with two it does not, which is
the disagreement with projector.go:129 in section 5. That a batch has a last number is proved here, not assumed: a
bounded set of numbers has a least upper bound among its members, by the well-foundedness of the natural numbers.

**EventStreamProofs** (any clients, queue length, events and failures, each policy). What is under way to a client is a row of
segments: received, on the wire, taken by the handler, in the queue, and the event being delivered. `Received` and
`InLine` say that every segment ascends and ends before the next begins, except that the handler may have sent from the
history what the queue brings again, which `sent` tells apart. `NoHole` and `NoHoleAhead` say that between two events of
the row nothing is absent that is not in `missed`, and, while the queue is open, up to what the reader has read.
`Reader`: before the reader knows its place nothing is on its way, so that a jump leaves a hole only behind what was
counted. `InOrderOnce` and `NoSilentGap` follow; neither is inductive without the others.

**OrderSagaProofs** (any number of attempts). `Parts`: the saga is before the pivot, on its way back or from the pivot
on; what may still take effect late belongs to that part or to the first. `Secured`: it goes on only after a
charge and a reservation that succeeded. `Logged` ties the log of compensations to the idempotency keys. `EffectsOnce` is
proved of its three parts, money, stock and log.

Assumptions are those the modules declare with ASSUME; TLC evaluates them in every run. One theorem,
`ReadModelOfOneWriter`, has a hypothesis of its own.

Every invariant and every action property that a run checks is now also a theorem. Only model-checked: liveness
(`EventuallySettled`, `WokenByNotify`, `LockIsFreed`, `EveryWaitEnds`, `OfferReturns`, `SagaEnds`, `ShutdownEnds`, `EventsAreProjected`, `EventArrives`,
`Recovers`, the fairness in `AnalyticsPromise`), which needs ENABLED and is out of the prover's reach, and the finding about
`EtcdElection`, which is a counterexample. The type invariants of all modules but `EtcdElection`, `JobPromise` and
`AnalyticsPromise` are proved; only those of `JobWorker` and `FencedLock` are run as well.

## 7. Not modelled

The components of status `not_modelled` in `PROJECT.json` carry their reason. Inside the modelled ones: the demonstrations
of defects that the source keeps beside the correct code (`AcquireThenTokenUnsafe`, `UnfencedResource`,
`-heartbeat=false`), the failover of Redis, two workers with the same `-id`, an order submitted twice under one
id, the publisher's synchronous mode, two rebuilds of the read model at the same time, the cache of the short links service and
its modes without outbox or deduplication, WebSocket, polling and the buses without history in the realtime hub (with
`RT_BUS=none` two deliveries may overtake each other in `Hub.deliver`, hub.go:141-160), the stores of event-sourcing-deep over KurrentDB and Kafka, its
upcasting and its unknown event types, bulkhead and retry, logging, tracing and metrics other than the counters named above.

A property's mutation (the operator that the comment calls "variant for a mutation check") is a plausible mistake
in the code that makes the property fail; variants take no part in the specifications.
