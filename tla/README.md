# Formal models of GoGuardLib

TLA+ models of GoGuardLib's stateful parts, checked with TLC on small
instances, and proofs, checked with TLAPS, of what the dead-letter queue, the
breaker, the redriver, the pipeline, the consumer and the service guarantee for every
instance.
Paths below are relative to `src/`.

## The system and its parts

GoGuardLib keeps work alive while something it depends on is broken. A Kafka
**consumer** runs every message through a **pipeline** of steps. Calls to other
services go through a **circuit breaker**, which a **health prober** may reopen.
A message that cannot be finished goes to the **dead-letter store** with a
checkpoint; the **redriver** leases stored records and resumes them. The store
may **encrypt** what it holds. A **service** builds all of this, runs it and shuts
it down. For HTTP there is a **transport** with one circuit per host, which can
also save requests it cannot send and replay them.

| Part | State | Operations | What is hard about it | Module |
|---|---|---|---|---|
| Queue (`dlq/machine.go`, `memory.go`) | records, indexes by state, dependency and order key, cached wake-up times, totals | Append, Lease, Checkpoint, Ack, Nack, Release, Park, Requeue(With), Discard | late workers, expiring leases, indexes kept by hand | `Machine` |
| Leases with payloads on disk (`dlq/wal_write.go`) | reservations | Lease in two critical sections | state read, lock released, state used | `Machine` (mode "split") |
| Write-ahead log (`dlq/wal_*.go`) | segments, snapshots, directory, what of each is durable | log, fsync, rotate, compact, recover, close | crashes between any two steps | `WAL` |
| Redriver (`dlq/redrive.go`) | work channel, in-flight counter, active set, wake flag, holds | dispatch, fill, process, settle, shutdown | dispatcher and workers race, leases lapse under them | `Redriver` |
| Pipeline (`pipeline/pipeline.go`) | checkpoint, epoch, phase | Execute, Handler, compensate, save, Redrive, Rewind | crashes between effect and checkpoint, rewinding a saga | `Pipeline` |
| Breaker (`internal/breaker`, `breaker`) | state, probe slot, window, in-flight counter | Acquire, Success, Failure, Abandon, Close, overrides | no lock: single atomic operations interleave | `Breaker` |
| Health prober (`health`) | streak, generation | Run, probe | starting and stopping races with the circuit | `Breaker` |
| Consumer (`kafka/consumer.go`) | per-partition frontier, key queues, backlog, counters | poll, dispatch, complete, rewind, commit, rebalance, shutdown | out-of-order results, stale deliveries, shutdown | `Consumer` |
| Retries (`retry`) | budget | Do | marks on errors | part of `Pipeline` |
| Store interface (`dlq/store.go`) | records, leases | what every store promises | who may work on what, and when | `Store` |
| Encrypting store (`dlq/secure.go`) | peppers and keys in use | Append, Lease, HasOrderKey, Reseal | keys change between two messages | `Secure` |
| Service (`kafka/service.go`) | what is open | NewService, Run, Close | partial starts, order of shutdown | `Service` |
| HTTP transport (`goguard.go`, `defer.go`) | LRU of circuits, saved requests | RoundTrip, tryDefer, replay, janitor, Close | eviction under use, every way out of a request | `Transport` |
| Events (`obs`) | bounded queue | Emit, Close | drop when full | no |
| Codecs, cryptography, audit, CLI, demo | - | - | data, not control | no |

`PROJECT.json` lists every part, every definition with the lines it models, and
the hazards with the properties that cover them.

## Modules

**Machine.** `items`, `byKey`, `groups`, `wake`, `parked`, `counts`, `bytes` are
the fields of `machine`. Lists that the code keeps in `Seq` order are sets, and
`Seq` is the order. `grants` is a history of every lease handed out, with what
its worker did with it; a token is a position in it. `Producer`, `Worker`,
`Operator`, `Poller` and `Committer` group the actions by who calls them. In mode
"atomic" a `Lease` is one step (`LeaseAtomic`, MemoryStore); in mode "split" it is
`LeaseSelect` and, later, `LeaseCommit` (WALStore), and `Restart` replays the log. Late calls are possible at any time: a worker that has
lost its lease may still call.

**Store** is what the interface promises: which records there are, in which order,
who holds which lease. It has no indexes, limits, reservations, payloads or log.
**MachineStore** maps `Machine` to it: a record as a caller sees it is its state,
`Seq`, key, token and times; the tokens issued are the length of `grants`; the
settled ones are those whose lease ended by a call. Selecting and reserving,
checkpoints and refreshed indexes change nothing a caller can see.

**Secure** puts the encrypting store on top of `Store`. A configuration is a number;
the pepper and the encryption key are those of the configuration. `Fetch`, `Ask`,
`Handle`, `OrderKey` and `Save` are a consumer that asks whether a key is held, one
pepper at a time, and then handles the message or saves it; `LeaseSealed`,
`OpenRecord` and `Finish` are a redriver's worker; `Reseal` seals the records anew under
a later configuration. A pepper may be dropped only when no record uses it (`Clear`).

**Service** puts the life of the process on top of `Secure`: `NewService` and `Build`
open one part after the other and may fail at each, `Run` starts consumer and
redriver, `PartStops` and `CancelRun` end it, `CloseBegins` and `CloseStep` release
what was opened, `Crash` ends everything at any point, and a new start may use the
next configuration. A message that the store will never take, with another of its key
behind it, leaves the consumer waiting for ever (`Unstorable`, `Hung`): then `Run` does
not return, and neither does `Close`.

**Transport.** `entries` and `lru` are a shard; a circuit is an element of `Circuits`
with its state, and one that nothing refers to may be used again (`Keep`). `q[r]` is
where a request is in `RoundTrip`, `getEntry`, `guarded` or `tryDefer`, with its permit
and what it holds open. A deferral is two steps: `Save` puts the request in the store,
and `TryDefer` answers the caller, who may be told an error although it was put there.
The replayer is `ReplayHandler` with the redriver's `unavailable`. The janitor, `Close` and probers are processes of their own. The
breaker inside is reduced to closed, open and half-open; `Breaker` has the details.
`Setups` are the combinations of cache size, requests, policy, outages and calls of
`Close` that are explored, chosen in `Init`.

**WAL.** A file is a range of log positions of which a prefix is on stable
storage; `dir` and `durDir` are the directory now and when it was last synced.
`Kill` loses memory; `PowerFails` also loses any part of what was not synced. A name
that `createSegment` or `recover` removed without a sync of the directory is `loose`: a
power failure may bring it back although it is in neither directory, and it is then
`astray`. Locks are explicit (`MuFree`, `SyncMuFree`): a rotation, a compaction and the
group committer each take several steps. A record is the log positions its
contents come from.

**Redriver.** `pc` is where `dispatch` is; `hand[w]` is where each worker is. The
end of `process` is three steps (`Delete`, `Count`, `Wake`), because `dispatch` can
run between them. The store is its contract: eligible records, tokens, attempts.
The token bucket is `reserve`, which may grant any number up to what is asked.

**Pipeline.** One message. `runs` holds a live run and a resumed one, each with
its checkpoint; `rec` is the stored record. `standing` and `seen` are what the
services did, by step and epoch of the idempotency key. A service is assumed to
do a request once per key and to answer a repeat with success. `Setups` says whether the
message is a saga and whether it arrives in `Execute` or is in the store already. A run
of `Execute` saves nothing until it ends (`Saving`); `unaware` is set when a step is undone
and a copy of the message goes on that cannot know: the record an earlier delivery stored,
a live run beside a resumed one, or the next delivery.

**Breaker.** One action per atomic load, store or compare-and-swap. Timestamps are
ages. `Watch` is the prober's loop. Callers may leak a permit (`Leaky`) or cancel
(`Impatient`). `Setups` are the combinations of health gate, `TrustHealth`, `MaxOpen`,
`MaxInflight`, callers, overrides, `Close` and outages that are explored, chosen in `Init`.

**Consumer.** `c` holds the fields that `Run`'s goroutine owns; `work` and
`results` are the channels. `RunStep` is one turn of a stage of `Run`. Rebalance
callbacks are steps while `Run` polls.

`MC*` modules give constants values that a `.cfg` cannot state.

## Runs

| Run | Instance | Distinct states | Shows |
|---|---|---|---|
| `store` | two records of one key, two dependencies, both modes, one two-step Lease, two ticks, two leases, restarts | 57,000 | indexes, wake-up times, totals, leases; the queue implements `Store` |
| `wal` | one record, three entries, segments of two, a kill, a power failure and a kill, or two power failures | 696,000 | durability, recovery, compaction |
| `redriver` | two records, pools of one and two, two faults and one fault | 583,000 | exclusion, counters, wake-ups, shutdown, progress |
| `pipeline` | three steps, two versions; a message delivered twice, a saga in `Execute`, a stored saga | 839,000 | checkpoints agree with the world, nothing is lost, messages settle |
| `breaker` | two callers and a bulkhead of one; one caller and two probers, overrides, Close; with and without a health gate, one caller leaking and one cancelling | 475,000 | slots, bulkhead, prober hand-over; the circuit closes once the dependency is up |
| `consumer` | two workers, three messages of one partition, two faults, two assignments | 372,000 | commits, key order, counters, progress |
| `transport` | two requests and the replayer, two hosts and a shared endpoint, caches of one and two, an outage, panics, pruning, Close | 280,000 | index, permits and bodies, deferral, shutdown, progress |
| `service` | two messages of one key, two starts, two configurations, two leases, crashes | 310,000 | order under rotation, release of what was opened, termination |
| `reopened` | a kill, then a power failure | violation | see below |
| `panic` | shutdown with a message queued behind another of its key | violation | see below |
| `keys` | a saga with a step that cannot be undone, rewound | violation | see below |
| `live` | a saga in `Execute`, a permanent failure and a crash | violation | see below |

*Why the bounds are enough for the cases that matter.* Two records of one key are
needed for order, two leases for a late worker, one two-step Lease next to atomic
ones for a record to change between selection and commit. Three log entries in
segments of two give a rotation and a compaction that leaves something behind. Two
power failures are what it takes for a removed segment to come back behind newer entries
and for recovery to meet it. Two
assignments are needed for stale deliveries. The two faults of the consumer allow
a failure within a rebalance. In `redriver` one fault with two workers, and two
with one, are what keeps liveness checking within minutes. A cache of one circuit
for two hosts makes every request evict the other's; a cache of two with two
requests for one host is where the second look of `getEntry` matters. Two messages
of one key and two starts are a rotation between them. The bulkhead needs two callers;
a prober that leaves while the circuit opens needs one caller, two probers and a second
outage; a leaked canary needs a second caller to take over.

Larger instances that were run once and passed, too long to be repeated each time: `wal`
with a kill and then a power failure, without `AckedSurvive` (626,000 states), and with a
single power failure, where `AckedSurvive` holds without its exception (530,000);
`pipeline` with a saga in `Execute` that is delivered once more, three faults (492,000);
`breaker`, safety only, with two callers, two probers, a bulkhead of one, Close and two
outages behind a trusted health check (3,160,000).

`CHECK_DEADLOCK FALSE` stands where a bound (clock, leases, log length, starts) ends
the behaviour, or where every request has returned; every other run checks for
deadlock. Priority callers and `DryRun` are in `Breaker`, but no run switches them
on. Modules have no type invariant as a property of a run: the ones that matter are
part of other invariants, and that of `Machine` is proved.

*Fairness.* Goroutines that can run do; handlers end because their contexts do
(`ProcessTimeout`, `handlerTimeout`, `RequestTimeout`). Timers, delays, holds and leases
run out. Strong fairness is used where a goroutine polls again and again: reads and
commits of the Kafka client, the rate limit granting something, a caller not
cancelling every call. Failures are bounded in number and never assumed to stop by
fairness, except outages, which end. `Drains` and `Progress` say what happens as long
as `Run` is not stopped, `SavedIsSent` as long as the transport is not closed. In
`Service` only stopping is fair: the redriver stops when its context ends, because its
handlers do, and the consumer because its drain is bounded, unless it hangs on a message
behind one that could not be stored; `Stops` excepts that. `Close` of the transport is
fair once it has begun; nobody has to call it. `Recovers` is about circuits that no
operator overrides, nobody closes and no leaked permits fill up (`LeftAlone`).

## What is proved

All of this holds for every value of the constants that the named `ASSUME`s allow,
not only for the instances of the runs.

**The queue.** `MachineProofs` and `MachineRefines` prove of `Machine`, for every finite
set of records, any keys, dependencies, callers, limits and times, and in both modes:

* `TypeCorrect`: the type invariant;
* `IndexCorrect`: the indexes agree with the records;
* `TotalsCorrect`: the totals of records by state and of bytes are those of the records;
* `WakeCorrect`: a cached wake-up time hides no record that is due;
* `MutualExclusion`: one unexpired lease per record and per order key;
* `Fencing`: only the newest lease settles a record;
* `HandoutCorrect`: a lease hands out the checkpoint the record has at that moment,
  although it was read before, with the lock released;
* `AttemptsCorrect`: a record's attempts are the leases since it was appended or
  requeued, less the refunded ones;
* `NoLoss`: a record leaves only when acknowledged or discarded while parked;
* `Refinement`: `Machine` implements `Store` under the mapping of `MachineStore`.

None of them but the first two is inductive by itself. `OneWorkerPerKey` speaks of
what workers hold, and needs that an unexpired lease in a worker's hands is the
record's current one (`OutHeld`), that a leased record carries the newest token
(`TokenInv`), and that only the head of a key is leased (`LeasedHead`), which in turn
needs distinct `Seq` numbers (`SeqInv`). `WakeHidesNothing` needs that no wake-up time
lies behind the due time of an unreserved head (`WakeInv`). `IInv` is their conjunction;
`Inductive` proves it, with one lemma per action.

The refinement's invariant `ViewInv` adds what the mapping needs: a record that is
not leased carries no expiry, and an absent one carries nothing. One lemma per action
shows the abstract step it is: a commit of a two-step lease is one abstract `Lease` of
what was read and `SetAside` of what could not be, a lease lost on the way is a `Lease`
nobody settles, a restart is `Reopen`.

The totals are sums over sets of records (`Totals`). `TotalChange` says what such a sum
does when some members change. A sum is a recursive function, and the
facts are proved from the least counterexample (`Least`), which takes the place of
induction.

**The breaker.** `BreakerProofs` proves of `Breaker`, for any callers, probers and
limits, and with priority callers and `DryRun` too:

* `BulkheadCorrect`: the bulkhead counts the calls that hold a slot, within its limit;
* `ProberExclusive`: one prober at a time;
* `AlwaysWatched`: an open circuit is watched, or somebody is about to start a prober.

Its invariant adds the types and `Exclusive`: at most one prober runs, and the `running`
flag says whether one does. Each step either leaves the slots alone, takes one or gives
one back (`KeepsSlots`, `TakesSlot`, `GivesSlot`), and either leaves the prober alone or
hands it over.

**The redriver.** `RedriverProofs` proves of `Redriver`, for any finite set of records,
any pool and any number of faults:

* `HandledOnce`: no record is queued or handled twice at the same time;
* `PoolCorrect`: the counter is exact and fits the channel, and a waiting dispatch is
  woken;
* `AttemptsRight`: a record is charged no more attempts than its handler failed and
  leases of it ran out;
* `StopsClean`: after `Run` no record is left under an unexpired lease, unless the store
  failed or a handler was abandoned.

The first two rest on `Reserved`: what `fill` asked the store for, and what it still has
to queue, fits beside what is in flight. The other two rest on `LeaseInv`: a leased
record that is not given up has somebody who will settle it (`Covered`), and a failure
that is still to be settled has been charged already (`Charges`).

**The pipeline.** `PipelineProofs` proves of `Pipeline`, for any pipelines and any number
of faults, crashes, deployments, redeliveries and rewinds:

* `TruthTold`: what a checkpoint, stored or in a run, lists as completed is in force at
  the services, and what it lists as undone is not, unless a compensation took effect and
  its checkpoint was lost;
* `NothingLost`: an acknowledged message is stored, or every step has been done;
* `UndoCompletes`: once a step was undone, nothing goes forward before the operator says
  so.

They hold of sagas and other pipelines, stored or run by `Execute`, with one exception
that the code forces: a saga that `Execute` runs checkpoints nothing while it undoes (see
`live` below). From the moment it has undone a step and another copy of the message goes
on (`unaware`), nothing is promised of that message; `UndoCompletes` says that this happens
to no other kind of message.

`TruthTold` is not inductive: a service ignores a key it has seen before, so a step that
runs again under an old key is done only if it was not undone since. `Knows` supplies
that: no key is of a later epoch than a checkpoint's, and what was done in its epoch and is
not listed as undone is still in force. `Rewind` keeps it because it counts the epoch up
whenever something was undone. `Resumed` ties a resumed run to its record, `OnCourse` a
run to the deployed steps, and `Undoing` says that a record of which something was undone
is marked as compensating, which `save` does before the first compensation.

For a live run `Alone` takes the place of the record: as long as nobody is unaware, either
nothing has been undone, or the live run is the one that undoes it and there is no record.
`Untouched` says that while nothing has been undone no checkpoint lists anything as undone
and every key is of the first epoch, which is why a new delivery starts with a true
checkpoint. `Mindful` is the invariant with its exception; a step makes a copy unaware only
if it is a delivery or a compensation of a live saga (`Learns`, `Forgets`).

**The consumer.** `ConsumerMethods` has a lemma for each method of the consumer;
`ConsumerProofs` proves, for any partitions, messages, keys, workers, faults and
rebalances:

* `NeverSkipped`: everything below a committed offset is finished or safely stored.

The invariant `Inv` says that each partition's entry is true (`Entry`): below its
frontier everything is settled, as is what it lists as completed, and what is to be
committed is no further than that; and that every task anywhere in the consumer is of a
generation there has been (`Seen`), so that a result of an earlier assignment cannot
move the frontier of a later one. As long as nothing was accepted of a partition,
everything below the offset the client reads next is settled too.

**The service.** `ServiceProofs` proves of `Service`, for any finite set of messages,
any partitions, any sequence of configurations and any number of starts:

* `HandledInOrder`: consumer and redriver together handle the messages of a key in order;
* `ReleasesLast`: while one of them runs, all that the service opened is open, and a
  service that is down has nothing open.

It assumes that a record's id names the partition and offset of its message
(`PartitionsAssumption`, `KafkaIDIn`), that a hash is never the empty key, and that a
configuration has a pepper. The order needs `OrderInv`: the stored messages of a partition
all carry the same hash, one of those the present configuration looks for (`Keyed`);
their arrival order is the partition's (`Queued`); what the consumer has gone past is
stored, finished or discarded (`Reached`); and what it has asked for and not found is not
there (`Asked`), although the redriver works in between: only the consumer of the
partition adds to a key. `ReleasedLast` needs how far `NewService` and `Close` have
come, and that `Close` waits for `Run` before it releases anything (`LifeInv`).

**Only model-checked.** The other invariants of `Consumer` (`KeyOrder`, `CountsExact`,
`NothingForgotten`), everything about `WAL` and `Transport`, and all liveness, which the
prover does not do: `Settles` of `Pipeline` among it. Of `Pipeline`, `InForceOnce` and
`ResumesUndo` are refuted by runs and so have no theorem.

## Where code and documentation disagree

Four have a run of their own:

* **`reopened`**: `recover` continues the last segment without an fsync of it. After
  a kill, an entry that is only in the page cache is replayed; `Append` of the same id
  finds the record and reports it durable at once, and a power failure loses it.
  `dlq/wal_write.go:343`: "It returns after the record is on stable storage."
* **`panic`**: `Run` closes the work channel and then applies the remaining results;
  `released` sends the next message of a key to the closed channel
  (`kafka/consumer.go:726`).
* **`keys`**: `Rewind` counts the epoch up for the whole record, so a step that was
  not undone gets a new idempotency key and is done twice, against
  `pipeline/pipeline.go:678`.
* **`live`**: a saga run by `Execute` saves nothing while it compensates
  (`pipeline/pipeline.go:342`), so after a crash the message is delivered again and runs
  forward, against `pipeline/pipeline.go:159` ("each checkpointed so a crash or an outage
  mid-way resumes compensating").

Others, found while modelling, that no run of this project repeats:

* `retry.Do` strips the permanent mark (`retry/retry.go:202`), so a pipeline step with
  retries is deferred where `Step.Run` promises parking or compensation.
* `complete` returns `ErrUnstorable` before it drops what is queued behind, and the
  last drain of `Run` waits for ever (`kafka/consumer.go:838`); `Stops` excepts it.
* A message finished behind a failed one can run again if the failed one finishes
  before its redelivery (`kafka/consumer.go:544`, against `docs/GUIDE.md:893`).
* `recover` removes a last segment with a damaged header, and `createSegment` one it could
  not finish, without a directory sync; after a power failure brings it back, recovery may
  refuse (`dlq/wal_store.go:639`, `dlq/wal_write.go:58`). If two come back, recovery may
  delete a segment with acknowledged entries, because the name of the segment before says
  less than it holds. `AlwaysOpens` and `AckedSurvive` except just these cases.
* `rotateLocked` fsyncs with `syncMu` held, so while it stalls nobody in `syncDone.Wait`
  returns, whatever `SyncTimeout` says (`dlq/wal_write.go:100`).
* `Nack` and `Park` store error texts past `MaxBytes` (`dlq/machine.go:488`, against
  `dlq/memory.go:20`).
* A call from before the opening that is abandoned while half-open frees the canary's
  slot (`internal/breaker/breaker.go:225`, against `docs/GUIDE.md:374`).
* Probes counted before a relapse can half-open the circuit
  (`health/health.go:126`, against line 89).
* The redriver's handler context starts when a worker takes the record, so it can
  outlive the lease (`dlq/redrive.go:418`, against line 45).
* A circuit that a request makes after `Close` has listed the circuits is never closed,
  and its prober may run on (`goguard.go:324`). `CloseStopsAll` excepts these circuits.
* `RedriveConfig.Breakers` given a snapshot of `guard.Breakers()` can hold a circuit that
  was evicted while open and never closes (`defer.go:226`); `BreakerSource`, which
  `Transport` models, looks them up each time.
* Requests under way on an evicted circuit do not count in the bulkhead of the new one.
* A panic in `IsFailure` leaves the response open (`goguard.go:691`); `NothingLeaks`
  promises only the permit after a panic.
* `Reseal` keeps the stored form of order keys (`dlq/secure.go:335`), so it does not clear
  the records of an old pepper, as `OrderKeyPeppers` says (`dlq/secure.go:29`).
* A second `Service.Close` returns before the first has finished (`kafka/service.go:347`).
* Turning a pepper on over a store with clear keys, or two appenders of one key during a
  rotation, can leave a key under two stored forms (`dlq/secure.go:116`). `Secure` has
  one writer per key, which a Kafka partition gives.
* `limiter.recovered` keeps the time of the last refill, so the bucket can refill for
  the whole outage at once (`dlq/redrive.go:577`).

## Abstractions and what is left out

* `WAL`: only `SyncAlways`; the torn tail of a file is a lost suffix, holes are not
  modelled; nacks, parks and requeues are logged like the operations that are;
  signatures, `ForceRepair`, `FailOnTruncation` and the disk-space check are left
  out. `Kill` also stands for closing a store that has failed.
* `Redriver`: records have no order keys; statistics, events, the `OnPark` mirror and
  the ramp are left out.
* `Pipeline`: the data that steps hand on is left out.
* `Consumer`: at least two workers (the inline mode is another loop); the unstorable
  policy may differ from message to message, which covers both settings.
* `Breaker`: the rolling window is two counts that may be forgotten at any time.
* `Transport`: one shard; policies, `RetryAfter`, fallbacks and the encoding of requests
  are data; the redriver is one replayer.
* `Secure`: one writer per key; payloads and hashes are values that open or match only
  under the right key.
* `Service`: consumer and redriver are the calls they make of the store; publisher and
  metrics are left out.

## Not modelled

* `obs`: a bounded queue that drops events and never blocks; nothing here depends on an
  event having arrived.
* `internal/engine`: the buckets of the rolling window; `Breaker` allows every count they
  could produce by forgetting at any time.
* The retry `Budget`, backoff and jitter (`retry`), and the ramp of the redriver's rate
  limit: both only say no more often, which `Pipeline` and `Redriver` allow at any time.
* `kafka/confluent`, `kafka/publisher.go`, `pipeline/http.go`, `pipeline/json.go`, `client.go`,
  `policy.go`, `match.go`: translation of messages, requests and options.
* `secure`, `dlq/wal_codec.go`, `dlq/wal_sign.go`: cryptography, framing and checksums.
* `dlq/wal_backup.go`, locks and platform files: copying of files and system calls.
* `dlq/audit.go`, `dlq/durability.go`, `cmd`, `demo`, `dlq/storetest`: wrappers, tools and
  tests.
