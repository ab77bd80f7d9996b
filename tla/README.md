# TLA+ verification of the pubsub.py load harnesses

The repository holds three Docker load-test harnesses around the external broker
library `pubsub.py`, and two matrix drivers that run them:

* `performance_harness` (`testclient`): one broker, SQLite or memory durability;
* `ingress_balanced_harness` (`dclient`): producers go through nginx to one of `Y`
  brokers, consumers and the observer fan *in* to every broker;
* `egress_balanced_harness` (`dclient`): producers *broadcast* to every broker,
  consumers go through nginx to one broker;
* `dist_matrix_driver.py` and `performance_harness/matrix_driver.py`.

The brokers of the two distributed harnesses share one Postgres through
`PostgresDurability`. The library, Postgres, Docker DNS and nginx are external: the
modules take from them only what the code here relies on.

## Components

| Component | State | Operations | Hard part |
|---|---|---|---|
| Append path (`postgres_durability.py`: `append`, `_drain_appends`, `close`) | queue of (row, future), set of committer tasks, closed flag; tables and WAL of Postgres | append, claim a batch, insert and commit, relay result, exit, close | interleaving of callbacks and tasks, ambiguous commits, cancellation, crashes of broker and database |
| Topic, ack, dead-letter tables (same file) | `topics`, `acks`, `dlq`, `messages` rows | register, claim, release, list, read_from, record_ack, last_acked, to_dlq, read_dlq | several brokers on one table, order of commits against `created_at` |
| Fan-in manager (`config.py`: `fan_in`; `attach` in the subscribers) | dict of attachments, connections, pump tasks | resolve, drop, attach, tear down, cancel | replica set changes under it, attach that fails half way, failed lookups |
| Broadcasting producer (egress `producer.py`) | dict of clients, counters | maintain, register topics, mirror one message, count | shared dict used across awaits, partial failure, unbounded retry |
| Ingress and performance producer | one client, three counters | register beside or before the load, publish | topics unregistered while load runs, publishes lost half way, discovery windows |
| Consumer pump | subscription, ack and nack counters | subscribe, ack, nack, re-subscribe | eviction, reconnect, retry budget, poison |
| Start-up and probes (`controller.py`, `verify_upstream_features`) | server, TLS server, probe topic | bind, probe, serve, close | dependants start on a TCP healthcheck |
| Fleet telemetry (`heartbeat_loop`, `stats.py`) | instances with timestamps, buckets, peak | heartbeat with timeout, record, expire, snapshot | timeout against TTL, bounded rings |
| Observer (`observer/app.py`, `brokerotel.py`) | previous counters per broker | scrape, rate, sum | counter resets, brokers missing from one scrape |
| Drivers | results, running stack | teardown, up, wait ready, sample, sweep | partial failure, stop rules |
| Pacing | next_at, step index | paced, max and burst workers | catching up after a slow publish |
| Dashboards, exporter, null backend | none | - | not modelled |

How they interact: producers publish to brokers (calls that return a result or raise);
a broker calls `append` and awaits its future, then delivers to subscribers; the pumps
ack or nack; instances publish heartbeats as ordinary messages, which the observer's
fleet plane collects; the observer also scrapes counters over HTTP and reads Postgres;
the drivers read the observer. `fan_in` and `Broadcaster` follow the replica set that
Docker's DNS reports.

What makes each correct: the append path stores what it confirms, once, and strands
nobody; fan-in keeps exactly one attachment per live replica; the broadcaster reaches
every live broker and does not over-report; a claim has one owner and a replay misses
nothing; a delivery is settled once, or dead-lettered after its budget; the telemetry
shows live instances and true rates; a sweep ends, leaves no stack behind and reports
what it measured.

## Modules

| Module | What it is |
|---|---|
| `DurableLog` | Abstract specification: what a durability backend promises publishers. |
| `AppendPath` | `PostgresDurability`'s append path in one broker, and its Postgres. Implements `DurableLog`. |
| `AppendPathProofs` | Its inductive invariant and theorems. |
| `Attachments` | Abstract specification: what a subscriber may rely on about `fan_in`. |
| `FanIn` | `fan_in` with the `attach` of the ingress consumer and both observers. Implements `Attachments`. |
| `FanInProofs` | Its inductive invariant and theorems. |
| `Broadcast` | `Broadcaster`, `_register_all` and `_publish_one` of the egress producer. |
| `EgressStream` | `Broadcast` composed with the consumers behind the load balancer. |
| `BroadcastProofs` | The invariants of `Broadcast` and their proofs. |
| `Startup` | Brokers from the connect to Postgres over both probes into service, their topic claims, healthchecks and dependants. |
| `StartupProofs` | Its inductive invariant and theorems. |
| `OtelScrape` | The observer's scrape loop over the brokers' counters, and the driver's two samples. |
| `SweepDriver` | The cells and stop rules of both drivers, with docker failing and the driver killed. |
| `FleetView` | Heartbeats with timeouts, the fleet pump, and their expiry on the observer's panel. |
| `Pacing` | The schedule of the paced workers of all three producers. |
| `LoadView` | A producer process and its panel: `Pacing` and `FleetView` on one clock. |
| `LoadViewProofs` | The invariants of both and their proofs. |
| `Throughput` | The firehose pump, the rings of `Stats`, and the figures of a snapshot. |
| `MeasurementProofs` | The invariants of `OtelScrape`, `SweepDriver` and `Throughput` and their proofs. |
| `EventFlow` | Producers, brokers' subscriptions and consumers' pumps in ingress and `performance_harness`. |
| `EventFlowProofs` | Its inductive invariant and theorems. |
| `TopicStore` | The tables shared by all brokers, and the observer's snapshot of them. |
| `TopicStoreProofs` | Its inductive invariant and theorems. |
| `MCFanIn`, `MCOtelScrape`, `MCSweepDriver`, `MCEventFlow`, `MCTopicStore`, `MCLoadView` | Values of constants and symmetry sets for TLC. The other modules are run as they are. |

Definitions whose comment begins with "Mutant:" are plausible bugs: each replaces the
definition it is next to, to see that a property notices.

### AppendPath

The broker is one asyncio event loop, so an action is what happens between two awaits.
`queue`, `task` and `batch` are `_append_queue`, the committer tasks in `_writers` and
the local `batch` of each; `fut` is the future an `append` awaits; `closer` and
`awaited` are the progress of `close()`. Two gaps of asyncio are states of a task:
*spawned* (created, not run yet) and *finished* (returned, its `discard` callback not
run yet). A row is a message, and rows are counted per message, since the table has no
unique key on `message_id`; the insert order inside a batch is abstracted.

Postgres is external and does what the code must survive: a commit takes effect before
its reply (`ServerCommit`, then `RelaySuccess` or `RelayFailure`); a transaction whose
client lost its connection may commit or abort later (`orphans`); a crash leaves what
was flushed (`disk`); with `synchronous_commit` off any commit since the last crash may
be missing from it, which the model decides when the crash happens.

* `PublishAfterDurable`, `SingleInsert`, `WaiterAccounted`, `WriterCap`,
  `CloseLeavesNothing`: safety. `AppendInv` is the inductive invariant of the proofs.
* `ClaimedResolves`, `CloseCompletes`: liveness.
* `ImplementsDurableLog`: the refinement. The mapping reads `status` off the futures
  (failed, cancelled and lost are all "error": the publisher does not know whether the
  message is stored) and `stored` off the table.
* `QueuedWorkIsCommitted` says what a comment in the code says, and fails (see
  Findings).

### FanIn

`active` is the dict, `targets` and `todo` the round in progress, `at` and `step` the
broker and connection being opened or closed. `conn` and `pump` count what exists per
broker and plane, whoever knows about it. `Planes` is how many connections `attach`
opens one after the other: 1 for the ingress consumer and the egress observer, 2 for
the ingress observer. The two pumps the consumer starts on its one connection start in
the same step and count as one. The connect retries of `connect_broker_at` are one step
that succeeds or, at its deadline, fails. `Cancel` interrupts the manager at any await.
A pump that is cancelled is counted as stopped at once: its task ends when it next
runs, and no code of the manager runs on it in between.

`Attachments` forgets rounds, lookups and connections: a broker is attached once at a
time and only while it is up, and after `stopped` everything attached is detached. In
the refinement a broker is attached when its pump starts and detached when its pump is
cancelled, and stopping is the entry into the `finally` block. The mapping reads plane 1,
so it is stated for subscribers of one connection. `EventFlow` uses `fan_in` in this
shape, with its resolved lookups as a disturbance (`Misread`).

### Broadcast

The maintainer has the control of `fan_in` with one connection, plus `registering`:
`_register_all` runs outside the try block and retries for ever. `call` is one running
`_publish_one` per worker: its sequence number, the brokers of its snapshot that have
not answered, and whether one accepted. A broker may accept a message and its answer be
lost. `settled` is a history variable for `FullStream`. Shutdown is left out; pacing and
the heartbeat are in `Pacing` and `FleetView`.

`EgressStream` adds `home`, the broker whose stream each consumer drains. Producer and
consumers find their brokers by different ways (Docker's DNS every `RERESOLVE_SECONDS`;
nginx), so a consumer may sit on a broker the producer has not attached, is registering
at, or has dropped. `DeliveryContinues` is what the docstring of `consumer.py` promises.

### Startup

`pc` is where `run()` of each broker is, `probe` which of the two probes it is in;
`tries` counts the failed attempts of `PostgresDurability.connect`. `owner` is the owner
column of the `topics` table, shared by all brokers and surviving them: an exit,
whatever the reason, closes the sockets and leaves claims in place. All processes have
the same `AUTH_IDENTITY`. `port`, `healthy`, `dependants` and `registered` follow the TCP
healthcheck, compose's `depends_on` and the producer's registration. `passed` is a
history variable. Only egress has both the probes and the shared Postgres;
`performance_harness` has the probes without the database, ingress the database without
the probes.

### OtelScrape

`urls`, `sums`, `prev` and `otel` are the locals of `_otel_loop` and what `/api/otel`
answers; `a0` and `a1` the driver's samples. `made` and `mark` record what the brokers
really did, whatever their counters say after a restart. `Growth` is what was published
between two readings of `made`, counted as a set of publishes. One counter stands for all.

### SweepDriver

One state machine for `sweep_88`, `broker_sweep`, the list loop of `main` and
`matrix_driver.py`, told apart by `mode`. `stack` and `volumes` are what docker holds:
each command may fail, having done its work or not. `Kill` and `Rerun` leave docker and
the results file as they are. A cell's measurement is whether the keepalives were
answered and a small delivery rate.

### FleetView, Pacing and LoadView

Time is ticks. In `FleetView`, `timer` counts the pause or the publish in progress; a
publish is answered, fails, or is abandoned at its timeout and may still have been
accepted, in which case its heartbeat travels (`frames`). `mirrors` chooses the loop:
`heartbeat_loop` of the `config.py` of each harness, with its registration, or the
broadcasting producer's, over up to `Clients` connections. `silent` is the age of the
observer's record. The observer's subscriptions are counted as one: it is `watched` while
all of them stand. `steady` is a history variable: since when a heartbeat was sent to the
observer and nothing has failed. Counters are cut off where nothing distinguishes larger
values.

In `Pacing`, `due` is `next_at - now`, `interval` is `1 / rate` as the worker last read
it, and the clock selects the step of `RAMP`. A publish takes any number of ticks; a
sleep ends up to `MaxLate` ticks late. `level` and `behind` are history variables, two
leaky buckets that measure publishes above and below one per interval over all stretches
of time at once. All three producers have the same loop.

`LoadView` puts the two on one clock: the heartbeat and the workers are tasks of one
`gather()`, and a registration that fails ends them all.

### Throughput

`pump` and `sub` are the firehose subscription, `queued` what the broker is about to
deliver; the other variables are the fields of `Stats`. `now` is the second the clock is
in. What a snapshot shows are operators (`rate_current`, `Recent`, `rate_peak`, `Spark`,
`approx_missing`, `latency_percentile`), since only the peak is kept; so the properties hold of a
snapshot taken in any state. `seen` and `hits` are history variables. Where a property
compares sums it counts `Records`, the single records behind them. There is one
producer and one pump: with several producers `highest_seq` is not comparable with
`total`, as the dashboard itself says of its gap.

### EventFlow

The way of an event, in both harnesses that do not broadcast (`harness`). A producer's
client is connected to `conn`, a broker nginx chose (or the only one); `claiming` is how
far `_register_all` is, `work` the publish each worker waits for, `count` the three
counters of `producer.py`. In ingress the registration runs beside the load, in
`performance_harness` before it. `attached`, `pump` and `sub` are a consumer's
attachments, the state of its `_pump` per broker, and the subscription the broker has
for it, which the pump may not know to be gone. The manager of the attachments is
`FanIn`'s, reduced to one step per broker. A consumer has two pumps per broker whose
selectors have no topic in common; one is modelled. Counters of the pumps are left out.

External, and assumed from how the code uses it: live fan-out to the broker's own
subscribers, a retry budget, then the dead-letter queue, a bounded queue whose overflow
evicts (`docs/02-rerun.md:125`), acks that are frames without answer
(`docs/01-perf-log.md:76`). Claims survive restarts. `landed`, `fanned`, `acked`, `dead`
and `lost` are history variables.

`OneIsland` is about two subscriptions. On one subscription a consumer may well see an
event several times, by a late ack or a retry; the words "exactly once" of the ingress
README (lines 52-55) hold of the fan-out, not of the deliveries.

### TopicStore

One SQL statement is one step. `topics`, `messages` and `dlq` are the tables; a message
is the rank of its `created_at`. The replay flag of a row is what its `INSERT` reads
(`Insert`), between the publish and the commit of its batch, during which other brokers
may register, claim or release the topic. A batch is any set of a broker's inserted
rows, so commits come in any order; a crash loses what did not commit (the commit is
taken to be synchronous, `AppendPath` covers the rest). `auth` says whether topics are
claimed by principals or just registered. The start-up probes are the only code of the
repository that releases; that data topics may be released as well is the backend's
contract.

`view` is the observer's snapshot, built in five reads (`read_dlq`, the two counts of
`counts`, the two of `audit_by_broker`) each of which may fail. A dead letter is per
message and broker: one subscription per broker, since the figures do not tell
subscriptions apart. `holds` and `sure` are history variables. The acks table and
`list_claims` are left out: nothing in the repository reads them.

## Runs

| Run | Question | Result |
|---|---|---|
| `Append` | 3 messages, 3 tasks, cap 2, synchronous commit: safety, refinement, claimed appends resolve, close ends | holds |
| `AppendLostWakeup` | queued work has a committer (comment, lines 223-225) | violated |
| `FanIn` | one plane, three brokers, four disturbances: one pump per broker, `fan_in` implements `Attachments`, converges to the live replicas | holds |
| `FanInTwoPlanes` | two planes: one attachment per broker (docstring) | violated |
| `EgressStream` | two brokers, two workers, a consumer: counts are real, topics registered first, full stream once settled, converges or waits for a lost broker, the consumer ends up where the stream is | holds |
| `Startup` | two brokers, three failures: service only after both probes, no claim left, all get into service | holds |
| `OtelScrape` | two brokers, three passes: no rate and no difference overstates the work | holds |
| `SweepDriver` | all four loops, three cells, three failures: cells do not see each other, stop rules, every run ends | holds |
| `LoadView` | a live instance stays on the panel, a dead one leaves; the workers neither burst nor drift | holds |
| `Throughput` | three messages, six seconds, rings of three: gap, rates, sparkline and percentiles are true of what arrived | holds |
| `EventFlow` | a producer with two workers, two brokers, a consumer: no event by two brokers, true counters, every delivery settled, subscribed everywhere again | holds |
| `TopicStore` | two brokers, topics, principals, messages: one owner per claim, replay keeps what was replayable, snapshots say nothing false | holds |

### Bounds

* `AppendPath`: a message is appended once. Two messages share or split a batch, the
  third arrives while both committers are busy; three tasks against a cap of two let
  `WriterCap` fail if the code let it. `AppendLostWakeup` uses a cap of one, the value
  the drivers set for their sync-fanout cells, and two messages. Crashes,
  cancellations and failures are unbounded.
* `FaultLimit` bounds replica changes, failed lookups and connects, failed docker
  commands, kills and outages, in whichever module has them. Four in `FanIn` let a
  broker depart, return, fail and depart again; three in `Startup` a claim be left, its
  owner's restart hit an outage, and the second broker die meanwhile; three in
  `SweepDriver` a failed down, a kill and a second failure in the rerun. Refusals by a
  replica that is down are unbounded.
* `EgressStream`: `MaxSeq` is two, so two workers publish at the same time. One consumer
  is enough: consumers do not act on each other or on the producer.
* `Startup`: `MaxTries` is 2 instead of 60; an outage may last longer or shorter.
* `OtelScrape`: `MaxCount` publishes per address, `MaxPasses` passes: three are enough
  for a rate across a pass that missed a broker.
* `SweepDriver`: `Cells` is the length of a list; `Wall` is the number of cells the host
  can run, without which the sweep has no end; rates 0..3 straddle the 60 % rule.
* `LoadView`: the real ratio of timeout to TTL (2 s, 8 s), a lag up to the timeout, two
  connections of the broadcasting producer. With a TTL of seven `LiveShown` fails: eight
  is just enough. The ramp goes from a slow step over one without load to a fast one, and
  `MaxDebt` lets a publish take three intervals. One worker: workers share only the clock.
* `Throughput`: rings of three and a window of two over six seconds, so that buckets are
  pushed out and the window begins before the ring; three latencies and a skewed one in a
  ring of three, so that it wraps; `FaultLimit` two is an ended subscription and a second
  delivery.
* `EventFlow`: two events of one producer, the second poison, so that a poisoned and an
  unpoisoned delivery compete for a queue of one; two workers publish at once; one
  disturbance (two with one worker were checked too). A retry budget of two instead of
  five.
* `TopicStore`: a second topic or message or principal is what interferes with the
  first; two disturbances are a crash and a failing read, or two failing reads. One topic
  with three messages was checked too.

### Fairness

`AppendPath`: weak fairness for each committer's next step, for the discard callback
and for `close()`: the event loop runs what is ready, and a database call returns or
raises (asyncpg raises when the connection is lost). Nothing is assumed of publishers,
crashes or cancellation. That `CloseCompletes` holds depends on appends being finite:
committers leave their loop only when they find the queue empty.

`FanIn` and `Broadcast`: weak fairness for the manager's next step and for each worker:
sleeps end, a connect ends at its deadline, a publish returns or raises.  The
convergence properties assume nothing else of the network: they speak of what
happens after `calm`, from when replicas, lookups and connects are stable. In
`EgressStream` the consumer's reconnect loop, too, goes on while a replica is there to
take it.

`Startup`: each process takes its steps, docker restarts what exits (`restart:
unless-stopped`) and repeats its healthchecks, the producer retries registration for
ever, an outage of the database ends. `SweepDriver`: the driver takes its steps, since
each of its waits has a limit; nothing makes a killed driver run again. `LoadView`:
time passes, timers go off, the event loop runs the workers, the observer reads what
arrived and takes snapshots; that a publish is answered is not assumed. `EventFlow`: the manager, each pump and
the frames from pump to broker make progress, because their sleeps and connects end;
nobody has to publish, and the disturbances end by their bound. `OtelScrape`,
`TopicStore` and `Throughput` have safety only.

## Proofs

TLAPS checks, for every value of the constants:

* `AppendPathProofs`: `TypeCorrect`, `AppendInvariant`, `NoDuplicateRow`, `Durability`,
  `NoWaiterLost`, `CapRespected`, `CloseIsClean`, and `Refinement` (under
  `SyncCommit`). The properties alone are not inductive. `SingleInsert` needs to know
  that a row is in one place only (queue, one batch, or one orphaned transaction:
  `OnePlace`) and that a row that may still be inserted is not stored (`UnstoredYet`);
  a new message must be nowhere (`NewIsNowhere`) for `OnePlace` to survive `append`.
  `PublishAfterDurable` needs that the batch of a committed transaction is stored
  (`CommittedIsStored`) and what a crash leaves of the table (`DiskUnderTable`).
  `CloseLeavesNothing` follows from `WaiterAccounted` and from `close()` knowing every
  committer (`CloserKnowsWriters`). One lemma per action shows that it preserves each
  conjunct. The cap is a cardinality argument: only `append` adds to `_writers`. The
  refinement maps commits to `Persist` and every settling of futures to `Confirm` or
  `Reject`; with synchronous commit a crash changes nothing of the table.
* `FanInProofs`: `TypeCorrect`, `FanInInvariant` and `NoHalfAttachment` for any number
  of planes, from `OneAtATime` and `InProgress`, which say what exists of the attachment
  the manager works on; `NoDoublePump`, `NoStrayPump` and `NoClientLeak` for one plane,
  where `Exact` (what exists is what the dict says) is inductive. With two planes
  `Exact` fails, which is the finding of `FanInTwoPlanes`. `ImplementsSafety`: with one
  plane every step is a step of `Attachments` or a stutter, by the same invariant; that
  everything attached is detached in the end stays with TLC.
* `BroadcastProofs`: `TypeCorrect`, `TopicsComeFirst`, `EachBrokerHasAll`,
  `NeverOverReported` for a finite set of workers and any number of brokers and
  messages. The invariants say of a call in progress what the code relies on: it holds a
  number nobody else holds, it waits only for brokers whose topics are registered, and an
  answer it has got is an accepted message. The counts are a cardinality argument:
  a number is published, rejected or in flight. `StreamIsBroadcast` carries all of it
  over to the composition with the consumers.
* `LoadViewProofs`: `PaceTyping`, `NoBurstHolds`, `KeepsPaceHolds` for any ramp, number of
  workers and delay: a worker is never more publishes ahead than one interval beyond
  `next_at` (`Ahead`), and never more behind than `next_at` is past (`Late`).
  `PanelTyping`; and `LiveShownHolds` for any number of connections, under `TtlCovers`:
  the TTL is at least three heartbeat periods and the lag. The age of the last heartbeat
  sent is bounded by where the loop stands, and the oldest one on its way bounds how long
  the record has been silent.
* `MeasurementProofs`, about three components that share no state.
  * `Throughput`: `GapsAreRealHolds`, `RatesNotUnderstated`, `SparklineTrue` and
    `PercentilesRank`, for any sizes of the rings, the window and the sparkline that
    satisfy `SizesAssumption`, any number of messages and seconds. `SeenInv`: what is
    recorded was drawn, and each record is of at most one new message. `RingInv`
    (`RingInvariant`): the buckets are in the order of their seconds, each with what its
    second had, and a busy second without a bucket is older than a full ring. From it a
    busy second too near for the ring to have pushed it out has its completed bucket
    (`Kept`: otherwise the buckets inject into the later busy seconds), and the sustained
    rate is an injection of the records of the window into those of the buckets averaged
    (`SustainedHolds`). The peak's lemma is that a finite set of numbers has a maximum. The
    percentiles need nothing but numbers in the ring: that a sorted order exists, and that
    ranks count.
  * `OtelScrape`: `OtelInvariant`, `RatesHold`, `DeltasHold`, for any finite set of brokers.
    A rate is sound because a counter never grows by more than was done since it was read,
    also over a restart (`Counters`); the difference of two samples because the total of
    a view is what its brokers did since their counters began (`Sound`), which never moves
    back from one view to a later one (`Later`).
  * `SweepDriver`: `SweepInvariant`, `CellsSeparate`, `CeilingIsFirst`, for any number of
    cells. `CellInv` follows the teardown that precedes every `up`; `StopInv` says what
    `peak` and `lows` mean of the results already judged, one less than recorded while
    the loop decides.

* `StartupProofs`: `StartupInvariant`, `TypeCorrect`, `NoUnprobedService`,
  `NoLeftoverClaim` for any number of brokers, outages and crashes. What holds in service
  is not inductive: `SecondHalf` says that between the probes, and during the second,
  the first topic is free and the first probe passed, which is what service inherits;
  `TlsInSecond` that the TLS listener is open during the second probe only, so that the
  release that ends it closes the last one. That another broker's claims cannot
  interfere comes from the topics being per broker.
* `EventFlowProofs`: `FlowInvariant` and `NoDedupNeeded` for any number of producers,
  workers, brokers, consumers and disturbances. That no consumer is given an event by two
  brokers needs more than it says (`OneIslandInv`): a sequence number is drawn once and
  belongs to one publish, an event whose publish has not landed is on no subscription, and
  it lands on one broker, where a consumer has one subscription. A publish that failed is
  not repeated, which is what the argument stands on. `TypeCorrect`, `GroundInvariant` and
  `GroundTruthHolds`, for a finite set of workers: `Tally` tells an answer that is on its
  way from one that was lost, which the property does not, and a publish under way has
  not landed twice; `ClaimInv` follows `_register_all` through its order.
* `TopicStoreProofs`: `StoreInvariant`, `NoDoubleClaim`, `ReplayComplete` for any number of
  brokers, topics, principals and messages. `StoreInv` adds that a message in flight that
  is still sure has a replayable topic and was not inserted as anything else. `TypeCorrect`;
  and `ViewInvariant` and `ShownHolds` for a finite set of brokers: what a read returned
  is bounded by the tables as they are now, since rows are only added, and between the
  two statements of the audit the dead letters already counted are of brokers whose
  messages it has (`ViewInv`). The figures of the audit are folds over the brokers:
  whatever function computes them broker by broker has their value (`SumIs`).

The assumptions are those the modules name: a catalog that is not empty, a positive cap,
at least as many task identities as the cap, a finite set of them, of workers and of brokers,
at least one broker in `EventFlow`, a positive number of planes and of connect attempts,
rings longer than what is read out of them (`_BUCKETS` is 300, the window 30, the sparkline
60), latencies that are not negative unless skewed, and that the absent owner, broker or
result is none of the present ones.

The typing invariants of all modules are proved; the runs of `EventFlow` and `TopicStore`
check theirs as well.

Where an argument is by induction over a finite set (the maximum, the sorted order, the
sums over brokers) it is made by a minimal counterexample: the strict subsets of a finite
set are well founded (`FS_StrictSubsetOrderingWellFounded`, `WFMin`), and both facts are
first-order.

`AppendInvariant` also covers `synchronous_commit=off`, which no run does: it speaks of
both values of `SyncCommit`.

`CloseLeavesNothing`, `ClientsOwned` and `PumpsOwned` (`CloseIsClean`, `NoClientLeak`,
`NoStrayPump`) are proved for all constants and no run repeats them.

Every safety property that a run expects to hold is stated by a theorem. Only
model-checked: the liveness properties (liveness under fairness is out of TLAPS's reach
here) and the liveness part of `ImplementsAttachments`.

## Findings

* `AppendLostWakeup`: a committer that has left its loop counts against `PG_MAX_WRITERS`
  until its done-callback runs. A waiter it has just resolved resumes before that
  callback; if it appends again at once, the row is queued and no committer is
  spawned. With the cap at one the append waits until somebody appends again.
* `FanInTwoPlanes`: the ingress observer's `attach` leaks its firehose connection and
  pump if the fleet connection fails, and the next round starts a second pump.

Seen while modelling, and stated by no run:

* the broadcaster stops following the replica set when a broker leaves for good between
  connect and registration, because `_register_all` retries for ever outside the try
  block (egress `producer.py:75`); `FollowsOrStranded` carries that exception;
* an append on a backend whose `close()` has already failed the queue is queued all the
  same and never answered (`postgres_durability.py:226` foresees such an append);
* `resolve_broker_ips` takes a failed lookup for an empty cluster, so one failure drops
  every attachment (`config.py:93`); the next round attaches them again;
* a broker that only the driver's second sample saw adds its counter since boot to the
  difference that `dist_matrix_driver.py:334` calls authoritative; `DeltaNeverOverstates`
  carries that exception as its premise;
* the keepalive ceiling reports `c - step` as last good also for the first cell
  (`dist_matrix_driver.py:398`), the other two report none;
* a rerun without any result leaves the results file of the run before
  (`dist_matrix_driver.py:550` names it);
* the sustained rate averages the last 30 *busy* seconds, however far apart (`stats.py:99`;
  the constant at `:14` says "seconds averaged"), so after a pause it overstates;
  `NeverUnderstated` claims the other direction only;
* `STATS_TTL` of `config.py:36` is read by nothing, `stats.py:16` has its own 8.0;
* the healthcheck is a TCP connect (`performance_harness/docker-compose.yml:43`) to a port
  that is open before the probes begin, so dependants can start and load a broker before
  it has proved anything; the README of that harness (lines 34-36) says that the probes
  come "before healthcheck can pass". `Startup` has the gap: `Bind` opens the port and
  `HealthCheck` needs nothing else;
* the egress producer mirrors its heartbeat to one broker after the other, each with the
  full timeout: brokers that hang until the timeout, round after round, stretch the round
  beyond the TTL. `LiveShown` speaks of an instance whose heartbeats are answered;
* the ingress observer's firehose pumps, one per broker, share the one `subscribed` flag of
  `Stats` (`stats.py:81`): after one is evicted it says unsubscribed while others stream;
* `_otel_loop` stamps `now` before its scrapes (`observer/app.py:89` in egress), so a
  rate is divided by the distance of two pass beginnings, not of the two fetches.

## Not modelled

* `_burst_worker` and `_max_worker` (they have no schedule), the reporters and the rate in
  a heartbeat (a difference of counters), the join stagger, the shutdown of the
  broadcasting producer.
* Per-topic, retry and lifetime figures of `Stats`, and the sums of the fleet's rates:
  plain counters.
* The acks table and `list_claims`: nothing in the repository reads them.
* Dashboards (static pages), the metrics exporter and the null backend (no state), the
  tables of cells and the reports of the drivers (data).
* The library, Postgres, Docker and nginx beyond what the code relies on.

## Plan

Done: all the modules above, with proofs of every safety property.

Next, in this order:

1. Shutdown: `maintain()` and `close()` of the broadcaster.
2. `FanIn` for two planes: what survives of `Exact` when `attach` fails half way.
