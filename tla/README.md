# A TLA+ model of csm-metrics-powermax

`csm-metrics-powermax` is a Kubernetes pod that collects capacity, performance
and topology metrics of PowerMax storage arrays and exports them to an
OpenTelemetry collector. Several replicas run; a leader election decides which
one collects. This directory models the program's control flow, checks it with
TLC on small instances and proves the central invariants with TLAPS for every
value of the constants. Every invariant, action property and refinement that a
passing run checks is also a theorem; the liveness properties are model-checked
only.

## 1. Inventory

| component | state | operations | interacts with |
|---|---|---|---|
| leader election (`internal/k8s/leader_elector.go`) | the client-go elector, its last observed Lease record | `InitLeaderElection` (runs until the lease is lost), `IsLeader` | API server; a goroutine of `Run`; `IsLeader` is read by the loop |
| entrypoint loop (`internal/entrypoint/run.go`) | tickers, `wasLeader`, `collectedOnLeaderAcquired`, local intervals, the error channel | `Run`, `ValidateConfig`, `collect...Metrics`, `validatePowerMaxArrays` | elector, exporter, service, `Config` |
| configuration (`cmd/metrics-powermax/main.go`) | fields of `Config`, of the service and of the finders | `configure`, `onChangeUpdate` and what it calls | viper, file watchers; writes what the loop reads |
| array connections (`internal/k8spmax`, `service.go`) | the map array -> entries (primary first) | `GetPowerMaxArrays`, `updatePowerMaxArrays`, `Get/SetPowerMaxClients` | main, the secret informer and the file watcher write; collectors read |
| base metrics (`base_metrics.go`) | one singleton per metric kind with a snapshot of the map | `Create...Instance`, `GetPowerMaxClient`, `ExportMetrics` | service, collectors |
| capacity metrics | goroutines, two channels, a semaphore, five maps of sums | `Collect`, `gather...`, `push...`, `cumulate` | arrays, recorder |
| performance metrics | the same twice, a cache of storage group counts | `Collect`, `getTotalSGCount`, bulk and legacy queries | arrays, recorder |
| topology metrics | three chained channels | `Collect`, `volumeServer`, `gather...`, `push...` | recorder |
| metrics recorder | registered callbacks, `done` channels, a label cache | four `Record...` methods | OpenTelemetry SDK |
| OTLP exporter | exporter, meter provider, failure callback | `InitExporter`, `StopExporter`, `Export` | SDK reader, `Run` |
| volume finder | `DriverNames` | `GetPersistentVolumes` | API server; main updates the names |
| storage class finder, self-metrics, unit converter, types, mocks | none worth modelling | list and filter, delegate, convert | |

What is hard here: the elector, the exporter, the informer and the file watchers
run beside the loop and share state with it, partly without locks; a collection
is a pipeline of goroutines over unbuffered channels with a semaphore and two
WaitGroups; a record blocks until a periodic reader has run; leases expire and
answers get lost. The hazards are listed at their lines in `PROJECT.json`.

What makes each part correct:

* election: one pod leads, its lease is not taken from it, somebody leads again;
* loop: an acquired leadership is collected at once and then periodically, a
  seen loss is never forgotten, edited intervals are applied, errors and
  cancellation end it;
* connections: no reader sees a mixture of two loads, the primary is preferred,
  a change reaches the readers;
* collection: no send on a closed channel, no more than the configured number of
  workers, everything found is settled exactly once, sums that match the records,
  termination, stale entries removed, a stale storage group count that expires;
* recorder: no record vanishes silently, none waits for ever.

## 2. Modules

| module | models | extends |
|---|---|---|
| `LeaderElector` | the election of all replicas | |
| `Entrypoint` | `Run`, its goroutines and the configuration updates of one pod | |
| `PowerMaxClients` | the map of connections from the loads to the collectors | |
| `Collection` | what every collection promises its caller (abstract) | |
| `CapacityMetrics` | one capacity collection | |
| `PerformanceMetrics` | successive performance collections and the storage group count cache | |
| `MetricsRecorder` | records, periodic reader and exporter | |
| `VolumeFinder` | `GetPersistentVolumes` and its driver names, as operators | |
| `TopologyMetrics` | one topology collection, composed with the recorder it calls | `MetricsRecorder`, `VolumeFinder` |
| `MC...` | instances for TLC | the module of the same name |
| `LeaderElectorProofs`, `EntrypointProofs`, `MetricsRecorderProofs`, `PowerMaxClientsProofs`, `CapacityMetricsProofs`, `PerformanceMetricsProofs` | theorems | their module and TLAPS |
| `CapacitySumsProofs` | what the sums of a capacity collection are | `CapacityMetricsProofs` |
| `TopologyMetricsProofs` | theorems of the composition | `TopologyMetrics`, `MetricsRecorderProofs` |

`Collection` is implemented by the three collectors (`Abstract == INSTANCE
Collection WITH ...` in each of them, section "Refinement" below).

Operators named `Mut...` are deliberately wrong versions of the definition that
follows them; no specification uses them. `PROJECT.json` says which property each
one breaks.

### LeaderElector

`phase` is where a pod's election goroutine is: not started, in `acquire()`, in
`renew()`, returned, failed. Only the goroutine's start, its end and `IsLeader`
are code of this repository; the attempts to get and to renew the lease, the
Lease object and the clock are client-go's and Kubernetes', modelled from the way
`InitLeaderElection` configures them. Time is kept as ages with a ceiling of
`LeaseDuration`, so no bound on the clock is needed. An attempt either reads
only, or writes, or writes and loses the answer. `Restart` brings a pod back
under the same identity. Assumed: clocks run at the same rate, and a pod is not
suspended beyond its own renew deadline.

### Entrypoint

`pc` is the position in `Run`; each case of the `select` is an action. Positions
inside the collections are separate steps because leadership, configuration and
`ctx` may change between them. `exporting` is set while `Export...Metrics` runs.
Ticker channels have one place: `Fire` fills it, the loop drains it, and
replacing or resetting a ticker empties it. The leader check and liveness probe
tickers need no state since they may fire at any time. The configuration file is
a raw value; `Parsed` is what `updateTickIntervals` (a number, else the default,
with no range check) and `updateMetricsEnabled` (only `"false"` disables) make of
it, and `OnChangeUpdate` writes one field per step because the code writes them
without the mutex; the reads of `GetTickIntervals` are a step each for the same
reason (`MakeTicker`, `ReadInterval`). `Scenarios` says what may happen in a
behaviour (faults, cancellation, edits) and `Edits` which contents of the file
replace which, so that a run need not multiply faults by edits. An edited file
takes effect only when the proxy configuration
changes, because only that listener calls `onChangeUpdate`. An export that
records something returns only when the exporter is ready (`ready`), since
`Record...` waits for a reader; this is the interface to `MetricsRecorder`.
`StopExporter` before a successful `InitExporter` dereferences nil and is the
transition to `"panicked"`, as is `time.NewTicker` on an interval that is not
positive. What an error or a cancellation leads to is therefore two properties:
Run leaves its loop (`LeavesLoop`, which holds), and Run returns
(`ReturnsWhenTold`, which the test "error initializing exporter" expects with a
mocked exporter and which the program violates).

### PowerMaxClients

Each goroutine that runs `updatePowerMaxArrays` reads the configuration
(`StartLoad`), connects to the endpoints one at a time (`ConnectEndpoint`, with
endpoints going up and down meanwhile), and publishes its map
(`SetPowerMaxClients`, one step: it is under the lock). A collector's first
`ExportMetrics` takes the snapshot that its singleton keeps. `IsActive` is true in
every stored entry (only authenticated entries are stored, and the liveness probe
writes to copies), so it is not a variable of the entries;
`ValidatePowerMaxArrays` keeps what a probe found in the history variable
`inactive`, which no action of the code reads. An export that ends reports a status
per array of the published map (`RecordObsMetrics`): "error" without an active
entry, else "failure" or "success" after the error that the export returns. No load
stores an empty list and no probe changes an entry, so "error" is unreachable: a
collection goes on asking an endpoint that failed the probe, whether the array has
another one or not, and the array is reported as a success. `SuccessMeansLive` says
that this does not happen, as the comment on `GetPowerMaxClient` and the test of the
"error" status have it, and is violated.
Of the refusals of `ExportMetrics` only that of a nil map can occur: main sets a
recorder, and `updateMaxConnections` a positive number of connections. An array ID
that a configuration lists twice, whose endpoints would be appended to the first
list, is left out.
Loads may finish in another order than they started, so the last map published
need not be the latest configuration's: `MapsInv` says only that it is the map of
one load. Credentials are part of "the endpoint accepts the connection".

### CapacityMetrics

The goroutines are the gatherer, one worker per array, the pusher, its recording
goroutines and `Collect`. A send and its receive are one step (unbuffered
channels). `wg`, `sem`, `chClosed` and `namesClosed` are the WaitGroup, the slots
taken, and the closed channels. The recording goroutines of the five levels
differ only in what they hold and are counted. A bulk query and the per-volume
fallback both yield records for some subset of the volumes. `Cumulate` keeps the
first record's array label and adds total and used; other label texts and the
used percentage are left out.

### PerformanceMetrics

One `Collect` after another, because the cache `sgCountCache` outlives a
collection. Per pipeline (`"volume"`, `"group"`) there are a gatherer, a
WaitGroup, a semaphore, a worker per array and a pusher; the two share nothing but
`Collect`'s own WaitGroup. `stage` says how far each volume and storage group has
come, and with it what the channels hold: a send and its receive are one step.

| action | code |
|---|---|
| `Collect`, `CollectFails`, `CollectReturns` | `Collect`, with the reorganisation of the volumes by array and group |
| `GetArrayPerfKeys(S)` | the loop that fills `array2LastAvailTime`; `S` are the arrays some answer covers |
| `Spawn`, `EndOfArrays`, `CloseRecords` | the two gatherers |
| `GetVolumesMetrics`, `GiveUp`, `SendRecord`, `WorkerDone` | their workers |
| `CountFromCache`, `CountFromArray`, `CountFails` | `getTotalSGCount` and the choice of `useBulk` |
| `CollectBulk`, `BulkEnds`, `CollectLegacy` | the bulk call, the fallback when it emits nothing, the single calls |
| `RecordReturns`, `CloseNames` | the pushers |

Abstractions: the records of one answer for one item count as one, also those of
the bulk call, which names no time and may answer with several per storage group; a
record that fails is "dropped", one that succeeds "recorded"; `wg.Done()` and
`<-sem`, both in a deferred function, are one step; the request for the count and
the time stamp of its cache entry are one step (`CountFromArray`), so ages count
from the answer; the time that the cache sees passes between collections (`Tick`),
since a collection reads each entry once; an expired entry equals a missing one;
`bulkThresholdRatio` is a fraction. `max` does not change: `NewBaseMetrics` keeps the
number of the singleton's first use. `updateMaxConnections` lets only a positive
`POWERMAX_MAX_CONCURRENT_QUERIES` replace the default, so neither the refusal of 0
by `ExportMetrics` (base_metrics.go:97-100) nor the panic of `make` on a negative
size is reachable.

Each pipeline keeps to `MaxPowerMaxConnections` (`CountsFit`, a part of
`PerformanceInv`), but each has a semaphore of the full size, so a performance
collection queries the arrays with up to **twice** the number that service.go:30
calls "the number of workers that can query PowerMax at a time".

### TopologyMetrics

The three stages of a collection (`stage` per volume, `gathered` and `pushed` for
the two closed channels) with the recorder's own variables and actions, one call
per persistent volume. `RecordTopologyMetrics` is the recorder's `Register` (or
its failure) together with the update of the labels kept per volume (`labels`,
`UpdateLabels`, `HaveLabelsChanged`); the reader, the exports and the exporter's
stop interleave with the stages. The channel of `volumeServer` has room for all
volumes, so its sends are not steps. `Earlier` is the list an earlier collection
saw, which decides whether a volume is new, changed or unchanged. The labels that are
kept are never what is exported: the callback observes with the labels of its own
call, so `LabelsCurrent` is about the map alone. Volumes without
a CSI part, without a claim or of another driver are filtered by
`GetPersistentVolumes` (`VolumeFinder`). Unlike the other two kinds there is no
"empty" record.

### Refinement: Collection

`Collection` is the promise of `MetricsCollector.Collect`: some items are found
(`Find`) or the list cannot be read (`FindFails`), each item found is settled
exactly once, by being recorded or by being dropped because nobody answers for it
(`Settle`), and the call returns when none is pending (`Return`). The mappings:

| | items | `pending` | `recorded` |
|---|---|---|---|
| `CapacityMetrics` | volumes, "empty" | not yet sent to the pusher, or sent and its name channel still open | sent, once the name channel is closed (all sums are with the recorder) |
| `PerformanceMetrics` | volumes, storage groups, "empty" | found, answered, recording | `Record...` has returned without an error |
| `TopologyMetrics` | volumes | served, gathering, recording | the call has returned without an error |

A record that is counted twice (bulk followed by single calls), a `Collect` that
returns while a goroutine is still recording, a volume forgotten between two
stages, or a record after the return would each be a step that `Collection` does
not have.

### MetricsRecorder

The four `Record...` methods share one protocol: make instruments, register a
callback, wait on `done`, unregister; `map` points all of its steps at
`RecordStorageGroupPerfMetrics`. `senders` counts the goroutines that a call's
callback has started. A reading runs every registered callback in one step,
because the SDK holds its lock meanwhile. Observations wait in `batch` until the
export succeeds or fails.

## 3. Runs

| run | instance | shows |
|---|---|---|
| `election` | 2 pods, durations 7/4/2 | `AtMostOneLeading`, `NoTakeover`, the inductive invariant, `CampaignElects` |
| `isleader` | 2 pods, 15/10/2 | **violated** `OneReportedLeader`: a pod whose elector gave up still reports leadership |
| `loop` | all faults with one file content, or an edit to another one (a changed frequency, one unset, one of 0, a disabled kind) | the leadership flags and the error channel stay consistent; a leader collects at once and again and again; an edited interval is applied; Run leaves its loop when told |
| `performance` | one file content, no fault | **violated** `PerformancePolled`: the ticker's case is empty |
| `stop` | one file content, a failing exporter | **violated** `ReturnsWhenTold`: `StopExporter` panics on the exporter that was not made, so Run does not return the error |
| `maps` | 2 arrays, 3 endpoints, 2 configurations, 3 loading goroutines, 2 collectors | no mixed map, primary first |
| `reload` | the same with 2 loading goroutines, 1 collector | **violated** `CollectorsSeeReload`: collectors keep their first map |
| `failover` | the same | **violated** `SuccessMeansLive`: the probe's result is written to a copy, so a dead endpoint is asked and its array reported as a success |
| `collect` | 3 arrays, 2 slots, 5 volumes (one malformed), any subset found | no send on a closed channel, slots, sums, termination, `Collection` |
| `stale` | the same | **violated** `StaleEntriesRemoved`: no record at all when no array answers |
| `topology` | 5 persistent volumes (2 monitored at a time, or another one), 3 earlier lists, up to 2 readings of a waiting call, failing exports, stop | the stages fit the calls, labels current, nothing vanishes silently, no record waits for ever, termination, `Collection` |
| `perf` | 2 arrays, 1 slot, 3 storage groups, counts 2/4 and 0, a ratio of 1/4 | counters and stages fit the workers, no send on a closed channel, stale count, termination, `Collection` |

Why the bounds are enough. Two pods suffice for every pairwise property of the
election, and 7/4/2 keeps the order relations of 15/10/2 that the proof uses
(`LeaseDuration > RenewDeadline + RetryPeriod`); the proof covers the rest. Two
file contents that differ in all intervals give every mixture of old and new
fields, and a frequency of 0 a ticker that panics; faults and edits do not meet in
one behaviour of the run (the invariants are proved for both at once). Two
configurations and three loading goroutines let loads overlap in every order.
Three arrays for two slots make the gatherer wait for a slot while two workers are
at different stages, two volumes on one array and one name shared across arrays
exercise every level of the sums. Two arrays for one slot per pipeline do the same
for performance, where the lists of volumes are those that give no item, two
groups on one array (so that a bulk answer can be partial) and one group on each
of two arrays; one group of four meets `bulkThresholdRatio` exactly and one of two
exceeds it, an array may report no group at all, and a time to live of one lets a
count be fresh, stale but unexpired, and expired. Two volumes in the topology run
let one be at every stage while the other is at any. `MaxReadings` bounds how
often a call is read before it is unregistered; two readings already leave a
sender behind.

Fairness. Goroutines that can go on do (weak fairness); `select` chooses uniformly
among its ready cases, so a case that is ready again and again is taken (strong
fairness per case; `FairSpec` leaves out the performance ticker's empty case,
which the properties of `loop` do not need, and `PerformanceSpec` adds it, so that
the counterexample of `performance` is not a case that was never picked); calls to
an array return, with or without an answer; the reader reads every five seconds
and an export ends. For the election, the API server is not unreachable for ever
(strong fairness of a successful attempt). Nothing is assumed about who wins,
about edits, endpoints or `ctx`. The liveness properties of the loop exclude one
state explicitly, an export that waits for a reader that never comes (`Stuck`):
the code really waits there.

Deadlock checking is off where the system ends: `Run` returns, a collection is
over, all records have returned, the configurations are used up. It is on for
`perf`, whose collections follow one another for ever.

## 4. Proofs

* `LeaderElectorProofs`: `ElectionInv` is inductive: the state is well typed, a
  pod in `renew()` holds the Lease and the Lease is at most `RetryPeriod` older
  than its current poll, and nobody believes a record to be older than it is.
  `AtMostOneLeading` alone is not inductive: it says nothing about the ages that
  keep a standby from taking the lease. With
  `LeaseDuration > RenewDeadline + RetryPeriod` a standby that may write has seen
  an age that no leader reaches. `LeadershipExclusive` and `LeaseNotTakenOver`
  follow, for any set of pods.
* `EntrypointProofs`: `LoopInv`, the inductive invariant, adds to `ErrorNotLost` and
  `CollectedOnlyAsLeader` that the path of an acquired leadership is entered only as
  a leader (`OnPath`), which the second needs, and the types. One
  lemma covers the goroutines beside the loop, others the cases of the `select`
  and the rest of the loop. Assumed is only the shape of `Settings`.
* `MetricsRecorderProofs`: `RecorderInv`: whoever was signalled was observed, an
  observation stays in a batch until it is exported or reported lost, and a loss
  implies a reported failure.

* `TopologyMetricsProofs`: `TopologyStepRecords` shows that the composition only
  takes steps of the recorder, so `RecorderInv` and `ReturnedIsAccounted` carry
  over without a second proof. `TopologyInv` is inductive relative to it: a channel
  is closed only when the stages before it are empty, and a stage never runs ahead
  of its call. From both, `TopologyStepSettles` maps every step to a step of
  `Collection` or a stutter (only `Collect`, `CollectFails`, `RecordReturns` and
  `CollectReturns` are visible), which gives `TopologyRefinesCollection`.
  `ReturnNeedsReader` needs the strengthening `SignalNeedsReader` (no sender exists
  before the provider was ready), `LabelsCurrent` needs `LabelsWellFormed` (the map
  holds labels with the names of `VolumeInfo`, so bringing them up to date replaces
  them). Assumed is nothing about `PVs`, `Earlier` and `Provisioners`.

* `PowerMaxClientsProofs`: `MapsInv` adds two facts to the types and to "no reader
  sees a mixed map". `LoadsFit` is about the maps nobody sees yet: what a load has
  in its map followed by what it still has to try is, for each array, a sublist in
  order of the endpoints that the load's own configuration gives the array. An
  endpoint that connects moves from the second part to the first (`AppendHead`),
  one that fails is left out (`DropHead`); when nothing is left to try the map is
  what `SetPowerMaxClients` may publish. `ExportFits` ties a running collection to
  its snapshot. `PrimaryIsPreferred` follows from the order. Assumed is the shape of the
  configurations; the number of goroutines, collectors, arrays and endpoints is
  arbitrary, and `NilMap` may be any value.
* `CapacityMetricsProofs`: `CapacityInv` is inductive. That a closed channel is not
  sent on depends on `wg.Wait()`, so the invariant must say what the WaitGroup
  counts (`Counted`: workers that are not leaving, and the array the gatherer has
  counted while it waits for a slot) and the semaphore (`SlotsMatchWorkers`), and
  that phases, records and the `exported` flag fit. The counts are cardinalities of
  sets of arrays: `CountsStep` treats all steps at once, `GatherFits` and `PushFits`
  the rest. `CapacityStepSettles` maps the steps to `Collection`; without
  `PhasesFit` and `RecordsFit` the pusher could close its channel with a volume
  pending. Assumed: finitely many volumes, natural sizes, at least one slot.
* `CapacitySumsProofs`: `SumOver` adds along an arbitrary order of a finite set, so
  the first part proves that it is a sum: taking any element out of the set first
  gives the same (`SumOverAdd`). The library's induction rules cannot be
  instantiated by the provers; the lemmas take a smallest subset for which the
  claim fails instead (`SmallestSubset`, from the well-foundedness of the strict
  subset order). Then `Cumulate` adds a record to the entry of its key and touches
  no other (`CumulateResult`), and as a record is received once (`RecordsFit`)
  the sums match at every level.
* `PerformanceMetricsProofs`: `PerformanceInv` is inductive. `CountsFit` says that
  WaitGroup and semaphore of each pipeline count its busy workers. `StagesFit` says
  how far the items of a worker can be in each of its states (`StagesAt`); the
  refinement needs it, since `CollectLegacy` starts over with *all* storage groups
  of the array, which is right only because none of them is recorded or dropped when
  the bulk call ends without a record. `EmptyFits` makes the "empty" record due
  exactly when nothing else is found. `CacheFits` says that a cached count that is
  not the array's any more is no younger than the change, whence
  `PerformanceStaleCountExpires`. `WorkerStepResult` summarises the nine steps of a
  worker, so that preservation is shown once for all of them. Assumed: finitely
  many volumes, a positive TTL and default, natural counts.

The invariants that the proofs use (`ElectionInv`, `RecorderInv`, `TopologyInv`,
`MapsInv`, `CapacityInv`, `PerformanceInv`) are those that the runs check; of
`LoopInv` the runs check the two properties that it is there for. Only
model-checked: the liveness properties (TLAPS does not do fairness):
`CampaignElects`, `LeaderCollects`, `CapacityAndTopologyPolled`,
`IntervalsApplied`, `LeavesLoop`, `WaitingReturns`, `TopologyTerminates` and the
two `CollectTerminates`. The violated properties are counterexamples and need no
proof.

## 5. Not modelled

* The storage class finder: the program never calls it. `internal/k8sutils`:
  nothing imports it.
* Log settings, the self-metrics server, TLS files, the Kubernetes client: I/O.
* Floating point: the NaN percentage of the "empty" record, unit conversion.
* 64-bit overflow of a poll frequency in seconds.
* That credentials change while a client authenticated with the old ones is used.

## 6. Plan

Done: the election, the loop, the connections, the three collections with the
abstract specification they implement, the recorder, the volume finder, and the
proofs of section 4.

Left: `Cluster`, the composition of `LeaderElector` with the leadership part of
`Entrypoint`, so that "two pods collect at once" is a property of collections and
not only of `IsLeader`, with the theorem that two electors are never in `renew()`
carried over to it. It would take the place of one of the proof modules, for
instance by joining the two of the capacity metrics.
