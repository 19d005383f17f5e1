-------------------------- MODULE PerformanceMetrics --------------------------
(***************************************************************************)
(* Collections of performance metrics (internal/service/metric/            *)
(* performance_metrics.go), one after the other.  A collection runs two    *)
(* pipelines at once, one for volumes and one for storage groups.  Each    *)
(* has a gatherer that starts a worker per array, bounded by a semaphore   *)
(* of its own, and a pusher with a goroutine per record.  A worker for     *)
(* storage groups chooses between one bulk call and single calls by the    *)
(* number of storage groups of the array, which is cached across           *)
(* collections for sgCountCacheTTL, and falls back to single calls if the  *)
(* bulk call yields nothing.                                               *)
(*                                                                         *)
(* Channels are unbuffered: a send and its receive are one step.  The      *)
(* values of a record are left out.  The single calls name a point in time *)
(* and yield a record per item; the bulk answer may hold several for a     *)
(* storage group, which count as one here: the group is sent with the last *)
(* of them.                                                                *)
(***************************************************************************)
EXTENDS Integers, FiniteSets

CONSTANTS
    Volumes,           \* volumes, by volume ID
    PVLists,           \* sets of them that GetPersistentVolumes may find
    Info,              \* array and storage group of each; the array is
    NoArray,           \* NoArray for a malformed volume handle
    Totals,            \* per array: numbers of storage groups it may have
    SGCountCacheTTL,
    RatioNum, RatioDen,   \* bulkThresholdRatio as a fraction
    QuerySettings,     \* values of POWERMAX_MAX_CONCURRENT_QUERIES: <<n>>, or
                       \* <<>> if it is unset or not a number
    DefaultMaxPowerMaxConnections

Arrays == {Info[v].array : v \in Volumes} \ {NoArray}

ASSUME PerformanceAssumption ==
    /\ IsFiniteSet(Volumes)
    /\ SGCountCacheTTL \in Nat \ {0}
    /\ RatioNum \in Nat /\ RatioDen \in Nat \ {0}
    /\ DefaultMaxPowerMaxConnections \in Nat \ {0}
    /\ \A s \in QuerySettings : s = <<>> \/ s[1] \in Int
    /\ \A a \in Arrays : Totals[a] \subseteq Nat
    /\ PVLists \subseteq SUBSET Volumes

Kinds == {"volume", "group"}

\* An item is something to record: a volume, a storage group or, when there is
\* no volume at all, the "empty" record.
Item(k, v) == <<k, Info[v].array, IF k = "volume" THEN v ELSE Info[v].group>>
Empty(k) == <<k, NoArray, "empty">>
Valid(pvs) == {v \in pvs : Info[v].array # NoArray}
ItemsOf(pvs) == {Item(k, v) : k \in Kinds, v \in Valid(pvs)}
Items == ItemsOf(Volumes) \cup {Empty(k) : k \in Kinds}

VARIABLES
    max,         \* BaseMetrics.MaxPowerMaxConnections
    collect,
    \* per pipeline: the gatherer, its WaitGroup, the slots taken of its semaphore
    gatherer, todo, wg, sem,
    worker,      \* per pipeline and array
    stage,       \* how far each item has come
    pushed,      \* the pipelines whose pusher has closed its channel
    \* storage group counts
    sgCountCache,   \* per array: no entry, or a count and the time since it was read
    total,          \* the array's real number of storage groups
    settled         \* history: the time since it last changed

gatherVars == <<gatherer, todo, wg, sem, worker>>
countVars == <<sgCountCache, total, settled>>
vars == <<max, collect, gatherVars, stage, pushed, countVars>>

Stages == {"none", "found", "answered", "recording", "recorded", "dropped"}
WorkerStates == {"none", "started", "bulk", "bulk sending", "legacy", "sending"}
NoEntry == [count |-> 0, age |-> SGCountCacheTTL]

\* updateMaxConnections: only a positive number replaces the default, so that
\* the other guard, ExportMetrics' refusal to collect with 0, never applies.
MaxConnections(s) ==
    IF s # <<>> /\ s[1] > 0 THEN s[1] ELSE DefaultMaxPowerMaxConnections

Init ==
    /\ \E s \in QuerySettings : max = MaxConnections(s)
    /\ collect = "idle"
    /\ gatherer = [k \in Kinds |-> "done"]
    /\ todo = [k \in Kinds |-> {}]
    /\ wg = [k \in Kinds |-> 0]
    /\ sem = [k \in Kinds |-> 0]
    /\ worker = [k \in Kinds |-> [a \in Arrays |-> "none"]]
    /\ stage = [i \in Items |-> "none"]
    /\ pushed = {}
    /\ sgCountCache = [a \in Arrays |-> NoEntry]
    /\ total \in [Arrays -> UNION {Totals[a] : a \in Arrays}]
    /\ \A a \in Arrays : total[a] \in Totals[a]
    /\ settled = [a \in Arrays |-> SGCountCacheTTL]

-----------------------------------------------------------------------------
(* Between collections *)

\* Time passes; an entry as old as the TTL is as good as none.  A collection
\* reads one array's entry once, so time that passes before it does has the
\* same effect as time before Collect.
Tick ==
    /\ collect # "running"
    /\ sgCountCache' = [a \in Arrays |->
         IF sgCountCache[a].age + 1 >= SGCountCacheTTL THEN NoEntry
         ELSE [count |-> sgCountCache[a].count, age |-> sgCountCache[a].age + 1]]
    /\ settled' = [a \in Arrays |->
         IF settled[a] < SGCountCacheTTL THEN settled[a] + 1 ELSE settled[a]]
    /\ UNCHANGED <<max, collect, gatherVars, stage, pushed, total>>

\* Storage groups are made or deleted on array a.
ChangeTotal(a, n) ==
    /\ collect # "running"
    /\ n \in Totals[a] \ {total[a]}
    /\ total' = [total EXCEPT ![a] = n]
    /\ settled' = [settled EXCEPT ![a] = 0]
    /\ UNCHANGED <<max, collect, gatherVars, stage, pushed, sgCountCache>>

\* Collect: the volumes are reorganised by array and storage group, and the
\* two pipelines are started with channels and WaitGroups of their own.
Collect(pvs) ==
    /\ collect # "running"
    /\ collect' = "running"
    /\ LET array2Sgs == {Info[v].array : v \in Valid(pvs)}
       IN  /\ todo' = [k \in Kinds |-> array2Sgs]
           /\ stage' = [i \in Items |->
                 IF i \in ItemsOf(pvs) \/ (array2Sgs = {} /\ i[2] = NoArray)
                 THEN "found" ELSE "none"]
    /\ gatherer' = [k \in Kinds |-> IF k = "volume" THEN "keys" ELSE "spawn"]
    /\ wg' = [k \in Kinds |-> 0]
    /\ sem' = [k \in Kinds |-> 0]
    /\ worker' = [k \in Kinds |-> [a \in Arrays |-> "none"]]
    /\ pushed' = {}
    /\ UNCHANGED <<max, countVars>>

\* GetPersistentVolumes fails.
CollectFails ==
    /\ collect # "running"
    /\ collect' = "failed"
    /\ stage' = [i \in Items |-> "none"]
    /\ UNCHANGED <<max, gatherVars, pushed, countVars>>

\* What a worker is for, and what of it is neither answered nor given up.
ItemsAt(k, a) == {i \in Items : i[1] = k /\ i[2] = a /\ stage[i] # "none"}
Wanted(k, a) == {i \in ItemsAt(k, a) : stage[i] = "found"}

Dropped(i) == IF stage[i] = "found" THEN "dropped" ELSE stage[i]

-----------------------------------------------------------------------------
(* The gatherers *)

\* The loop over GetArrayPerfKeys fills array2LastAvailTime.  An answer covers
\* every array behind the endpoint that gives it, so any set S of arrays may be
\* covered in the end; the volumes of the others are lost, since their worker
\* will find no time.
GetArrayPerfKeys(S) ==
    /\ gatherer["volume"] = "keys"
    /\ gatherer' = [gatherer EXCEPT !["volume"] = "spawn"]
    /\ stage' = [i \in Items |->
         IF i[1] = "volume" /\ i[2] \in todo["volume"] \ S THEN Dropped(i) ELSE stage[i]]
    /\ UNCHANGED <<max, collect, todo, wg, sem, worker, pushed, countVars>>

\* The plausible error of forgetting wg.Add(1).
MutSpawnNoAdd(k, a) ==
    /\ gatherer[k] = "spawn"
    /\ a \in todo[k]
    /\ sem[k] < max
    /\ todo' = [todo EXCEPT ![k] = @ \ {a}]
    /\ sem' = [sem EXCEPT ![k] = @ + 1]
    /\ worker' = [worker EXCEPT ![k][a] = "started"]
    /\ UNCHANGED <<max, collect, gatherer, wg, stage, pushed, countVars>>

\* The next array: wg.Add(1), a slot of the semaphore, and its worker.
Spawn(k, a) ==
    /\ gatherer[k] = "spawn"
    /\ a \in todo[k]
    /\ sem[k] < max
    /\ todo' = [todo EXCEPT ![k] = @ \ {a}]
    /\ wg' = [wg EXCEPT ![k] = @ + 1]
    /\ sem' = [sem EXCEPT ![k] = @ + 1]
    /\ worker' = [worker EXCEPT ![k][a] = "started"]
    /\ UNCHANGED <<max, collect, gatherer, stage, pushed, countVars>>

\* The loop is over; with exported unset the "empty" record is sent first.
EndOfArrays(k) ==
    /\ gatherer[k] = "spawn"
    /\ todo[k] = {}
    /\ gatherer' = [gatherer EXCEPT ![k] = "wait"]
    /\ stage' = IF \A a \in Arrays : ItemsAt(k, a) = {}
                THEN [stage EXCEPT ![Empty(k)] = "recording"] ELSE stage
    /\ UNCHANGED <<max, collect, todo, wg, sem, worker, pushed, countVars>>

\* The plausible error of closing the channel without wg.Wait().
MutCloseRecordsEarly(k) ==
    /\ gatherer[k] = "wait"
    /\ gatherer' = [gatherer EXCEPT ![k] = "done"]
    /\ UNCHANGED <<max, collect, todo, wg, sem, worker, stage, pushed, countVars>>

\* wg.Wait() returns: the record channel and the semaphore are closed.
CloseRecords(k) ==
    /\ gatherer[k] = "wait"
    /\ wg[k] = 0
    /\ gatherer' = [gatherer EXCEPT ![k] = "done"]
    /\ UNCHANGED <<max, collect, todo, wg, sem, worker, stage,
                   pushed, countVars>>

-----------------------------------------------------------------------------
(* The workers *)

\* The stages after the last answer a worker gets: what has none is given up.
Answered(k, a, S) ==
    [i \in Items |-> IF i \in S THEN "answered"
                     ELSE IF i \in ItemsAt(k, a) THEN Dropped(i)
                     ELSE stage[i]]

\* The deferred function: wg.Done() and <-sem, which does not block, since the
\* slot is the worker's own; as one step the slot is free a moment earlier.
Leave(k, a) ==
    /\ worker' = [worker EXCEPT ![k][a] = "none"]
    /\ wg' = [wg EXCEPT ![k] = @ - 1]
    /\ sem' = [sem EXCEPT ![k] = @ - 1]

\* The plausible error of a return that does not give the slot back.
MutGiveUpKeepsSlot(k, a) ==
    /\ worker[k][a] = "started"
    /\ worker' = [worker EXCEPT ![k][a] = "none"]
    /\ wg' = [wg EXCEPT ![k] = @ - 1]
    /\ stage' = Answered(k, a, {})
    /\ UNCHANGED <<max, collect, gatherer, todo, sem, pushed, countVars>>

\* A worker without a client, a time or an answer gives its items up.
GiveUp(k, a) ==
    /\ worker[k][a] = "started"
    /\ Leave(k, a)
    /\ stage' = Answered(k, a, {})
    /\ UNCHANGED <<max, collect, gatherer, todo, pushed, countVars>>

\* GetVolumesMetrics: of the results, those of known volumes in their storage
\* group are used.
GetVolumesMetrics(a, S) ==
    /\ worker["volume"][a] = "started"
    /\ S # {}
    /\ S \subseteq Wanted("volume", a)
    /\ stage' = Answered("volume", a, S)
    /\ worker' = [worker EXCEPT !["volume"][a] = "sending"]
    /\ UNCHANGED <<max, collect, gatherer, todo, wg, sem, pushed, countVars>>

UseBulk(requested, n) ==
    n > 0 /\ requested > 0 /\ requested * RatioDen > n * RatioNum

\* The strategy for array a with n storage groups in all.
Strategy(a, n) ==
    IF UseBulk(Cardinality(ItemsAt("group", a)), n) THEN "bulk" ELSE "legacy"

\* getTotalSGCount answers from the cache while the entry is fresh ...
CountFromCache(a) ==
    /\ worker["group"][a] = "started"
    /\ sgCountCache[a].age < SGCountCacheTTL
    /\ worker' = [worker EXCEPT !["group"][a] = Strategy(a, sgCountCache[a].count)]
    /\ UNCHANGED <<max, collect, gatherer, todo, wg, sem, stage,
                   pushed, countVars>>

\* The plausible error of keeping an entry for longer than the TTL.
MutCountKeptLonger(a) ==
    /\ worker["group"][a] = "started"
    /\ sgCountCache[a].age >= SGCountCacheTTL
    /\ sgCountCache' = [sgCountCache EXCEPT ![a] = [count |-> total[a], age |-> -1]]
    /\ worker' = [worker EXCEPT !["group"][a] = Strategy(a, total[a])]
    /\ UNCHANGED <<max, collect, gatherer, todo, wg, sem, stage, pushed, total, settled>>

\* ... else it asks the array and stores the answer.  The call and the time
\* stamp taken after it are one step: ages count from the answer ...
CountFromArray(a) ==
    /\ worker["group"][a] = "started"
    /\ sgCountCache[a].age >= SGCountCacheTTL
    /\ sgCountCache' = [sgCountCache EXCEPT ![a] = [count |-> total[a], age |-> 0]]
    /\ worker' = [worker EXCEPT !["group"][a] = Strategy(a, total[a])]
    /\ UNCHANGED <<max, collect, gatherer, todo, wg, sem, stage,
                   pushed, total, settled>>

\* ... and without an answer the single calls are made.
CountFails(a) ==
    /\ worker["group"][a] = "started"
    /\ sgCountCache[a].age >= SGCountCacheTTL
    /\ worker' = [worker EXCEPT !["group"][a] = "legacy"]
    /\ UNCHANGED <<max, collect, gatherer, todo, wg, sem, stage,
                   pushed, countVars>>

\* collectSGMetricsBulk: S are the monitored storage groups in the answer, none
\* if there is no answer.
CollectBulk(a, S) ==
    /\ worker["group"][a] = "bulk"
    /\ S \subseteq Wanted("group", a)
    /\ stage' = [i \in Items |-> IF i \in S THEN "answered" ELSE stage[i]]
    /\ worker' = [worker EXCEPT !["group"][a] = "bulk sending"]
    /\ UNCHANGED <<max, collect, gatherer, todo, wg, sem, pushed, countVars>>

Unsent(k, a) == {i \in ItemsAt(k, a) : stage[i] = "answered"}

\* The plausible error of falling back whenever the bulk answer lacks a group.
MutBulkFallsBack(a) ==
    /\ worker["group"][a] = "bulk sending"
    /\ Unsent("group", a) = {}
    /\ IF Wanted("group", a) = {}
       THEN Leave("group", a)
       ELSE worker' = [worker EXCEPT !["group"][a] = "legacy"] /\ UNCHANGED <<wg, sem>>
    /\ UNCHANGED <<max, collect, gatherer, todo, stage, pushed, countVars>>

\* All records of the bulk answer are sent: with metricsEmitted at zero the
\* single calls follow, else the worker is done.
BulkEnds(a) ==
    /\ worker["group"][a] = "bulk sending"
    /\ Unsent("group", a) = {}
    /\ IF \E i \in ItemsAt("group", a) : stage[i] # "found"
       THEN Leave("group", a) /\ stage' = Answered("group", a, {})
       ELSE /\ worker' = [worker EXCEPT !["group"][a] = "legacy"]
            /\ UNCHANGED <<wg, sem, stage>>
    /\ UNCHANGED <<max, collect, gatherer, todo, pushed, countVars>>

\* collectSGMetricsLegacy: a time and then the metrics of each storage group;
\* S are those for which both calls succeed.
CollectLegacy(a, S) ==
    /\ worker["group"][a] = "legacy"
    /\ S \subseteq ItemsAt("group", a)
    /\ stage' = Answered("group", a, S)
    /\ worker' = [worker EXCEPT !["group"][a] = "sending"]
    /\ UNCHANGED <<max, collect, gatherer, todo, wg, sem, pushed, countVars>>

\* A worker sends a record; the pusher starts the goroutine that records it.
SendRecord(i) ==
    /\ stage[i] = "answered"
    /\ stage' = [stage EXCEPT ![i] = "recording"]
    /\ UNCHANGED <<max, collect, gatherVars, pushed, countVars>>

WorkerDone(k, a) ==
    /\ worker[k][a] = "sending"
    /\ Unsent(k, a) = {}
    /\ Leave(k, a)
    /\ UNCHANGED <<max, collect, gatherer, todo, stage,
                   pushed, countVars>>

-----------------------------------------------------------------------------
(* The pushers *)

Recording(k) == {i \in Items : i[1] = k /\ stage[i] = "recording"}

\* RecordVolPerfMetrics, RecordStorageGroupPerfMetrics: after a success the
\* goroutine of Collect takes the name, an error is logged.
RecordReturns(i, ok) ==
    /\ stage[i] = "recording"
    /\ stage' = [stage EXCEPT ![i] = IF ok THEN "recorded" ELSE "dropped"]
    /\ UNCHANGED <<max, collect, gatherVars, pushed, countVars>>

\* No more records, and wg.Wait() has returned: the name channel is closed.
CloseNames(k) ==
    /\ collect = "running"
    /\ gatherer[k] = "done"
    /\ Recording(k) = {}
    /\ k \notin pushed
    /\ pushed' = pushed \cup {k}
    /\ UNCHANGED <<max, collect, gatherVars, stage, countVars>>

\* wg.Wait() of Collect: both pipelines are drained.
CollectReturns ==
    /\ collect = "running"
    /\ pushed = Kinds
    /\ collect' = "returned"
    /\ UNCHANGED <<max, gatherVars, stage, pushed, countVars>>

-----------------------------------------------------------------------------
CollectorStep ==
    \/ CollectReturns
    \/ \E S \in SUBSET todo["volume"] : GetArrayPerfKeys(S)
    \/ \E k \in Kinds :
        \/ EndOfArrays(k)
        \/ CloseRecords(k)
        \/ CloseNames(k)
        \/ \E a \in Arrays : Spawn(k, a) \/ GiveUp(k, a) \/ WorkerDone(k, a)
    \/ \E a \in Arrays :
        \/ \E S \in SUBSET Wanted("volume", a) : GetVolumesMetrics(a, S)
        \/ CountFromCache(a)
        \/ CountFromArray(a)
        \/ CountFails(a)
        \/ \E S \in SUBSET ItemsAt("group", a) : CollectBulk(a, S) \/ CollectLegacy(a, S)
        \/ BulkEnds(a)
    \/ \E i \in Items : SendRecord(i) \/ \E ok \in BOOLEAN : RecordReturns(i, ok)

Next ==
    \/ Tick
    \/ \E a \in Arrays : \E n \in Totals[a] : ChangeTotal(a, n)
    \/ \E pvs \in PVLists : Collect(pvs)
    \/ CollectFails
    \/ CollectorStep

Spec == Init /\ [][Next]_vars

\* Goroutines go on; calls to arrays and to the recorder return.
FairSpec == Spec /\ WF_vars(CollectorStep)

-----------------------------------------------------------------------------
TypeOK ==
    /\ max \in Nat \ {0}
    /\ collect \in {"idle", "running", "returned", "failed"}
    /\ gatherer \in [Kinds -> {"keys", "spawn", "wait", "done"}]
    /\ todo \in [Kinds -> SUBSET Arrays]
    /\ wg \in [Kinds -> Nat]
    /\ sem \in [Kinds -> Nat]
    /\ worker \in [Kinds -> [Arrays -> WorkerStates]]
    /\ stage \in [Items -> Stages]
    /\ pushed \subseteq Kinds
    /\ sgCountCache \in [Arrays -> [count : Nat, age : 0 .. SGCountCacheTTL]]
    /\ total \in [Arrays -> Nat] /\ \A a \in Arrays : total[a] \in Totals[a]
    /\ settled \in [Arrays -> 0 .. SGCountCacheTTL]

Working == WorkerStates \ {"none"}
Busy(k) == {a \in Arrays : worker[k][a] \in Working}

(***************************************************************************)
(* No channel is closed while a goroutine may still send on it: a gatherer *)
(* is done only after its workers, a pusher only after its records.        *)
(***************************************************************************)
NoSendOnClosed ==
    collect = "running" =>
        /\ \A k \in Kinds : gatherer[k] = "done" =>
              \A a \in Arrays : worker[k][a] \notin Working /\ Unsent(k, a) = {}
        /\ \A k \in pushed : gatherer[k] = "done" /\ Recording(k) = {}

\* The WaitGroup and the semaphore of a pipeline count its workers, and a
\* gatherer is done only without any.
CountsFit ==
    \A k \in Kinds :
        /\ wg[k] = Cardinality(Busy(k)) /\ sem[k] = wg[k] /\ sem[k] <= max
        /\ Busy(k) \cap todo[k] = {}
        /\ gatherer[k] \in {"wait", "done"} => todo[k] = {}
        /\ gatherer[k] \in {"keys", "done"} => Busy(k) = {}
        /\ collect # "running" => gatherer[k] = "done"

\* What may have become of the items of kind k whose worker is in state s.
StagesAt(k, s) ==
    CASE s \in {"started", "bulk", "legacy"} ->
            IF k = "volume" THEN {"none", "found", "dropped"} ELSE {"none", "found"}
      [] s = "bulk sending" -> Stages
      [] s = "sending" -> Stages \ {"found"}
      [] s = "none" -> Stages \ {"found", "answered"}

\* Every item is as far as its worker; an array whose turn has not come is like
\* one whose worker has just started.
StagesFit ==
    \A i \in Items :
        /\ i[2] \in Arrays =>
              stage[i] \in StagesAt(i[1], IF i[2] \in todo[i[1]] THEN "started"
                                                               ELSE worker[i[1]][i[2]])
        /\ collect # "running" => stage[i] \notin {"found", "answered", "recording"}

\* The "empty" record is found if nothing else is, and sent after the loop.
EmptyFits ==
    \A k \in Kinds :
        IF gatherer[k] \in {"keys", "spawn"}
        THEN stage[Empty(k)] = IF \A a \in Arrays : ItemsAt(k, a) = {} THEN "found" ELSE "none"
        ELSE stage[Empty(k)] \notin {"found", "answered"}

\* A count that is not the array's any more is no younger than the change.
CacheFits ==
    \A a \in Arrays :
        /\ sgCountCache[a].age < SGCountCacheTTL
        /\ sgCountCache[a].count # total[a]
        => settled[a] <= sgCountCache[a].age

(***************************************************************************)
(* The goroutines of a performance collection keep step: WaitGroups and    *)
(* semaphores count the workers, every item is as far as its worker, no    *)
(* goroutine sends on a closed channel, and a cached count is wrong for    *)
(* less than its TTL.  The invariant is inductive.                         *)
(***************************************************************************)
PerformanceInv ==
    TypeOK /\ CountsFit /\ StagesFit /\ EmptyFits /\ CacheFits /\ NoSendOnClosed

Abstract == INSTANCE Collection WITH
    phase    <- IF collect = "running" THEN "collecting" ELSE collect,
    pending  <- {i \in Items : stage[i] \in {"found", "answered", "recording"}},
    recorded <- {i \in Items : stage[i] = "recorded"}

(***************************************************************************)
(* A performance collection keeps the promise of Collection, whatever the  *)
(* cached counts are: every volume and storage group is settled exactly    *)
(* once, also when a bulk answer is partial or empty and single calls      *)
(* follow, and Collect returns after both pipelines.                       *)
(***************************************************************************)
PerformanceImplementsCollection == Abstract!Spec

(***************************************************************************)
(* Once the number of storage groups of an array has not changed for       *)
(* sgCountCacheTTL, counted from the array's answer, the bulk call is made *)
(* only if that number justifies it (getTotalSGCount, useBulk).            *)
(***************************************************************************)
StaleCountExpires ==
    [][\A a \in Arrays :
         /\ worker["group"][a] = "started"
         /\ worker'["group"][a] = "bulk"
         /\ settled[a] >= SGCountCacheTTL
         => UseBulk(Cardinality(ItemsAt("group", a)), total[a])]_vars

(***************************************************************************)
(* Every performance collection ends, whichever calls fail, also with      *)
(* fewer slots than arrays.                                                *)
(***************************************************************************)
CollectTerminates == collect = "running" ~> collect = "returned"
=============================================================================
