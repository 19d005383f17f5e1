--------------------------- MODULE CapacityMetrics ---------------------------
(***************************************************************************)
(* One collection of capacity metrics (internal/service/metric/            *)
(* capacity_metrics.go): Collect reads the persistent volumes;             *)
(* gatherCapacityMetrics queries the arrays in workers bounded by a        *)
(* semaphore and sends one record per volume; pushCapacityMetrics adds the *)
(* records up at five levels and, once the channel is closed, records each *)
(* sum in a goroutine; Collect drains the names that these send.           *)
(*                                                                         *)
(* Channels are unbuffered: a send and its receive are one step.  The      *)
(* recording goroutines differ only in the sum they hold, so they are      *)
(* counted, not named.                                                     *)
(***************************************************************************)
EXTENDS Naturals, FiniteSets, FiniteSetsExt

CONSTANTS
    Volumes,                 \* persistent volumes
    Info,                    \* array, group, srp, class, total and used of each;
                             \* array is NoArray for a malformed volume handle
    NoArray,
    MaxPowerMaxConnections   \* capacity of the semaphore

Arrays == {Info[v].array : v \in Volumes} \ {NoArray}

ASSUME MaxAssumption == MaxPowerMaxConnections \in Nat \ {0}

ASSUME VolumesAssumption ==
    /\ IsFiniteSet(Volumes)
    /\ \A v \in Volumes : Info[v].total \in Nat /\ Info[v].used \in Nat

Levels == {"volume", "group", "srp", "array", "class"}

\* The record that stands for "no volumes", and its empty labels.
Empty == "empty"

VARIABLES
    \* the goroutine of gatherCapacityMetrics
    gatherer, todo, current, exported,
    wg, sem,          \* its WaitGroup and the slots taken of its semaphore
    \* its workers, one per array
    worker, records,
    chClosed,         \* the record channel is closed
    \* the goroutine of pushCapacityMetrics
    pusher, received, sums,
    unspawned, recording, sending,  \* its recording goroutines, by state
    namesClosed,      \* the name channel is closed
    \* Collect
    collect

gatherVars == <<gatherer, todo, current, exported, wg, sem, worker, records, chClosed>>
pushVars == <<pusher, received, sums, unspawned, recording, sending, namesClosed>>
vars == <<gatherVars, pushVars, collect>>

WorkerStates == {"none", "started", "sending", "leaving", "gone"}

TypeOK ==
    /\ gatherer \in {"idle", "spawn", "acquire", "wait", "done"}
    /\ todo \subseteq Arrays
    /\ current \in Arrays \cup {NoArray}
    /\ exported \in BOOLEAN
    /\ wg \in 0 .. Cardinality(Arrays)
    /\ sem \in 0 .. MaxPowerMaxConnections
    /\ worker \in [Arrays -> WorkerStates]
    /\ records \in [Arrays -> SUBSET Volumes]
    /\ chClosed \in BOOLEAN
    /\ pusher \in {"range", "spawn", "done"}
    /\ received \subseteq Volumes \cup {Empty}
    /\ namesClosed \in BOOLEAN
    /\ collect \in {"find", "draining", "returned", "failed"}

NoSums == [l \in Levels |-> [k \in {} |-> Empty]]

Init ==
    /\ gatherer = "idle"
    /\ todo = {}
    /\ current = NoArray
    /\ exported = FALSE
    /\ wg = 0
    /\ sem = 0
    /\ worker = [a \in Arrays |-> "none"]
    /\ records = [a \in Arrays |-> {}]
    /\ chClosed = FALSE
    /\ pusher = "range"
    /\ received = {}
    /\ sums = NoSums
    /\ unspawned = 0
    /\ recording = 0
    /\ sending = 0
    /\ namesClosed = FALSE
    /\ collect = "find"

-----------------------------------------------------------------------------
\* Collect: GetPersistentVolumes finds some of the volumes, or fails.  Volumes
\* are grouped by array; a malformed handle is left out.
Collect(pvs) ==
    /\ collect = "find"
    /\ collect' = "draining"
    /\ gatherer' = "spawn"
    /\ todo' = {Info[v].array : v \in pvs} \ {NoArray}
    /\ records' = [a \in Arrays |-> {v \in pvs : Info[v].array = a}]
    /\ UNCHANGED <<current, exported, wg, sem, worker, chClosed, pushVars>>

CollectFails ==
    /\ collect = "find"
    /\ collect' = "failed"
    /\ UNCHANGED <<gatherVars, pushVars>>

\* The plausible error of a worker that the WaitGroup does not count.
MutUncounted(a) ==
    /\ gatherer = "spawn"
    /\ a \in todo
    /\ todo' = todo \ {a}
    /\ exported' = TRUE
    /\ current' = a
    /\ gatherer' = "acquire"
    /\ UNCHANGED <<wg, sem, worker, records, chClosed, pushVars, collect>>

\* gatherCapacityMetrics, the loop over the arrays: wg.Add(1) ...
NextArray(a) ==
    /\ gatherer = "spawn"
    /\ a \in todo
    /\ todo' = todo \ {a}
    /\ exported' = TRUE
    /\ wg' = wg + 1
    /\ current' = a
    /\ gatherer' = "acquire"
    /\ UNCHANGED <<sem, worker, records, chClosed, pushVars, collect>>

\* The plausible error of a semaphore that is one slot too large.
MutAcquireOneMore ==
    /\ gatherer = "acquire"
    /\ sem <= MaxPowerMaxConnections
    /\ sem' = sem + 1
    /\ worker' = [worker EXCEPT ![current] = "started"]
    /\ gatherer' = "spawn"
    /\ UNCHANGED <<todo, current, exported, wg, records, chClosed, pushVars, collect>>

\* ... then sem <- struct{}{}, which waits for a slot, then the worker.
Acquire ==
    /\ gatherer = "acquire"
    /\ sem < MaxPowerMaxConnections
    /\ sem' = sem + 1
    /\ worker' = [worker EXCEPT ![current] = "started"]
    /\ gatherer' = "spawn"
    /\ UNCHANGED <<todo, current, exported, wg, records, chClosed, pushVars, collect>>

\* After the loop: nothing left to spawn.
EndOfArrays ==
    /\ gatherer = "spawn"
    /\ todo = {}
    /\ exported
    /\ gatherer' = "wait"
    /\ UNCHANGED <<todo, current, exported, wg, sem, worker, records, chClosed,
                   pushVars, collect>>

\* The plausible error of closing the record channel without wg.Wait().
MutCloseRecordsEarly ==
    /\ gatherer = "wait"
    /\ chClosed' = TRUE
    /\ gatherer' = "done"
    /\ UNCHANGED <<todo, current, exported, wg, sem, worker, records, pushVars, collect>>

\* wg.Wait() returns: the record channel and the semaphore are closed.
CloseRecords ==
    /\ gatherer = "wait"
    /\ wg = 0
    /\ chClosed' = TRUE
    /\ gatherer' = "done"
    /\ UNCHANGED <<todo, current, exported, wg, sem, worker, records, pushVars, collect>>

\* The plausible error of returning without a client before the deferred exit.
MutNoClientForgets(a) ==
    /\ worker[a] = "started"
    /\ worker' = [worker EXCEPT ![a] = "gone"]
    /\ UNCHANGED <<gatherer, todo, current, exported, wg, sem, records, chClosed,
                   pushVars, collect>>

\* A worker that finds no active client for its array.
NoClient(a) ==
    /\ worker[a] = "started"
    /\ wg' = wg - 1
    /\ worker' = [worker EXCEPT ![a] = "leaving"]
    /\ UNCHANGED <<gatherer, todo, current, exported, sem, records, chClosed,
                   pushVars, collect>>

\* collectArrayCapacityMetrics: the bulk call answers for some of the volumes,
\* or fails and each volume is asked for on its own, which may fail too.
\* Either way S are the volumes there is a record for.
Query(a, S) ==
    /\ worker[a] = "started"
    /\ S \subseteq records[a]
    /\ records' = [records EXCEPT ![a] = S]
    /\ worker' = [worker EXCEPT ![a] = "sending"]
    /\ UNCHANGED <<gatherer, todo, current, exported, wg, sem, chClosed, pushVars, collect>>

\* All sent: the deferred function, wg.Done() first ...
WorkerDone(a) ==
    /\ worker[a] = "sending"
    /\ records[a] = {}
    /\ wg' = wg - 1
    /\ worker' = [worker EXCEPT ![a] = "leaving"]
    /\ UNCHANGED <<gatherer, todo, current, exported, sem, records, chClosed,
                   pushVars, collect>>

\* ... then <-sem, which succeeds on a closed semaphore too.
Release(a) ==
    /\ worker[a] = "leaving"
    /\ sem' = sem - 1
    /\ worker' = [worker EXCEPT ![a] = "gone"]
    /\ UNCHANGED <<gatherer, todo, current, exported, wg, records, chClosed,
                   pushVars, collect>>

-----------------------------------------------------------------------------
\* The key under which record r is added up at level l.
Key(l, r) ==
    IF r = Empty THEN Empty
    ELSE LET i == Info[r]
         IN  CASE l = "volume" -> <<i.array, r>>
               [] l = "group"  -> <<i.array, i.group>>
               [] l = "srp"    -> <<i.array, i.srp>>
               [] l = "array"  -> i.array
               [] l = "class"  -> i.class

\* What is added up of record r, with the array it is labelled with.
Metric(r) ==
    IF r = Empty THEN [array |-> NoArray, total |-> 0, used |-> 0]
    ELSE [array |-> Info[r].array, total |-> Info[r].total, used |-> Info[r].used]

\* The plausible error of keeping the last record instead of adding it.
MutCumulateReplaces(m, k, metric) ==
    [j \in DOMAIN m \cup {k} |-> IF j = k THEN metric ELSE m[j]]

\* cumulate: the first record of a key is stored, with its labels; the total
\* and the used capacity of later ones are added to it.
Cumulate(m, k, metric) ==
    IF k \in DOMAIN m
    THEN [m EXCEPT ![k].total = @ + metric.total, ![k].used = @ + metric.used]
    ELSE [j \in DOMAIN m \cup {k} |-> IF j = k THEN metric ELSE m[j]]

\* The receiving side of pushCapacityMetrics.
Receive(r) ==
    /\ pusher = "range"
    /\ received' = received \cup {r}
    /\ sums' = [l \in Levels |-> Cumulate(sums[l], Key(l, r), Metric(r))]

\* A worker sends the record of v.
SendRecord(a, v) ==
    /\ worker[a] = "sending"
    /\ v \in records[a]
    /\ records' = [records EXCEPT ![a] = @ \ {v}]
    /\ Receive(v)
    /\ UNCHANGED <<gatherer, todo, current, exported, wg, sem, worker, chClosed,
                   pusher, unspawned, recording, sending, namesClosed, collect>>

\* No array was worked on: the "empty" record is sent.
SendEmpty ==
    /\ gatherer = "spawn"
    /\ todo = {}
    /\ ~exported
    /\ Receive(Empty)
    /\ gatherer' = "wait"
    /\ UNCHANGED <<todo, current, exported, wg, sem, worker, records, chClosed,
                   pusher, unspawned, recording, sending, namesClosed, collect>>

NumSums == MapThenSumSet(LAMBDA l : Cardinality(DOMAIN sums[l]), Levels)

\* The record channel is closed: every sum gets a recording goroutine.
EndOfRecords ==
    /\ pusher = "range"
    /\ chClosed
    /\ pusher' = "spawn"
    /\ unspawned' = NumSums
    /\ UNCHANGED <<gatherVars, received, sums, recording, sending,
                   namesClosed, collect>>

SpawnRecorder ==
    /\ pusher = "spawn"
    /\ unspawned > 0
    /\ unspawned' = unspawned - 1
    /\ recording' = recording + 1
    /\ UNCHANGED <<gatherVars, pusher, received, sums, sending,
                   namesClosed, collect>>

\* RecordNumericMetrics returns: an error ends the goroutine ...
RecordFails ==
    /\ recording > 0
    /\ recording' = recording - 1
    /\ UNCHANGED <<gatherVars, pusher, received, sums, unspawned, sending,
                   namesClosed, collect>>

\* ... a success is sent to Collect.
RecordSucceeds ==
    /\ recording > 0
    /\ recording' = recording - 1
    /\ sending' = sending + 1
    /\ UNCHANGED <<gatherVars, pusher, received, sums, unspawned, namesClosed, collect>>

SendName ==
    /\ sending > 0
    /\ collect = "draining"
    /\ sending' = sending - 1
    /\ UNCHANGED <<gatherVars, pusher, received, sums, unspawned, recording,
                   namesClosed, collect>>

\* The plausible error of closing without waiting for the senders.
MutCloseEarly ==
    /\ pusher = "spawn"
    /\ unspawned = 0 /\ recording = 0
    /\ pusher' = "done"
    /\ namesClosed' = TRUE
    /\ UNCHANGED <<gatherVars, received, sums, unspawned, recording, sending,
                   collect>>

\* wg.Wait() of pushCapacityMetrics returns: the name channel is closed.
CloseNames ==
    /\ pusher = "spawn"
    /\ unspawned = 0 /\ recording = 0 /\ sending = 0
    /\ pusher' = "done"
    /\ namesClosed' = TRUE
    /\ UNCHANGED <<gatherVars, received, sums, unspawned, recording, sending,
                   collect>>

CollectReturns ==
    /\ collect = "draining"
    /\ namesClosed
    /\ collect' = "returned"
    /\ UNCHANGED <<gatherVars, pushVars>>

-----------------------------------------------------------------------------
Next ==
    \/ \E pvs \in SUBSET Volumes : Collect(pvs)
    \/ CollectFails
    \/ \E a \in Arrays :
        \/ NextArray(a)
        \/ NoClient(a)
        \/ \E S \in SUBSET records[a] : Query(a, S)
        \/ \E v \in records[a] : SendRecord(a, v)
        \/ WorkerDone(a)
        \/ Release(a)
    \/ Acquire
    \/ SendEmpty
    \/ EndOfArrays
    \/ CloseRecords
    \/ EndOfRecords
    \/ SpawnRecorder
    \/ RecordFails
    \/ RecordSucceeds
    \/ SendName
    \/ CloseNames
    \/ CollectReturns

Spec == Init /\ [][Next]_vars

\* Every goroutine that can go on does; calls to arrays and to the recorder
\* return (gopowermax and the periodic reader are outside this module).
FairSpec == Spec /\ WF_vars(Next)

-----------------------------------------------------------------------------
(***************************************************************************)
(* A channel is closed only when nobody will send on it any more: a send   *)
(* on a closed channel panics.  Covers the record channel and semaphore of *)
(* gatherCapacityMetrics and the name channel of pushCapacityMetrics.      *)
(***************************************************************************)
NoSendOnClosed ==
    /\ chClosed => /\ gatherer = "done"
                   /\ \A a \in Arrays : worker[a] \notin {"started", "sending"}
    /\ namesClosed => unspawned = 0 /\ recording = 0 /\ sending = 0

(***************************************************************************)
(* At most MaxPowerMaxConnections workers talk to arrays at a time, and a  *)
(* slot is neither leaked nor given back twice.                            *)
(***************************************************************************)
SlotsMatchWorkers ==
    /\ sem = Cardinality({a \in Arrays : worker[a] \in {"started", "sending", "leaving"}})
    /\ sem <= MaxPowerMaxConnections

\* The workers that gatherCapacityMetrics waits for: those with work to do, and
\* the one it has counted and not started yet.
Counted ==
    {a \in Arrays : worker[a] \in {"started", "sending"}
                       \/ (gatherer = "acquire" /\ a = current)}

\* Where the goroutines can be together.
PhasesFit ==
    /\ chClosed <=> gatherer = "done"
    /\ namesClosed <=> pusher = "done"
    /\ pusher # "range" => chClosed
    /\ collect \in {"find", "failed"} <=> gatherer = "idle"
    /\ collect = "returned" => namesClosed
    /\ gatherer \in {"wait", "done"} => todo = {}
    /\ gatherer = "idle" => todo = {} /\ ~exported /\ \A a \in Arrays : records[a] = {}
    /\ gatherer = "acquire" => /\ current \in Arrays \ todo
                               /\ worker[current] = "none"
    /\ \A a \in todo : worker[a] = "none"

\* exported is set before the first worker, and tells the "empty" record apart.
ExportedFits ==
    /\ gatherer = "acquire" => exported
    /\ ~exported => \A a \in Arrays : worker[a] = "none"
    /\ ~exported /\ gatherer \in {"idle", "spawn"} => received = {}

\* Where a volume is: with the worker of its array until its record is received.
RecordsFit ==
    \A a \in Arrays :
        /\ \A v \in records[a] : Info[v].array = a /\ v \notin received
        /\ worker[a] = "none" /\ a \notin todo /\ ~(gatherer = "acquire" /\ a = current)
              => records[a] = {}

(***************************************************************************)
(* The goroutines of a capacity collection keep step: the WaitGroup counts *)
(* exactly the workers with work to do, the semaphore those that hold a    *)
(* slot, and a volume is held by one worker or received, never both (the   *)
(* inductive invariant of gatherCapacityMetrics and pushCapacityMetrics).  *)
(***************************************************************************)
CapacityInv ==
    /\ TypeOK
    /\ PhasesFit
    /\ ExportedFits
    /\ RecordsFit
    /\ wg = Cardinality(Counted)
    /\ NoSendOnClosed
    /\ SlotsMatchWorkers

\* The sum of what g gives the records in S.
SumOver(g, S) == MapThenSumSet(LAMBDA r : g[r], S)

TotalOf == [r \in Volumes \cup {Empty} |-> Metric(r).total]
UsedOf == [r \in Volumes \cup {Empty} |-> Metric(r).used]

(***************************************************************************)
(* At each of the five levels every received record is counted once, under *)
(* its own key, in whatever order the workers' records arrive (cumulate),  *)
(* and the sum carries the array label of one of its own records.          *)
(***************************************************************************)
SumsMatchRecords ==
    \A l \in Levels :
        /\ DOMAIN sums[l] = {Key(l, r) : r \in received}
        /\ \A k \in DOMAIN sums[l] :
            LET own == {r \in received : Key(l, r) = k}
            IN  /\ sums[l][k].total = SumOver(TotalOf, own)
                /\ sums[l][k].used = SumOver(UsedOf, own)
                /\ sums[l][k].array \in {Metric(r).array : r \in own}

(***************************************************************************)
(* Collect comes back, whichever arrays have no client, whichever queries  *)
(* and recordings fail: no goroutine waits for one that is gone.           *)
(***************************************************************************)
CollectTerminates == <>(collect \in {"returned", "failed"})

\* What Collect found and a worker has still to ask for or to send; without any
\* array, the "empty" record.
Unsent ==
    {v \in Volumes : \E a \in Arrays : v \in records[a] /\ worker[a] \notin {"leaving", "gone"}}
        \cup (IF gatherer = "spawn" /\ todo = {} /\ ~exported THEN {Empty} ELSE {})

Abstract == INSTANCE Collection WITH
    Items    <- Volumes \cup {Empty},
    phase    <- CASE collect = "find" -> "idle"
                  [] collect = "draining" -> "collecting"
                  [] OTHER -> collect,
    pending  <- Unsent \cup (IF namesClosed THEN {} ELSE received),
    recorded <- IF namesClosed THEN received ELSE {}

(***************************************************************************)
(* A capacity collection keeps the promise of Collection: a volume is      *)
(* dropped by its worker or settled with the sums it is part of, all of    *)
(* which have been handed to the recorder when the name channel is closed, *)
(* and Collect returns after that.                                         *)
(***************************************************************************)
CapacityImplementsCollection == Abstract!Spec

(***************************************************************************)
(* "If no volumes metrics were exported, we need to export an "empty"      *)
(* metric [...] so that stale entries are removed"                         *)
(* (capacity_metrics.go:120): when the records end, there was at least one.*)
(***************************************************************************)
StaleEntriesRemoved == pusher # "range" => received # {}
=============================================================================
