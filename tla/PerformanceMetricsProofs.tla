---------------------- MODULE PerformanceMetricsProofs ----------------------
(***************************************************************************)
(* Performance collections for any finite set of volumes, any storage      *)
(* groups and counts, any TTL and any setting of the semaphores.           *)
(***************************************************************************)
EXTENDS PerformanceMetrics, FiniteSetTheorems, TLAPS

\* There are finitely many arrays, as there are finitely many volumes.
LEMMA ArraysFinite == IsFiniteSet(Arrays)
<1> DEFINE images == {Info[v].array : v \in Volumes}
           f == [v \in Volumes |-> Info[v].array]
<1>1. f \in Surjection(Volumes, images)
  BY DEF Surjection
<1>2. IsFiniteSet(images)
  BY <1>1, FS_Surjection, PerformanceAssumption
<1> QED
  BY <1>2, FS_Subset DEF Arrays

\* A set of busy workers gains or loses one.
LEMMA BusySets ==
    ASSUME NEW S \in SUBSET Arrays
    PROVE  /\ IsFiniteSet(S) /\ Cardinality(S) \in Nat
           /\ Cardinality(S) = 0 <=> S = {}
           /\ \A a : a \notin S => Cardinality(S \cup {a}) = Cardinality(S) + 1
           /\ \A a \in S : Cardinality(S \ {a}) = Cardinality(S) - 1
<1>1. IsFiniteSet(S) /\ Cardinality(S) \in Nat
  BY ArraysFinite, FS_Subset, FS_CardinalityType
<1>2. Cardinality(S) = 0 <=> S = {}
  BY <1>1, FS_EmptySet
<1>3. \A a : a \notin S => Cardinality(S \cup {a}) = Cardinality(S) + 1
  BY <1>1, FS_AddElement
<1>4. \A a \in S : Cardinality(S \ {a}) = Cardinality(S) - 1
  BY <1>1, FS_RemoveElement
<1> QED
  BY <1>1, <1>2, <1>3, <1>4

\* An item belongs to a pipeline and to an array, or is an "empty" record.
LEMMA ItemType ==
    /\ NoArray \notin Arrays
    /\ \A k \in Kinds : Empty(k) \in Items /\ Empty(k)[1] = k /\ Empty(k)[2] = NoArray
    /\ \A i \in Items : i[1] \in Kinds /\ (i[2] \in Arrays \/ i = Empty(i[1]))
    /\ \A pvs \in SUBSET Volumes : \A i \in ItemsOf(pvs) :
          i \in Items /\ \E v \in Valid(pvs) : i[2] = Info[v].array
    /\ \A pvs \in SUBSET Volumes : \A k \in Kinds : \A v \in Valid(pvs) :
          Item(k, v) \in ItemsOf(pvs) /\ Item(k, v)[1] = k /\ Item(k, v)[2] = Info[v].array
<1>1. NoArray \notin Arrays
  BY DEF Arrays
<1>2. \A k \in Kinds : Empty(k) \in Items /\ Empty(k)[1] = k /\ Empty(k)[2] = NoArray
  BY DEF Items, Empty
<1>3. \A k \in Kinds, v \in Volumes : Item(k, v)[1] = k /\ Item(k, v)[2] = Info[v].array
  BY DEF Item
<1>4. \A v \in Valid(Volumes) : v \in Volumes /\ Info[v].array \in Arrays
  BY DEF Valid, Arrays
<1>5. \A i \in ItemsOf(Volumes) : i[1] \in Kinds /\ i[2] \in Arrays
  BY <1>3, <1>4 DEF ItemsOf
<1>6. \A i \in Items : i[1] \in Kinds /\ (i[2] \in Arrays \/ i = Empty(i[1]))
  BY <1>2, <1>5 DEF Items
<1>7. \A pvs \in SUBSET Volumes : Valid(pvs) \subseteq Valid(Volumes)
  BY DEF Valid
<1>8. \A pvs \in SUBSET Volumes : \A i \in ItemsOf(pvs) :
        i \in Items /\ \E v \in Valid(pvs) : i[2] = Info[v].array
  <2> SUFFICES ASSUME NEW pvs \in SUBSET Volumes, NEW i \in ItemsOf(pvs)
               PROVE  i \in Items /\ \E v \in Valid(pvs) : i[2] = Info[v].array
    OBVIOUS
  <2>1. PICK k \in Kinds, v \in Valid(pvs) : i = Item(k, v)
    BY DEF ItemsOf
  <2> QED
    BY <1>3, <1>4, <1>7, <2>1 DEF ItemsOf, Items
<1>9. \A pvs \in SUBSET Volumes : \A k \in Kinds : \A v \in Valid(pvs) :
        Item(k, v) \in ItemsOf(pvs) /\ Item(k, v)[1] = k /\ Item(k, v)[2] = Info[v].array
  BY <1>3, <1>4, <1>7 DEF ItemsOf
<1> QED
  BY <1>1, <1>2, <1>6, <1>8, <1>9

-----------------------------------------------------------------------------
\* A step of the worker for array a in pipeline k.
WorkerStep(k, a) ==
    \/ GiveUp(k, a)
    \/ WorkerDone(k, a)
    \/ k = "volume" /\ \E S \in SUBSET Wanted("volume", a) : GetVolumesMetrics(a, S)
    \/ k = "group" /\ \/ CountFromCache(a)
                      \/ CountFromArray(a)
                      \/ CountFails(a)
                      \/ \E S \in SUBSET ItemsAt("group", a) : CollectBulk(a, S) \/ CollectLegacy(a, S)
                      \/ BulkEnds(a)

\* It leaves the state of the worker and its items fitting.
WorkerResult(k, a, s) ==
    /\ UNCHANGED <<max, collect, gatherer, todo, pushed, total, settled>>
    /\ worker[k][a] \in Working
    /\ worker' = [worker EXCEPT ![k][a] = s]
    /\ IF s = "none"
       THEN wg' = [wg EXCEPT ![k] = @ - 1] /\ sem' = [sem EXCEPT ![k] = @ - 1]
       ELSE UNCHANGED <<wg, sem>>
    /\ stage' \in [Items -> Stages]
    /\ \A i \in Items :
          IF i[1] = k /\ i[2] = a
          THEN /\ stage'[i] \in StagesAt(k, s)
               /\ \/ stage'[i] = stage[i]
                  \/ stage[i] = "found" /\ stage'[i] \in {"answered", "dropped"}
          ELSE stage'[i] = stage[i]

\* Every step of a worker has such a result.
LEMMA WorkerStepResult ==
    ASSUME PerformanceInv, NEW k \in Kinds, NEW a \in Arrays, WorkerStep(k, a)
    PROVE  \E s \in WorkerStates : WorkerResult(k, a, s)
<1>0. /\ worker \in [Kinds -> [Arrays -> WorkerStates]]
      /\ stage \in [Items -> Stages]
      /\ worker[k][a] \in Working => a \notin todo[k]
  BY DEF PerformanceInv, TypeOK, CountsFit, Busy
<1>1. \A i \in Items : i[1] = k /\ i[2] = a /\ worker[k][a] \in Working
                          => stage[i] \in StagesAt(k, worker[k][a])
  BY <1>0 DEF PerformanceInv, StagesFit
<1> USE DEF WorkerStates, Working, Stages, StagesAt
<1>2. CASE GiveUp(k, a)
  <2>1. WorkerResult(k, a, "none")
    BY <1>0, <1>1, <1>2 DEF GiveUp, Leave, Answered, Dropped, ItemsAt, WorkerResult, countVars
  <2> QED
    BY <2>1
<1>3. CASE WorkerDone(k, a)
  <2>1. WorkerResult(k, a, "none")
    BY <1>0, <1>1, <1>3 DEF WorkerDone, Leave, Unsent, ItemsAt, WorkerResult, countVars
  <2> QED
    BY <2>1
<1>4. ASSUME k = "volume", NEW S \in SUBSET Wanted("volume", a), GetVolumesMetrics(a, S)
      PROVE  WorkerResult(k, a, "sending")
  BY <1>0, <1>1, <1>4 DEF GetVolumesMetrics, Answered, Dropped, Wanted, ItemsAt, WorkerResult, countVars
<1>5. CASE k = "group" /\ (CountFromCache(a) \/ CountFromArray(a) \/ CountFails(a))
  <2>1. PICK s \in {"bulk", "legacy"} : worker' = [worker EXCEPT ![k][a] = s]
    BY <1>5 DEF CountFromCache, CountFromArray, CountFails, Strategy
  <2>2. WorkerResult(k, a, s)
    BY <1>0, <1>1, <1>5, <2>1 DEF CountFromCache, CountFromArray, CountFails, WorkerResult, countVars
  <2> QED
    BY <2>2
<1>6. ASSUME k = "group", NEW S \in SUBSET ItemsAt("group", a), CollectBulk(a, S)
      PROVE  WorkerResult(k, a, "bulk sending")
  BY <1>0, <1>1, <1>6 DEF CollectBulk, Wanted, ItemsAt, WorkerResult, countVars
<1>7. ASSUME k = "group", NEW S \in SUBSET ItemsAt("group", a), CollectLegacy(a, S)
      PROVE  WorkerResult(k, a, "sending")
  BY <1>0, <1>1, <1>7 DEF CollectLegacy, Answered, Dropped, ItemsAt, WorkerResult, countVars
<1>8. CASE k = "group" /\ BulkEnds(a)
  <2> DEFINE emitted == \E i \in ItemsAt("group", a) : stage[i] # "found"
  <2>1. CASE emitted
    <3>1. /\ worker[k][a] = "bulk sending" /\ Leave(k, a)
          /\ stage' = Answered(k, a, {}) /\ Unsent(k, a) = {}
          /\ UNCHANGED <<max, collect, gatherer, todo, pushed, countVars>>
      BY <1>8, <2>1 DEF BulkEnds
    <3> HIDE DEF emitted
    <3>2. WorkerResult(k, a, "none")
      BY <1>0, <1>1, <3>1 DEF Leave, Unsent, Answered, Dropped, ItemsAt, WorkerResult, countVars
    <3> QED
      BY <3>2
  <2>2. CASE ~emitted
    <3>1. /\ worker[k][a] = "bulk sending" /\ worker' = [worker EXCEPT ![k][a] = "legacy"]
          /\ UNCHANGED <<max, collect, gatherer, todo, wg, sem, stage, pushed, countVars>>
      BY <1>8, <2>2 DEF BulkEnds
    <3>2. \A i \in Items : i[1] = k /\ i[2] = a => stage[i] \in {"none", "found"}
      BY <1>8, <2>2 DEF ItemsAt
    <3> HIDE DEF emitted
    <3>3. WorkerResult(k, a, "legacy")
      BY <1>0, <3>1, <3>2 DEF WorkerResult, countVars
    <3> QED
      BY <3>3
  <2> QED
    BY <2>1, <2>2
<1> QED
  BY <1>2, <1>3, <1>4, <1>5, <1>6, <1>7, <1>8 DEF WorkerStep

-----------------------------------------------------------------------------
\* The invariant in two parts: the goroutines of a collection, and the cache.
FlowTypes ==
    /\ max \in Nat \ {0}
    /\ collect \in {"idle", "running", "returned", "failed"}
    /\ gatherer \in [Kinds -> {"keys", "spawn", "wait", "done"}]
    /\ todo \in [Kinds -> SUBSET Arrays]
    /\ wg \in [Kinds -> Nat]
    /\ sem \in [Kinds -> Nat]
    /\ worker \in [Kinds -> [Arrays -> WorkerStates]]
    /\ stage \in [Items -> Stages]
    /\ pushed \subseteq Kinds

Flow == FlowTypes /\ CountsFit /\ StagesFit /\ EmptyFits /\ NoSendOnClosed

CacheTypes ==
    /\ sgCountCache \in [Arrays -> [count : Nat, age : 0 .. SGCountCacheTTL]]
    /\ total \in [Arrays -> Nat] /\ \A a \in Arrays : total[a] \in Totals[a]
    /\ settled \in [Arrays -> 0 .. SGCountCacheTTL]

\* The two parts make up the invariant.
LEMMA InvParts == PerformanceInv <=> Flow /\ CacheTypes /\ CacheFits
  BY DEF PerformanceInv, TypeOK, Flow, FlowTypes, CacheTypes

\* As long as no item is found or forgotten, the "empty" record stays due or not.
LEMMA EmptyKept ==
    ASSUME NEW k \in Kinds, \A i \in Items : i[2] \in Arrays => (stage'[i] = "none" <=> stage[i] = "none")
    PROVE  (\A a \in Arrays : ItemsAt(k, a) = {})' <=> \A a \in Arrays : ItemsAt(k, a) = {}
  BY DEF ItemsAt

\* A worker's step preserves the flow.
LEMMA WorkerKeeps ==
    ASSUME PerformanceInv, NEW k \in Kinds, NEW a \in Arrays,
           NEW s \in WorkerStates, WorkerResult(k, a, s)
    PROVE  Flow'
<1>0. Flow
  BY InvParts
<1>1. /\ worker \in [Kinds -> [Arrays -> WorkerStates]]
      /\ worker' \in [Kinds -> [Arrays -> WorkerStates]]
      /\ worker'[k][a] = s
      /\ \A j \in Kinds, b \in Arrays : j # k \/ b # a => worker'[j][b] = worker[j][b]
  BY <1>0 DEF Flow, FlowTypes, WorkerResult
<1>2. /\ a \in Busy(k) /\ a \notin todo[k] /\ gatherer[k] \in {"spawn", "wait"}
      /\ collect = "running" /\ k \notin pushed
  BY <1>0 DEF Flow, FlowTypes, CountsFit, NoSendOnClosed, Busy, WorkerResult
<1>3. /\ Busy(k)' = IF s = "none" THEN Busy(k) \ {a} ELSE Busy(k)
      /\ \A j \in Kinds : j # k => Busy(j)' = Busy(j)
  BY <1>1, <1>2 DEF Busy, Working, WorkerStates
<1>4. /\ wg' \in [Kinds -> Nat] /\ sem' \in [Kinds -> Nat]
      /\ \A j \in Kinds : wg'[j] = Cardinality(Busy(j)') /\ sem'[j] = wg'[j] /\ sem'[j] <= max
  <2>1. Busy(k) \in SUBSET Arrays
    BY DEF Busy
  <2>2. Cardinality(Busy(k)) \in Nat /\ Cardinality(Busy(k) \ {a}) \in Nat
        /\ Cardinality(Busy(k) \ {a}) = Cardinality(Busy(k)) - 1
    BY <1>2, <2>1, BusySets
  <2>3. /\ max \in Nat /\ wg \in [Kinds -> Nat] /\ sem \in [Kinds -> Nat]
        /\ \A j \in Kinds : wg[j] = Cardinality(Busy(j)) /\ sem[j] = wg[j] /\ sem[j] <= max
    BY <1>0 DEF Flow, FlowTypes, CountsFit
  <2>4. CASE s = "none"
    <3>1. wg' = [wg EXCEPT ![k] = @ - 1] /\ sem' = [sem EXCEPT ![k] = @ - 1]
      BY <2>4 DEF WorkerResult
    <3> QED
      BY <1>3, <2>2, <2>3, <2>4, <3>1
  <2>5. CASE s # "none"
    BY <1>3, <2>3, <2>5 DEF WorkerResult
  <2> QED
    BY <2>4, <2>5
<1>5. FlowTypes'
  BY <1>0, <1>1, <1>4 DEF Flow, FlowTypes, WorkerResult
<1>6. CountsFit'
  BY <1>0, <1>3, <1>4, <1>2 DEF Flow, CountsFit, WorkerResult
<1>7. StagesFit'
  <2> SUFFICES ASSUME NEW i \in Items
               PROVE  i[2] \in Arrays =>
                        stage'[i] \in StagesAt(i[1], IF i[2] \in todo'[i[1]] THEN "started"
                                                     ELSE worker'[i[1]][i[2]])
    BY <1>2 DEF StagesFit, WorkerResult
  <2>1. CASE i[1] = k /\ i[2] = a
    BY <1>1, <1>2, <2>1 DEF WorkerResult
  <2>2. CASE ~(i[1] = k /\ i[2] = a)
    BY <1>0, <1>1, <2>2, ItemType DEF Flow, StagesFit, WorkerResult
  <2> QED
    BY <2>1, <2>2
<1>8. \A i \in Items : stage'[i] = "none" <=> stage[i] = "none"
  BY DEF WorkerResult
<1>9. EmptyFits'
  BY <1>0, <1>8, EmptyKept, ItemType DEF Flow, EmptyFits, WorkerResult
<1>10. NoSendOnClosed'
  <2>1. ASSUME NEW j \in Kinds, gatherer[j] = "done"
        PROVE  \A b \in Arrays : worker'[j][b] \notin Working /\ Unsent(j, b)' = {}
    BY <1>0, <1>1, <1>2, <2>1 DEF Flow, NoSendOnClosed, WorkerResult, Unsent, ItemsAt
  <2>2. ASSUME NEW j \in pushed
        PROVE  gatherer[j] = "done" /\ Recording(j)' = {}
    BY <1>0, <1>2, <2>2 DEF Flow, NoSendOnClosed, WorkerResult, Recording
  <2> QED
    BY <1>2, <2>1, <2>2 DEF NoSendOnClosed, WorkerResult
<1> QED
  BY <1>5, <1>6, <1>7, <1>9, <1>10 DEF Flow

\* A collection starts afresh: what it finds is due in some array's turn.
LEMMA CollectKeeps ==
    ASSUME PerformanceInv, NEW pvs \in PVLists, Collect(pvs)
    PROVE  Flow'
<1> DEFINE array2Sgs == {Info[v].array : v \in Valid(pvs)}
<1>0. Flow /\ pvs \in SUBSET Volumes
  BY InvParts, PerformanceAssumption
<1>1. array2Sgs \subseteq Arrays
  BY <1>0 DEF Valid, Arrays
<1>2. /\ collect' = "running" /\ max' = max /\ pushed' = {}
      /\ todo' = [k \in Kinds |-> array2Sgs]
      /\ gatherer' = [k \in Kinds |-> IF k = "volume" THEN "keys" ELSE "spawn"]
      /\ wg' = [k \in Kinds |-> 0] /\ sem' = [k \in Kinds |-> 0]
      /\ worker' = [k \in Kinds |-> [a \in Arrays |-> "none"]]
      /\ stage' = [i \in Items |-> IF i \in ItemsOf(pvs) \/ (array2Sgs = {} /\ i[2] = NoArray)
                                   THEN "found" ELSE "none"]
  BY DEF Collect
<1>3. \A i \in ItemsOf(pvs) : i \in Items /\ i[2] \in array2Sgs
  BY <1>0, ItemType
<1>4. \A k \in Kinds, v \in Valid(pvs) : /\ Item(k, v) \in ItemsOf(pvs)
                                         /\ Item(k, v)[1] = k
                                         /\ Item(k, v)[2] = Info[v].array
  BY <1>0, ItemType
<1>5. FlowTypes'
  BY <1>0, <1>1, <1>2 DEF Flow, FlowTypes, WorkerStates, Stages
<1>6. \A k \in Kinds : Busy(k)' = {} /\ gatherer'[k] \in {"keys", "spawn"}
  BY <1>2 DEF Busy, Working
<1>7. CountsFit'
  <2>1. Cardinality({}) = 0
    BY FS_EmptySet
  <2>2. max' \in Nat /\ \A k \in Kinds : wg'[k] = 0 /\ sem'[k] = 0
    BY <1>0, <1>2 DEF Flow, FlowTypes
  <2>3. \A k \in Kinds : wg'[k] = Cardinality(Busy(k)') /\ sem'[k] = wg'[k] /\ sem'[k] <= max'
    BY <1>6, <2>1, <2>2
  <2>4. \A k \in Kinds : gatherer'[k] \notin {"wait", "done"}
    BY <1>6
  <2> QED
    BY <1>2, <1>6, <2>3, <2>4 DEF CountsFit
<1> HIDE DEF array2Sgs
<1>8. StagesFit'
  <2> SUFFICES ASSUME NEW i \in Items, i[2] \in Arrays
               PROVE  stage'[i] \in StagesAt(i[1], IF i[2] \in todo'[i[1]] THEN "started"
                                                   ELSE worker'[i[1]][i[2]])
    BY <1>2 DEF StagesFit
  <2>1. i[1] \in Kinds /\ i[2] # NoArray
    BY ItemType
  <2>2. CASE i[2] \in array2Sgs
    BY <1>2, <2>1, <2>2 DEF StagesAt
  <2>3. CASE i[2] \notin array2Sgs
    BY <1>2, <1>3, <2>1, <2>3 DEF StagesAt, Stages
  <2> QED
    BY <2>2, <2>3
<1>9. EmptyFits'
  <2> SUFFICES ASSUME NEW k \in Kinds
               PROVE  stage'[Empty(k)] = IF \A a \in Arrays : ItemsAt(k, a)' = {}
                                         THEN "found" ELSE "none"
    BY <1>6 DEF EmptyFits
  <2>1. /\ Empty(k) \in Items /\ Empty(k)[2] = NoArray
        /\ Empty(k) \notin ItemsOf(pvs)
    BY <1>1, <1>3, ItemType
  <2>2. CASE array2Sgs = {}
    <3>1. \A i \in Items : i[2] \in Arrays => stage'[i] = "none"
      BY <1>2, <1>3, <2>2, ItemType
    <3>2. \A a \in Arrays : ItemsAt(k, a)' = {}
      BY <3>1 DEF ItemsAt
    <3>3. stage'[Empty(k)] = "found"
      BY <1>2, <2>1, <2>2
    <3> QED
      BY <3>2, <3>3
  <2>3. CASE array2Sgs # {}
    <3>1. PICK v \in Valid(pvs) : TRUE
      BY <2>3 DEF array2Sgs
    <3>2. Item(k, v) \in ItemsAt(k, Info[v].array)'
      BY <1>2, <1>3, <1>4 DEF ItemsAt
    <3>3. Info[v].array \in Arrays
      BY <1>1 DEF array2Sgs
    <3>4. stage'[Empty(k)] = "none"
      BY <1>2, <2>1, <2>3
    <3> QED
      BY <3>2, <3>3, <3>4
  <2> QED
    BY <2>2, <2>3
<1>10. NoSendOnClosed'
  BY <1>2, <1>6 DEF NoSendOnClosed
<1> QED
  BY <1>5, <1>7, <1>8, <1>9, <1>10 DEF Flow

\* The gatherers.
LEMMA PerfKeysKeep ==
    ASSUME PerformanceInv, NEW S \in SUBSET todo["volume"], GetArrayPerfKeys(S)
    PROVE  Flow'
<1>0. Flow /\ "volume" \in Kinds
  BY InvParts DEF Kinds
<1>1. /\ UNCHANGED <<max, collect, todo, wg, sem, worker, pushed>>
      /\ gatherer["volume"] = "keys"
      /\ gatherer' = [gatherer EXCEPT !["volume"] = "spawn"]
      /\ \A i \in Items : stage'[i] = IF i[1] = "volume" /\ i[2] \in todo["volume"] \ S
                                         /\ stage[i] = "found"
                                      THEN "dropped" ELSE stage[i]
      /\ stage' \in [Items -> Stages]
  BY <1>0 DEF GetArrayPerfKeys, Dropped, Flow, FlowTypes, Stages
<1>2. FlowTypes'
  BY <1>0, <1>1 DEF Flow, FlowTypes
<1>3. CountsFit'
  BY <1>0, <1>1 DEF Flow, FlowTypes, CountsFit, Busy
<1>4. StagesFit'
  <2>1. ASSUME NEW i \in Items, i[2] \in Arrays
        PROVE  stage'[i] \in StagesAt(i[1], IF i[2] \in todo'[i[1]] THEN "started"
                                            ELSE worker'[i[1]][i[2]])
    <3>1. CASE stage'[i] = stage[i]
      BY <1>0, <1>1, <2>1, <3>1 DEF Flow, StagesFit
    <3>2. CASE stage'[i] # stage[i]
      BY <1>1, <2>1, <3>2 DEF StagesAt
    <3> QED
      BY <3>1, <3>2
  <2>2. collect = "running"
    BY <1>0, <1>1 DEF Flow, CountsFit
  <2> QED
    BY <1>1, <2>1, <2>2 DEF StagesFit
<1>5. \A i \in Items : stage'[i] = "none" <=> stage[i] = "none"
  BY <1>1
<1>6. todo["volume"] \subseteq Arrays
  BY <1>0 DEF Flow, FlowTypes
<1>7. \A k \in Kinds : stage'[Empty(k)] = stage[Empty(k)]
  BY <1>1, <1>6, ItemType
<1>8. EmptyFits'
  BY <1>0, <1>1, <1>5, <1>7, EmptyKept DEF Flow, FlowTypes, EmptyFits
<1>9. NoSendOnClosed'
  BY <1>0, <1>1 DEF Flow, FlowTypes, NoSendOnClosed, Unsent, ItemsAt, Recording
<1> QED
  BY <1>2, <1>3, <1>4, <1>8, <1>9 DEF Flow

\* wg.Add(1), a slot and a worker: the array's items are as before its turn.
LEMMA SpawnKeeps ==
    ASSUME PerformanceInv, NEW k \in Kinds, NEW a \in Arrays, Spawn(k, a)
    PROVE  Flow'
<1>0. Flow
  BY InvParts
<1>1. /\ UNCHANGED <<max, collect, gatherer, stage, pushed>>
      /\ gatherer[k] = "spawn" /\ a \in todo[k] /\ sem[k] < max
      /\ todo' = [todo EXCEPT ![k] = @ \ {a}]
      /\ wg' = [wg EXCEPT ![k] = @ + 1] /\ sem' = [sem EXCEPT ![k] = @ + 1]
      /\ worker' = [worker EXCEPT ![k][a] = "started"]
  BY DEF Spawn
<1>2. /\ worker \in [Kinds -> [Arrays -> WorkerStates]]
      /\ worker' \in [Kinds -> [Arrays -> WorkerStates]]
      /\ worker'[k][a] = "started"
      /\ \A j \in Kinds, b \in Arrays : j # k \/ b # a => worker'[j][b] = worker[j][b]
  BY <1>0, <1>1 DEF Flow, FlowTypes, WorkerStates
<1>3. /\ todo' \in [Kinds -> SUBSET Arrays] /\ todo'[k] = todo[k] \ {a}
      /\ \A j \in Kinds : j # k => todo'[j] = todo[j]
  BY <1>0, <1>1 DEF Flow, FlowTypes
<1>4. /\ Busy(k)' = Busy(k) \cup {a} /\ a \notin Busy(k)
      /\ \A j \in Kinds : j # k => Busy(j)' = Busy(j)
  <2>1. a \notin Busy(k)
    BY <1>0, <1>1 DEF Flow, CountsFit
  <2>2. \A j \in Kinds, b \in Arrays :
          worker'[j][b] \in Working <=> worker[j][b] \in Working \/ (j = k /\ b = a)
    BY <1>2 DEF Working, WorkerStates
  <2> QED
    BY <2>1, <2>2 DEF Busy
<1>5. /\ wg' \in [Kinds -> Nat] /\ sem' \in [Kinds -> Nat]
      /\ \A j \in Kinds : wg'[j] = Cardinality(Busy(j)') /\ sem'[j] = wg'[j] /\ sem'[j] <= max
  <2>1. Busy(k) \in SUBSET Arrays
    BY DEF Busy
  <2>2. /\ Cardinality(Busy(k)) \in Nat
        /\ Cardinality(Busy(k) \cup {a}) = Cardinality(Busy(k)) + 1
    BY <1>4, <2>1, BusySets
  <2>3. /\ max \in Nat /\ wg \in [Kinds -> Nat] /\ sem \in [Kinds -> Nat]
        /\ \A j \in Kinds : wg[j] = Cardinality(Busy(j)) /\ sem[j] = wg[j] /\ sem[j] <= max
    BY <1>0 DEF Flow, FlowTypes, CountsFit
  <2>4. wg'[k] = wg[k] + 1 /\ sem'[k] = sem[k] + 1 /\ sem[k] + 1 <= max
    BY <1>1, <2>3
  <2> QED
    BY <1>1, <1>4, <2>2, <2>3, <2>4
<1>6. FlowTypes'
  BY <1>0, <1>1, <1>2, <1>3, <1>5 DEF Flow, FlowTypes
<1>7. CountsFit'
  BY <1>0, <1>1, <1>3, <1>4, <1>5 DEF Flow, CountsFit
<1>8. StagesFit'
  <2> SUFFICES ASSUME NEW i \in Items, i[2] \in Arrays
               PROVE  stage[i] \in StagesAt(i[1], IF i[2] \in todo'[i[1]] THEN "started"
                                                  ELSE worker'[i[1]][i[2]])
    BY <1>0, <1>1 DEF Flow, StagesFit
  <2>1. (IF i[2] \in todo'[i[1]] THEN "started" ELSE worker'[i[1]][i[2]])
           = IF i[2] \in todo[i[1]] THEN "started" ELSE worker[i[1]][i[2]]
    BY <1>1, <1>2, <1>3, ItemType
  <2> QED
    BY <1>0, <2>1 DEF Flow, StagesFit
<1>9. EmptyFits' /\ NoSendOnClosed'
  BY <1>0, <1>1, <1>2 DEF Flow, EmptyFits, NoSendOnClosed, ItemsAt, Unsent, Recording
<1> QED
  BY <1>6, <1>7, <1>8, <1>9 DEF Flow

\* After the loop, and the "empty" record if it is due.
LEMMA EndOfArraysKeeps ==
    ASSUME PerformanceInv, NEW k \in Kinds, EndOfArrays(k)
    PROVE  Flow'
<1>0. Flow
  BY InvParts
<1>1. /\ UNCHANGED <<max, collect, todo, wg, sem, worker, pushed>>
      /\ gatherer[k] = "spawn" /\ todo[k] = {}
      /\ gatherer' = [gatherer EXCEPT ![k] = "wait"]
  BY DEF EndOfArrays
<1>2. collect = "running"
  BY <1>0, <1>1 DEF Flow, CountsFit
<1>3. /\ stage' \in [Items -> Stages]
      /\ \A i \in Items : i # Empty(k) => stage'[i] = stage[i]
      /\ stage'[Empty(k)] \in {"recording", "none"}
  <2>1. stage \in [Items -> Stages] /\ Empty(k) \in Items
    BY <1>0, ItemType DEF Flow, FlowTypes
  <2>2. CASE \A a \in Arrays : ItemsAt(k, a) = {}
    BY <2>1, <2>2 DEF EndOfArrays, Stages
  <2>3. CASE ~ \A a \in Arrays : ItemsAt(k, a) = {}
    BY <1>0, <1>1, <2>1, <2>3 DEF EndOfArrays, Flow, EmptyFits
  <2> QED
    BY <2>2, <2>3
<1>4. \A i \in Items : i[2] \in Arrays => stage'[i] = stage[i]
  BY <1>3, ItemType
<1>5. FlowTypes'
  BY <1>0, <1>1, <1>3 DEF Flow, FlowTypes
<1>6. CountsFit'
  BY <1>0, <1>1 DEF Flow, FlowTypes, CountsFit, Busy
<1>7. StagesFit'
  BY <1>0, <1>1, <1>2, <1>4 DEF Flow, StagesFit
<1>8. EmptyFits'
  <2> SUFFICES ASSUME NEW j \in Kinds
               PROVE  IF gatherer'[j] \in {"keys", "spawn"}
                      THEN stage'[Empty(j)] = IF \A a \in Arrays : ItemsAt(j, a)' = {}
                                              THEN "found" ELSE "none"
                      ELSE stage'[Empty(j)] \notin {"found", "answered"}
    BY DEF EmptyFits
  <2>1. CASE j = k
    BY <1>0, <1>1, <1>3, <2>1 DEF Flow, FlowTypes
  <2>2. CASE j # k
    <3>1. gatherer'[j] = gatherer[j] /\ stage'[Empty(j)] = stage[Empty(j)]
      BY <1>0, <1>1, <1>3, <2>2, ItemType DEF Flow, FlowTypes
    <3> QED
      BY <1>0, <1>4, <3>1, EmptyKept DEF Flow, EmptyFits
  <2> QED
    BY <2>1, <2>2
<1>9. NoSendOnClosed'
  <2>1. k \notin pushed
    BY <1>0, <1>1, <1>2 DEF Flow, NoSendOnClosed
  <2>2. ASSUME NEW j \in Kinds, gatherer'[j] = "done"
        PROVE  \A a \in Arrays : worker'[j][a] \notin Working /\ Unsent(j, a)' = {}
    <3>1. gatherer[j] = "done"
      BY <1>0, <1>1, <2>2 DEF Flow, FlowTypes
    <3> QED
      BY <1>0, <1>1, <1>2, <1>4, <3>1 DEF Flow, NoSendOnClosed, Unsent, ItemsAt
  <2>3. ASSUME NEW j \in pushed
        PROVE  gatherer'[j] = "done" /\ Recording(j)' = {}
    <3>1. gatherer'[j] = "done" /\ j # k /\ j \in Kinds
      BY <1>0, <1>1, <1>2, <2>1, <2>3 DEF Flow, FlowTypes, NoSendOnClosed
    <3>2. \A i \in Items : i[1] = j => stage'[i] = stage[i]
      BY <1>3, <3>1, ItemType
    <3> QED
      BY <1>0, <1>2, <2>3, <3>1, <3>2 DEF Flow, NoSendOnClosed, Recording
  <2> QED
    BY <1>1, <2>2, <2>3 DEF NoSendOnClosed
<1> QED
  BY <1>5, <1>6, <1>7, <1>8, <1>9 DEF Flow

\* A pipeline without busy workers has none that is started.
LEMMA IdleWorkers ==
    ASSUME FlowTypes, NEW k \in Kinds, Busy(k) = {}
    PROVE  \A a \in Arrays : worker[k][a] = "none"
  BY DEF FlowTypes, Busy, Working

\* No item waits for an answer or is unsent in a pipeline whose gatherer is done.
LEMMA DoneIsDone ==
    ASSUME Flow, NEW i \in Items, gatherer[i[1]] = "done"
    PROVE  stage[i] \notin {"found", "answered"}
<1>1. CASE i[2] \in Arrays
  <2>1. i[1] \in Kinds
    BY ItemType
  <2>2. worker[i[1]][i[2]] = "none" /\ i[2] \notin todo[i[1]]
    BY <1>1, <2>1, IdleWorkers DEF Flow, CountsFit
  <2> QED
    BY <1>1, <2>2 DEF Flow, StagesFit, StagesAt
<1>2. CASE i = Empty(i[1])
  <2>1. i[1] \in Kinds
    BY ItemType
  <2> QED
    BY <1>2, <2>1 DEF Flow, EmptyFits
<1> QED
  BY <1>1, <1>2, ItemType

\* wg.Wait() returns only when no worker is left to send.
LEMMA CloseRecordsKeeps ==
    ASSUME PerformanceInv, NEW k \in Kinds, CloseRecords(k)
    PROVE  Flow'
<1>0. Flow
  BY InvParts
<1>1. /\ UNCHANGED <<max, collect, todo, wg, sem, worker, pushed, stage>>
      /\ gatherer[k] = "wait" /\ wg[k] = 0
      /\ gatherer' = [gatherer EXCEPT ![k] = "done"]
  BY DEF CloseRecords
<1>2. Busy(k) = {}
  <2>1. Busy(k) \in SUBSET Arrays /\ Cardinality(Busy(k)) = 0
    BY <1>0, <1>1 DEF Flow, CountsFit, Busy
  <2> QED
    BY <2>1, BusySets
<1>3. FlowTypes' /\ CountsFit'
  BY <1>0, <1>1, <1>2 DEF Flow, FlowTypes, CountsFit, Busy
<1>4. StagesFit' /\ EmptyFits'
  BY <1>0, <1>1 DEF Flow, FlowTypes, StagesFit, EmptyFits, ItemsAt
<1>5. \A a \in Arrays : worker[k][a] \notin Working /\ Unsent(k, a) = {}
  <2>1. \A a \in Arrays : worker[k][a] = "none" /\ a \notin todo[k]
    BY <1>0, <1>1, <1>2, IdleWorkers DEF Flow, CountsFit
  <2>2. \A i \in Items : i[1] = k /\ i[2] \in Arrays => stage[i] # "answered"
    BY <1>0, <2>1 DEF Flow, StagesFit, StagesAt
  <2> QED
    BY <2>1, <2>2 DEF Unsent, ItemsAt, Working
<1>6. NoSendOnClosed'
  BY <1>0, <1>1, <1>5 DEF Flow, FlowTypes, NoSendOnClosed, Unsent, ItemsAt, Recording
<1> QED
  BY <1>3, <1>4, <1>6 DEF Flow

\* A record is sent, recorded or refused by the recorder.
LEMMA RecordKeeps ==
    ASSUME PerformanceInv, NEW i \in Items,
           SendRecord(i) \/ \E ok \in BOOLEAN : RecordReturns(i, ok)
    PROVE  Flow'
<1>0. Flow
  BY InvParts
<1>1. /\ UNCHANGED <<max, collect, gatherVars, pushed>>
      /\ stage[i] \in {"answered", "recording"}
      /\ \E s \in {"recording", "recorded", "dropped"} : stage' = [stage EXCEPT ![i] = s]
  BY DEF SendRecord, RecordReturns
<1>2. /\ stage' \in [Items -> Stages] /\ stage'[i] \in {"recording", "recorded", "dropped"}
      /\ \A j \in Items : j # i => stage'[j] = stage[j]
  BY <1>0, <1>1 DEF Flow, FlowTypes, Stages
<1>3. collect = "running" /\ i[1] \in Kinds
  BY <1>0, <1>1, ItemType DEF Flow, StagesFit
<1>4. FlowTypes' /\ CountsFit'
  BY <1>0, <1>1, <1>2 DEF Flow, FlowTypes, CountsFit, Busy, gatherVars
<1>5. StagesFit'
  <2> SUFFICES ASSUME NEW j \in Items, j[2] \in Arrays
               PROVE  stage'[j] \in StagesAt(j[1], IF j[2] \in todo[j[1]] THEN "started"
                                                   ELSE worker[j[1]][j[2]])
    BY <1>1, <1>3 DEF StagesFit, gatherVars
  <2> DEFINE w == IF j[2] \in todo[j[1]] THEN "started" ELSE worker[j[1]][j[2]]
  <2>1. stage[j] \in StagesAt(j[1], w)
    BY <1>0 DEF Flow, StagesFit
  <2>2. w \in WorkerStates
    <3>1. j[1] \in Kinds
      BY ItemType
    <3>2. worker[j[1]][j[2]] \in WorkerStates
      BY <1>0, <3>1 DEF Flow, FlowTypes
    <3> QED
      BY <3>2 DEF WorkerStates
  <2> HIDE DEF w
  <2>3. stage'[j] \in StagesAt(j[1], w)
    <3>1. CASE j = i
      <4>1. w \in {"bulk sending", "sending", "none"}
        BY <1>1, <2>1, <2>2, <3>1 DEF StagesAt, WorkerStates
      <4> QED
        BY <1>2, <3>1, <4>1 DEF StagesAt, Stages
    <3>2. CASE j # i
      BY <1>2, <2>1, <3>2
    <3> QED
      BY <3>1, <3>2
  <2> QED
    BY <2>3 DEF w
<1>6. \A j \in Items : stage'[j] = "none" <=> stage[j] = "none"
  BY <1>1, <1>2
<1>7. EmptyFits'
  <2> SUFFICES ASSUME NEW k \in Kinds
               PROVE  IF gatherer[k] \in {"keys", "spawn"}
                      THEN stage'[Empty(k)] = IF \A a \in Arrays : ItemsAt(k, a)' = {}
                                              THEN "found" ELSE "none"
                      ELSE stage'[Empty(k)] \notin {"found", "answered"}
    BY <1>1 DEF EmptyFits, gatherVars
  <2>1. gatherer[k] \in {"keys", "spawn"} => stage[Empty(k)] \in {"found", "none"}
    BY <1>0 DEF Flow, EmptyFits
  <2>2. CASE Empty(k) = i
    BY <1>1, <1>2, <2>1, <2>2
  <2>3. CASE Empty(k) # i
    BY <1>0, <1>2, <1>6, <2>3, EmptyKept, ItemType DEF Flow, EmptyFits
  <2> QED
    BY <2>2, <2>3
<1>8. NoSendOnClosed'
  <2>1. \A k \in Kinds, a \in Arrays : Unsent(k, a)' \subseteq Unsent(k, a)
    BY <1>1, <1>2 DEF Unsent, ItemsAt
  <2>2. ASSUME NEW k \in pushed PROVE Recording(k)' = {}
    <3>1. gatherer[k] = "done" /\ Recording(k) = {}
      BY <1>0, <1>3, <2>2 DEF Flow, NoSendOnClosed
    <3>2. i[1] # k
      BY <1>0, <1>1, <3>1, DoneIsDone DEF Recording
    <3> QED
      BY <1>2, <3>1, <3>2 DEF Recording
  <2> QED
    BY <1>0, <1>1, <1>3, <2>1, <2>2 DEF Flow, FlowTypes, NoSendOnClosed, gatherVars
<1> QED
  BY <1>4, <1>5, <1>7, <1>8 DEF Flow

\* Steps that leave goroutines and items alone.
LEMMA FlowFrame ==
    ASSUME Flow, UNCHANGED <<max, collect, gatherVars, stage>>
    PROVE  CountsFit' /\ StagesFit' /\ EmptyFits'
<1>1. CountsFit'
  BY DEF Flow, CountsFit, Busy, gatherVars
<1>2. StagesFit'
  BY DEF Flow, StagesFit, gatherVars
<1>3. EmptyFits'
  BY DEF Flow, EmptyFits, ItemsAt, gatherVars
<1> QED
  BY <1>1, <1>2, <1>3

\* The pushers and Collect, and what happens between collections.
LEMMA EndKeeps ==
    ASSUME PerformanceInv,
           \/ \E k \in Kinds : CloseNames(k)
           \/ CollectReturns
           \/ CollectFails
           \/ Tick
           \/ \E a \in Arrays : \E n \in Totals[a] : ChangeTotal(a, n)
           \/ UNCHANGED vars
    PROVE  Flow'
<1>0. Flow
  BY InvParts
<1>1. ASSUME NEW k \in Kinds, CloseNames(k) PROVE Flow'
  <2>1. /\ UNCHANGED <<max, collect, gatherVars, stage>> /\ pushed' = pushed \cup {k}
        /\ gatherer[k] = "done" /\ Recording(k) = {}
    BY <1>1 DEF CloseNames
  <2>2. FlowTypes' /\ CountsFit' /\ StagesFit' /\ EmptyFits'
    BY <1>0, <2>1, FlowFrame DEF Flow, FlowTypes, gatherVars
  <2>3. NoSendOnClosed'
    BY <1>0, <2>1 DEF Flow, NoSendOnClosed, Unsent, ItemsAt, Recording, gatherVars
  <2> QED
    BY <2>2, <2>3 DEF Flow
<1>2. CASE CollectReturns
  <2>1. \A k \in Kinds : gatherer[k] = "done" /\ Recording(k) = {}
    BY <1>0, <1>2 DEF CollectReturns, Flow, NoSendOnClosed
  <2>2. \A i \in Items : stage[i] \notin {"found", "answered", "recording"}
    BY <1>0, <2>1, DoneIsDone, ItemType DEF Recording
  <2>3. UNCHANGED <<max, gatherVars, stage, pushed>> /\ collect' = "returned"
    BY <1>2 DEF CollectReturns
  <2>4. StagesFit'
    BY <1>0, <2>2, <2>3 DEF Flow, StagesFit, gatherVars
  <2>5. FlowTypes' /\ CountsFit' /\ EmptyFits' /\ NoSendOnClosed'
    BY <1>0, <2>1, <2>3 DEF Flow, FlowTypes, CountsFit, EmptyFits, NoSendOnClosed, Busy, ItemsAt,
                            gatherVars
  <2> QED
    BY <2>4, <2>5 DEF Flow
<1>3. CASE CollectFails
  <2>1. /\ UNCHANGED <<max, gatherVars, pushed>> /\ collect' = "failed" /\ collect # "running"
        /\ stage' = [i \in Items |-> "none"]
    BY <1>3 DEF CollectFails
  <2>2. FlowTypes' /\ CountsFit' /\ NoSendOnClosed'
    BY <1>0, <2>1 DEF Flow, FlowTypes, CountsFit, NoSendOnClosed, Busy, gatherVars, Stages
  <2>3. StagesFit'
    <3>1. \A k \in Kinds, a \in Arrays : worker[k][a] = "none" /\ a \notin todo[k]
      BY <1>0, <2>1, IdleWorkers DEF Flow, CountsFit
    <3>2. "none" \in StagesAt("volume", "none") /\ "none" \in StagesAt("group", "none")
      BY DEF StagesAt, Stages
    <3> QED
      BY <2>1, <3>1, <3>2, ItemType DEF StagesFit, Kinds, gatherVars
  <2>4. EmptyFits'
    BY <1>0, <2>1, ItemType DEF Flow, CountsFit, EmptyFits, gatherVars
  <2> QED
    BY <2>2, <2>3, <2>4 DEF Flow
<1>4. CASE \/ Tick \/ UNCHANGED vars
           \/ \E a \in Arrays : \E n \in Totals[a] : ChangeTotal(a, n)
  <2>1. UNCHANGED <<max, collect, gatherVars, stage, pushed>>
    BY <1>4 DEF Tick, ChangeTotal, vars
  <2>2. FlowTypes' /\ CountsFit' /\ StagesFit' /\ EmptyFits'
    BY <1>0, <2>1, FlowFrame DEF Flow, FlowTypes, gatherVars
  <2>3. NoSendOnClosed'
    BY <1>0, <2>1 DEF Flow, NoSendOnClosed, Unsent, ItemsAt, Recording, gatherVars
  <2> QED
    BY <2>2, <2>3 DEF Flow
<1> QED
  BY <1>1, <1>2, <1>3, <1>4

\* Every step of Next is one of these.
LEMMA NextSteps ==
    [Next]_vars =>
        \/ \E k \in Kinds, a \in Arrays : WorkerStep(k, a)
        \/ \E k \in Kinds, a \in Arrays : Spawn(k, a)
        \/ \E k \in Kinds : EndOfArrays(k) \/ CloseRecords(k) \/ CloseNames(k)
        \/ \E S \in SUBSET todo["volume"] : GetArrayPerfKeys(S)
        \/ \E i \in Items : SendRecord(i) \/ \E ok \in BOOLEAN : RecordReturns(i, ok)
        \/ \E pvs \in PVLists : Collect(pvs)
        \/ CollectReturns \/ CollectFails
        \/ Tick \/ \E a \in Arrays : \E n \in Totals[a] : ChangeTotal(a, n)
        \/ UNCHANGED vars
  BY DEF Next, CollectorStep, WorkerStep, Kinds

\* Every step preserves the flow.
LEMMA FlowStep == PerformanceInv /\ [Next]_vars => Flow'
<1> SUFFICES ASSUME PerformanceInv, [Next]_vars PROVE Flow'
  OBVIOUS
<1>1. ASSUME NEW k \in Kinds, NEW a \in Arrays, WorkerStep(k, a) PROVE Flow'
  BY <1>1, WorkerStepResult, WorkerKeeps
<1> QED
  BY <1>1, NextSteps, SpawnKeeps, EndOfArraysKeeps, CloseRecordsKeeps, PerfKeysKeep,
     RecordKeeps, CollectKeeps, EndKeeps

\* Only the clock, the array and getTotalSGCount touch the cached counts.
LEMMA CacheStep == PerformanceInv /\ [Next]_vars => CacheTypes' /\ CacheFits'
<1> SUFFICES ASSUME PerformanceInv, [Next]_vars PROVE CacheTypes' /\ CacheFits'
  OBVIOUS
<1>0. CacheTypes /\ CacheFits
  BY InvParts
<1> USE DEF CacheTypes, CacheFits
<1>1. SGCountCacheTTL \in Nat \ {0} /\ \A a \in Arrays : Totals[a] \subseteq Nat
  BY PerformanceAssumption
<1>2. CASE UNCHANGED countVars
  BY <1>0, <1>2 DEF countVars
<1>3. ASSUME NEW a \in Arrays, CountFromArray(a) PROVE CacheTypes' /\ CacheFits'
  BY <1>0, <1>1, <1>3 DEF CountFromArray
<1>4. ASSUME NEW a \in Arrays, NEW n \in Totals[a], ChangeTotal(a, n)
      PROVE  CacheTypes' /\ CacheFits'
  BY <1>0, <1>1, <1>4 DEF ChangeTotal
<1>5. CASE Tick
  <2>1. total' = total
        /\ \A a \in Arrays :
             /\ sgCountCache'[a] = IF sgCountCache[a].age + 1 >= SGCountCacheTTL
                                   THEN [count |-> 0, age |-> SGCountCacheTTL]
                                   ELSE [count |-> sgCountCache[a].count,
                                         age |-> sgCountCache[a].age + 1]
             /\ settled'[a] = IF settled[a] < SGCountCacheTTL THEN settled[a] + 1 ELSE settled[a]
    BY <1>5 DEF Tick, NoEntry
  <2>2. ASSUME NEW a \in Arrays
        PROVE  /\ sgCountCache'[a] \in [count : Nat, age : 0 .. SGCountCacheTTL]
               /\ settled'[a] \in 0 .. SGCountCacheTTL
               /\ sgCountCache'[a].age < SGCountCacheTTL /\ sgCountCache'[a].count # total[a]
                    => settled'[a] <= sgCountCache'[a].age
    <3>1. /\ sgCountCache[a].count \in Nat /\ sgCountCache[a].age \in 0 .. SGCountCacheTTL
          /\ settled[a] \in 0 .. SGCountCacheTTL
      BY <1>0
    <3>2. /\ sgCountCache[a].age < SGCountCacheTTL /\ sgCountCache[a].count # total[a]
              => settled[a] <= sgCountCache[a].age
      BY <1>0
    <3>3. CASE sgCountCache[a].age + 1 >= SGCountCacheTTL
      <4>1. sgCountCache'[a] = [count |-> 0, age |-> SGCountCacheTTL]
        BY <2>1, <3>3
      <4>2. /\ sgCountCache'[a].age = SGCountCacheTTL
            /\ sgCountCache'[a] \in [count : Nat, age : 0 .. SGCountCacheTTL]
        BY <1>1, <4>1
      <4>3. settled'[a] = IF settled[a] < SGCountCacheTTL THEN settled[a] + 1 ELSE settled[a]
        BY <2>1
      <4> QED
        BY <1>1, <3>1, <4>2, <4>3
    <3>4. CASE ~(sgCountCache[a].age + 1 >= SGCountCacheTTL)
      <4>1. sgCountCache'[a] = [count |-> sgCountCache[a].count, age |-> sgCountCache[a].age + 1]
        BY <2>1, <3>4
      <4> QED
        BY <1>1, <2>1, <3>1, <3>2, <3>4, <4>1
    <3> QED
      BY <3>3, <3>4
  <2>3. /\ sgCountCache' \in [Arrays -> [count : Nat, age : 0 .. SGCountCacheTTL]]
        /\ settled' \in [Arrays -> 0 .. SGCountCacheTTL]
    BY <1>5, <2>2 DEF Tick
  <2> QED
    BY <1>0, <2>1, <2>2, <2>3
<1> QED
  BY <1>2, <1>3, <1>4, <1>5 DEF Next, CollectorStep, vars, countVars, Collect, CollectFails,
     CollectReturns, GetArrayPerfKeys, EndOfArrays, CloseRecords, CloseNames, Spawn, GiveUp,
     WorkerDone, GetVolumesMetrics, CountFromCache, CountFails, CollectBulk, CollectLegacy,
     BulkEnds, SendRecord, RecordReturns

\* A service that has not collected yet satisfies the invariant.
LEMMA PerformanceInit == Init => PerformanceInv
<1> SUFFICES ASSUME Init PROVE PerformanceInv
  OBVIOUS
<1>1. CacheTypes /\ CacheFits
  <2>1. total \in [Arrays -> Nat]
    BY PerformanceAssumption DEF Init
  <2> QED
    BY <2>1, PerformanceAssumption DEF Init, NoEntry, CacheTypes, CacheFits
<1>2. FlowTypes
  <2>1. max \in Nat \ {0}
    BY PerformanceAssumption DEF Init, MaxConnections
  <2> QED
    BY <2>1 DEF Init, FlowTypes, WorkerStates, Stages
<1>3. \A k \in Kinds : Busy(k) = {}
  BY DEF Init, Busy, Working
<1>4. CountsFit
  <2>1. Cardinality({}) = 0
    BY FS_EmptySet
  <2>2. \A k \in Kinds : wg[k] = 0 /\ sem[k] = 0 /\ todo[k] = {} /\ gatherer[k] = "done"
    BY DEF Init
  <2>3. \A k \in Kinds : wg[k] = Cardinality(Busy(k)) /\ sem[k] = wg[k] /\ sem[k] <= max
    BY <1>2, <1>3, <2>1, <2>2 DEF FlowTypes
  <2> QED
    BY <1>3, <2>2, <2>3 DEF CountsFit
<1>5. StagesFit
  BY ItemType DEF Init, StagesFit, StagesAt, Stages
<1>6. EmptyFits /\ NoSendOnClosed
  BY ItemType DEF Init, EmptyFits, NoSendOnClosed
<1> QED
  BY <1>1, <1>2, <1>4, <1>5, <1>6, InvParts DEF Flow

\* The inductive invariant of performance collections holds for any volumes,
\* storage groups, counts, TTL and concurrency setting, collection after collection.
THEOREM PerformanceInvariant == Spec => []PerformanceInv
<1>1. PerformanceInv /\ [Next]_vars => PerformanceInv'
  <2> SUFFICES ASSUME PerformanceInv, [Next]_vars PROVE PerformanceInv'
    OBVIOUS
  <2>1. Flow' /\ CacheTypes' /\ CacheFits'
    BY FlowStep, CacheStep
  <2> QED
    BY <2>1 DEF PerformanceInv, TypeOK, Flow, FlowTypes, CacheTypes
<1> QED
  BY <1>1, PerformanceInit, PTL DEF Spec

\* No goroutine of a performance collection sends on a closed channel.
THEOREM PerformanceNoSendOnClosed == Spec => []NoSendOnClosed
<1>1. PerformanceInv => NoSendOnClosed
  BY DEF PerformanceInv
<1> QED
  BY <1>1, PerformanceInvariant, PTL

\* Once an array's number of storage groups has been stable for the TTL, the
\* choice between the bulk call and single calls is made with that number.
THEOREM PerformanceStaleCountExpires == Spec => StaleCountExpires
<1> DEFINE Justified(a) ==
             /\ worker["group"][a] = "started"
             /\ worker'["group"][a] = "bulk"
             /\ settled[a] >= SGCountCacheTTL
             => UseBulk(Cardinality(ItemsAt("group", a)), total[a])
<1>1. PerformanceInv /\ [Next]_vars => [\A a \in Arrays : Justified(a)]_vars
  <2> SUFFICES ASSUME PerformanceInv, Next, NEW a \in Arrays,
                      worker["group"][a] = "started", worker'["group"][a] = "bulk",
                      settled[a] >= SGCountCacheTTL
               PROVE  UseBulk(Cardinality(ItemsAt("group", a)), total[a])
    OBVIOUS
  <2>0. /\ worker \in [Kinds -> [Arrays -> WorkerStates]] /\ "group" \in Kinds
        /\ SGCountCacheTTL \in Nat /\ settled[a] \in Nat /\ sgCountCache[a].age \in Nat
    BY PerformanceAssumption DEF PerformanceInv, TypeOK, Kinds
  <2>1. CountFromCache(a) \/ CountFromArray(a)
    <3>1. PICK k \in Kinds, b \in Arrays : WorkerStep(k, b)
      <4>1. ASSUME NEW k \in Kinds, NEW b \in Arrays, Spawn(k, b) PROVE FALSE
        BY <2>0, <4>1 DEF Spawn
      <4>2. ASSUME NEW pvs \in PVLists, Collect(pvs) PROVE FALSE
        BY <2>0, <4>2 DEF Collect
      <4>3. worker' # worker
        OBVIOUS
      <4> QED
        BY <4>1, <4>2, <4>3, NextSteps DEF EndOfArrays, CloseRecords, CloseNames,
           GetArrayPerfKeys, SendRecord, RecordReturns, CollectReturns, CollectFails, Tick,
           ChangeTotal, vars, gatherVars
    <3>2. PICK s \in WorkerStates : WorkerResult(k, b, s)
      BY <3>1, WorkerStepResult
    <3>3. k = "group" /\ b = a /\ s = "bulk"
      BY <2>0, <3>2 DEF WorkerResult
    <3>4. ~(GiveUp("group", a) \/ WorkerDone("group", a) \/ CountFails(a))
      BY <2>0 DEF GiveUp, Leave, WorkerDone, CountFails
    <3>5. ~BulkEnds(a) /\ \A S : ~CollectBulk(a, S) /\ ~CollectLegacy(a, S)
      BY DEF CollectBulk, CollectLegacy, BulkEnds
    <3> QED
      BY <3>1, <3>3, <3>4, <3>5 DEF WorkerStep
  <2>2. CASE CountFromArray(a)
    <3>1. Strategy(a, total[a]) = "bulk"
      BY <2>0, <2>2 DEF CountFromArray
    <3> QED
      BY <3>1 DEF Strategy
  <2>3. CASE CountFromCache(a)
    <3>1. Strategy(a, sgCountCache[a].count) = "bulk"
      BY <2>0, <2>3 DEF CountFromCache
    <3>2. sgCountCache[a].count = total[a]
      BY <2>0, <2>3 DEF CountFromCache, PerformanceInv, CacheFits
    <3> QED
      BY <3>1, <3>2 DEF Strategy
  <2> QED
    BY <2>1, <2>2, <2>3
<1>2. Spec => [][\A a \in Arrays : Justified(a)]_vars
  BY <1>1, PerformanceInvariant, PTL DEF Spec
<1> QED
  BY <1>2 DEF StaleCountExpires

-----------------------------------------------------------------------------
\* An item only ever goes forward in its pipeline.
Moves ==
    \A i \in Items :
        \/ stage'[i] = stage[i]
        \/ stage[i] = "found" /\ stage'[i] \in {"answered", "dropped", "recording"}
        \/ stage[i] = "answered" /\ stage'[i] = "recording"
        \/ stage[i] = "recording" /\ stage'[i] \in {"recorded", "dropped"}

\* Going forward is what Collection calls settling.
LEMMA MovesSettle ==
    ASSUME Moves, collect = "running", collect' = "running"
    PROVE  Abstract!Settle
<1> DEFINE pending == {i \in Items : stage[i] \in {"found", "answered", "recording"}}
           recorded == {i \in Items : stage[i] = "recorded"}
<1>1. /\ pending' \subseteq pending
      /\ recorded \subseteq recorded'
      /\ recorded' \ recorded \subseteq pending \ pending'
  BY DEF Moves
<1> QED
  BY <1>1 DEF Abstract!Settle

\* Every step of a performance collection is a step of Collection or one that
\* Collection does not see.
LEMMA PerformanceStepSettles ==
    PerformanceInv /\ [Next]_vars => [Abstract!Next]_(Abstract!vars)
<1> SUFFICES ASSUME PerformanceInv, [Next]_vars
             PROVE  [Abstract!Next]_(Abstract!vars)
  OBVIOUS
<1>0. Flow
  BY InvParts
<1>1. CASE Moves /\ collect = "running" /\ collect' = "running"
  BY <1>1, MovesSettle DEF Abstract!Next
<1>2. CASE UNCHANGED <<stage, collect>>
  BY <1>2 DEF Abstract!vars
<1>3. ASSUME NEW k \in Kinds, NEW a \in Arrays, WorkerStep(k, a)
      PROVE  Moves /\ collect = "running" /\ collect' = "running"
  <2>1. PICK s \in WorkerStates : WorkerResult(k, a, s)
    BY <1>3, WorkerStepResult
  <2>2. collect = "running"
    BY <1>0, <2>1 DEF Flow, CountsFit, Busy, WorkerResult
  <2> QED
    BY <2>1, <2>2 DEF WorkerResult, Moves
<1>4. ASSUME NEW k \in Kinds, EndOfArrays(k)
      PROVE  Moves /\ collect = "running" /\ collect' = "running"
  <2>1. collect = "running" /\ collect' = "running"
    BY <1>0, <1>4 DEF EndOfArrays, Flow, CountsFit
  <2>2. CASE \A a \in Arrays : ItemsAt(k, a) = {}
    <3>1. stage[Empty(k)] = "found"
      BY <1>0, <1>4, <2>2 DEF EndOfArrays, Flow, EmptyFits
    <3> QED
      BY <1>0, <1>4, <2>1, <2>2, <3>1 DEF EndOfArrays, Moves, Flow, FlowTypes
  <2>3. CASE ~ \A a \in Arrays : ItemsAt(k, a) = {}
    BY <1>4, <2>1, <2>3 DEF EndOfArrays, Moves
  <2> QED
    BY <2>2, <2>3
<1>5. ASSUME NEW S \in SUBSET todo["volume"], GetArrayPerfKeys(S)
      PROVE  Moves /\ collect = "running" /\ collect' = "running"
  BY <1>0, <1>5 DEF GetArrayPerfKeys, Dropped, Moves, Flow, CountsFit, Kinds
<1>6. ASSUME NEW i \in Items, SendRecord(i) \/ \E ok \in BOOLEAN : RecordReturns(i, ok)
      PROVE  Moves /\ collect = "running" /\ collect' = "running"
  BY <1>0, <1>6 DEF SendRecord, RecordReturns, Moves, Flow, FlowTypes, StagesFit
<1>7. ASSUME NEW pvs \in PVLists, Collect(pvs) PROVE Abstract!Find
  <2>1. {i \in Items : stage'[i] = "recorded"} = {}
    BY <1>7 DEF Collect
  <2>2. {i \in Items : stage'[i] \in {"found", "answered", "recording"}} \subseteq Items
    OBVIOUS
  <2>3. collect # "running" /\ collect' = "running"
    BY <1>7 DEF Collect
  <2>4. collect \in {"idle", "running", "returned", "failed"}
    BY <1>0 DEF Flow, FlowTypes
  <2> QED
    BY <2>1, <2>2, <2>3, <2>4 DEF Abstract!Find
<1>8. CASE CollectFails
  <2>1. /\ {i \in Items : stage'[i] \in {"found", "answered", "recording"}} = {}
        /\ {i \in Items : stage'[i] = "recorded"} = {}
    BY <1>8 DEF CollectFails
  <2>2. /\ collect # "running" /\ collect' = "failed"
        /\ collect \in {"idle", "running", "returned", "failed"}
    BY <1>0, <1>8 DEF CollectFails, Flow, FlowTypes
  <2> QED
    BY <2>1, <2>2 DEF Abstract!Next, Abstract!FindFails
<1>9. CASE CollectReturns
  <2>1. \A k \in Kinds : gatherer[k] = "done" /\ Recording(k) = {}
    BY <1>0, <1>9 DEF CollectReturns, Flow, NoSendOnClosed
  <2>2. \A i \in Items : stage[i] \notin {"found", "answered", "recording"}
    BY <1>0, <2>1, DoneIsDone, ItemType DEF Recording
  <2>3. {i \in Items : stage[i] \in {"found", "answered", "recording"}} = {}
    BY <2>2
  <2> QED
    BY <1>9, <2>3 DEF CollectReturns, Abstract!Next, Abstract!Return
<1>10. CASE \/ \E k \in Kinds, a \in Arrays : Spawn(k, a)
            \/ \E k \in Kinds : CloseRecords(k) \/ CloseNames(k)
            \/ Tick \/ \E a \in Arrays : \E n \in Totals[a] : ChangeTotal(a, n)
            \/ UNCHANGED vars
  <2>1. UNCHANGED <<stage, collect>>
    BY <1>10 DEF Spawn, CloseRecords, CloseNames, Tick, ChangeTotal, vars
  <2> QED
    BY <1>2, <2>1
<1> QED
  BY <1>1, <1>3, <1>4, <1>5, <1>6, <1>7, <1>8, <1>9, <1>10, NextSteps DEF Abstract!Next

\* Performance collections implement Collection, whatever the arrays answer and
\* whatever the cached counts are: every item is settled exactly once, and Collect
\* returns after both pipelines.
THEOREM PerformanceRefinesCollection == Spec => PerformanceImplementsCollection
<1>1. Init => Abstract!Init
  BY DEF Init, Abstract!Init
<1> QED
  BY <1>1, PerformanceStepSettles, PerformanceInvariant, PTL
  DEF Spec, PerformanceImplementsCollection, Abstract!Spec
=============================================================================
