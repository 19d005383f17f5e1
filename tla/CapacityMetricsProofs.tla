------------------------ MODULE CapacityMetricsProofs ------------------------
(***************************************************************************)
(* One capacity collection for any finite set of volumes and any number of *)
(* slots: no send on a closed channel, slots that match the workers, and   *)
(* the promise of Collection.                                              *)
(***************************************************************************)
EXTENDS CapacityMetrics, FiniteSetTheorems, TLAPS

\* There are finitely many arrays, as there are finitely many volumes.
LEMMA ArraysFinite == IsFiniteSet(Arrays) /\ Cardinality(Arrays) \in Nat
<1> DEFINE images == {Info[v].array : v \in Volumes}
           f == [v \in Volumes |-> Info[v].array]
<1>1. f \in Surjection(Volumes, images)
  BY DEF Surjection
<1>2. IsFiniteSet(images)
  BY <1>1, FS_Surjection, VolumesAssumption
<1>3. IsFiniteSet(Arrays)
  BY <1>2, FS_Subset DEF Arrays
<1> QED
  BY <1>3, FS_CardinalityType

\* A subset of the arrays loses, gains or keeps array a.
LEMMA ArraySubsets ==
    ASSUME NEW S \in SUBSET Arrays
    PROVE  /\ Cardinality(S) \in 0 .. Cardinality(Arrays)
           /\ Cardinality(S) = 0 <=> S = {}
           /\ \A a : a \notin S => Cardinality(S \cup {a}) = Cardinality(S) + 1
           /\ \A a \in S : Cardinality(S \ {a}) = Cardinality(S) - 1
<1>1. IsFiniteSet(S) /\ Cardinality(S) \in Nat /\ Cardinality(S) <= Cardinality(Arrays)
  BY ArraysFinite, FS_Subset, FS_CardinalityType
<1>2. Cardinality(S) \in 0 .. Cardinality(Arrays)
  BY <1>1, ArraysFinite
<1>3. Cardinality(S) = 0 <=> S = {}
  BY <1>1, FS_EmptySet
<1>4. \A a : a \notin S => Cardinality(S \cup {a}) = Cardinality(S) + 1
  BY <1>1, FS_AddElement
<1>5. \A a \in S : Cardinality(S \ {a}) = Cardinality(S) - 1
  BY <1>1, FS_RemoveElement
<1> QED
  BY <1>2, <1>3, <1>4, <1>5

-----------------------------------------------------------------------------
\* The workers that hold a slot.
Holders == {a \in Arrays : worker[a] \in {"started", "sending", "leaving"}}

\* The steps after which WaitGroup and semaphore are what they were.
Uncounting ==
    \/ \E pvs \in SUBSET Volumes : Collect(pvs)
    \/ \E a \in Arrays : \/ \E S \in SUBSET records[a] : Query(a, S)
                         \/ \E v \in records[a] : SendRecord(a, v)
    \/ SendEmpty \/ EndOfArrays \/ CloseRecords
    \/ UNCHANGED gatherVars

\* Every other step of Next counts a worker in or out.
LEMMA NextCounts ==
    [Next]_vars =>
        \/ Uncounting
        \/ Acquire
        \/ \E a \in Arrays : NextArray(a) \/ NoClient(a) \/ WorkerDone(a) \/ Release(a)
  BY DEF Next, vars, Uncounting, CollectFails, EndOfRecords, SpawnRecorder, RecordFails,
         RecordSucceeds, SendName, CloseNames, CollectReturns

\* The WaitGroup counts the workers with work to do and the semaphore those with
\* a slot, after every step.
LEMMA CountsStep ==
    CapacityInv /\ [Next]_vars
        => wg' = Cardinality(Counted') /\ sem' = Cardinality(Holders')
<1> SUFFICES ASSUME CapacityInv, [Next]_vars
             PROVE  wg' = Cardinality(Counted') /\ sem' = Cardinality(Holders')
  OBVIOUS
<1>0. /\ Counted \in SUBSET Arrays /\ wg = Cardinality(Counted)
      /\ Holders \in SUBSET Arrays /\ sem = Cardinality(Holders)
      /\ worker \in [Arrays -> WorkerStates]
      /\ gatherer = "acquire" => current \in Arrays \ todo /\ worker[current] = "none"
      /\ \A a \in todo : a \in Arrays /\ worker[a] = "none"
  BY DEF CapacityInv, TypeOK, SlotsMatchWorkers, PhasesFit, Counted, Holders
<1> USE DEF WorkerStates
<1>1. CASE Uncounting
  <2>1. wg' = wg /\ sem' = sem
    BY <1>1 DEF Uncounting, Collect, Query, SendRecord, SendEmpty, EndOfArrays,
                CloseRecords, gatherVars
  <2>2. \A a \in Arrays : /\ worker'[a] \in {"started", "sending"}
                               <=> worker[a] \in {"started", "sending"}
                          /\ worker'[a] = "leaving" <=> worker[a] = "leaving"
    BY <1>0, <1>1 DEF Uncounting, Collect, Query, SendRecord, SendEmpty, EndOfArrays,
                CloseRecords, gatherVars
  <2>3. CASE gatherer = "acquire" /\ UNCHANGED <<gatherer, current>>
    BY <1>0, <2>1, <2>2, <2>3 DEF Counted, Holders
  <2>4. CASE gatherer # "acquire" /\ gatherer' # "acquire"
    BY <1>0, <2>1, <2>2, <2>4 DEF Counted, Holders
  <2> QED
    BY <1>1, <2>3, <2>4 DEF Uncounting, Collect, Query, SendRecord, SendEmpty, EndOfArrays,
                CloseRecords, gatherVars, CapacityInv, PhasesFit
<1>2. CASE Acquire
  <2>1. Counted' = Counted /\ wg' = wg
    BY <1>0, <1>2 DEF Acquire, Counted
  <2>2. Holders' = Holders \cup {current} /\ current \notin Holders /\ sem' = sem + 1
    BY <1>0, <1>2 DEF Acquire, Holders
  <2> QED
    BY <1>0, <2>1, <2>2, ArraySubsets
<1>3. ASSUME NEW a \in Arrays, NextArray(a)
      PROVE  wg' = Cardinality(Counted') /\ sem' = Cardinality(Holders')
  <2>1. Counted' = Counted \cup {a} /\ a \notin Counted /\ wg' = wg + 1
    BY <1>0, <1>3 DEF NextArray, Counted
  <2>2. Holders' = Holders /\ sem' = sem
    BY <1>3 DEF NextArray, Holders
  <2> QED
    BY <1>0, <2>1, <2>2, ArraySubsets
<1>4. ASSUME NEW a \in Arrays, NoClient(a) \/ WorkerDone(a)
      PROVE  wg' = Cardinality(Counted') /\ sem' = Cardinality(Holders')
  <2>1. Counted' = Counted \ {a} /\ a \in Counted /\ wg' = wg - 1
    BY <1>0, <1>4 DEF NoClient, WorkerDone, Counted
  <2>2. Holders' = Holders /\ sem' = sem
    BY <1>0, <1>4 DEF NoClient, WorkerDone, Holders
  <2> QED
    BY <1>0, <2>1, <2>2, ArraySubsets
<1>5. ASSUME NEW a \in Arrays, Release(a)
      PROVE  wg' = Cardinality(Counted') /\ sem' = Cardinality(Holders')
  <2>1. Counted' = Counted /\ wg' = wg
    BY <1>0, <1>5 DEF Release, Counted
  <2>2. Holders' = Holders \ {a} /\ a \in Holders /\ sem' = sem - 1
    BY <1>0, <1>5 DEF Release, Holders
  <2> QED
    BY <1>0, <2>1, <2>2, ArraySubsets
<1> QED
  BY <1>1, <1>2, <1>3, <1>4, <1>5, NextCounts

-----------------------------------------------------------------------------
\* The invariant without the counts.
Fits == PhasesFit /\ ExportedFits /\ RecordsFit /\ NoSendOnClosed

\* Types that do not depend on the counts.
PlainTypes ==
    /\ gatherer \in {"idle", "spawn", "acquire", "wait", "done"}
    /\ todo \subseteq Arrays
    /\ current \in Arrays \cup {NoArray}
    /\ exported \in BOOLEAN
    /\ worker \in [Arrays -> WorkerStates]
    /\ records \in [Arrays -> SUBSET Volumes]
    /\ chClosed \in BOOLEAN
    /\ pusher \in {"range", "spawn", "done"}
    /\ received \subseteq Volumes \cup {Empty}
    /\ namesClosed \in BOOLEAN
    /\ collect \in {"find", "draining", "returned", "failed"}

\* Phases, workers and records fit together after every step of the gatherer,
\* of a worker and of Collect.
LEMMA GatherFits ==
    ASSUME CapacityInv,
           \/ \E pvs \in SUBSET Volumes : Collect(pvs)
           \/ \E a \in Arrays :
                \/ NextArray(a)
                \/ NoClient(a)
                \/ \E S \in SUBSET records[a] : Query(a, S)
                \/ \E v \in records[a] : SendRecord(a, v)
                \/ WorkerDone(a)
                \/ Release(a)
           \/ Acquire
           \/ SendEmpty
           \/ EndOfArrays
           \/ CloseRecords
    PROVE  PlainTypes' /\ Fits'
<1>0. PlainTypes /\ Fits
  BY DEF CapacityInv, TypeOK, PlainTypes, Fits
<1> USE <1>0 DEF PlainTypes, Fits, PhasesFit, ExportedFits, RecordsFit, NoSendOnClosed,
                 WorkerStates, pushVars
<1>1. ASSUME NEW pvs \in SUBSET Volumes, Collect(pvs) PROVE PlainTypes' /\ Fits'
  <2>1. todo' \subseteq Arrays
    BY <1>1 DEF Collect, Arrays
  <2>2. records' \in [Arrays -> SUBSET Volumes]
    BY <1>1 DEF Collect
  <2>3. \A a \in Arrays : /\ \A v \in records'[a] : Info[v].array = a
                          /\ a \notin todo' => records'[a] = {}
    BY <1>1 DEF Collect, Arrays
  <2>4. received = {} /\ ~exported
    BY <1>1 DEF Collect
  <2> QED
    BY <1>1, <2>1, <2>2, <2>3, <2>4 DEF Collect
<1>2. ASSUME NEW a \in Arrays, NextArray(a) PROVE PlainTypes' /\ Fits'
  BY <1>2 DEF NextArray
<1>3. ASSUME NEW a \in Arrays, NoClient(a) \/ WorkerDone(a) PROVE PlainTypes' /\ Fits'
  BY <1>3 DEF NoClient, WorkerDone
<1>4. ASSUME NEW a \in Arrays, NEW S \in SUBSET records[a], Query(a, S)
      PROVE  PlainTypes' /\ Fits'
  BY <1>4 DEF Query
<1>5. ASSUME NEW a \in Arrays, NEW v \in records[a], SendRecord(a, v)
      PROVE  PlainTypes' /\ Fits'
  BY <1>5 DEF SendRecord, Receive
<1>6. ASSUME NEW a \in Arrays, Release(a) PROVE PlainTypes' /\ Fits'
  BY <1>6 DEF Release
<1>7. CASE Acquire
  BY <1>7 DEF Acquire
<1>8. CASE SendEmpty
  BY <1>8 DEF SendEmpty, Receive
<1>9. CASE EndOfArrays
  BY <1>9 DEF EndOfArrays
<1>10. CASE CloseRecords
  <2>1. Counted = {}
    BY <1>10, ArraySubsets DEF CloseRecords, CapacityInv, Counted
  <2> QED
    BY <1>10, <2>1 DEF CloseRecords, Counted
<1> QED
  BY <1>1, <1>2, <1>3, <1>4, <1>5, <1>6, <1>7, <1>8, <1>9, <1>10

\* The same for the pusher, the recording goroutines and the end of Collect.
LEMMA PushFits ==
    ASSUME CapacityInv,
           \/ CollectFails
           \/ EndOfRecords
           \/ SpawnRecorder
           \/ RecordFails
           \/ RecordSucceeds
           \/ SendName
           \/ CloseNames
           \/ CollectReturns
           \/ UNCHANGED vars
    PROVE  PlainTypes' /\ Fits'
<1>0. PlainTypes /\ Fits
  BY DEF CapacityInv, TypeOK, PlainTypes, Fits
<1> USE <1>0 DEF PlainTypes, Fits, PhasesFit, ExportedFits, RecordsFit, NoSendOnClosed,
                 gatherVars, pushVars, vars
<1>1. CASE CollectFails \/ CollectReturns \/ UNCHANGED vars
  BY <1>1 DEF CollectFails, CollectReturns
<1>2. CASE EndOfRecords
  BY <1>2 DEF EndOfRecords
<1>3. CASE SpawnRecorder \/ RecordFails \/ RecordSucceeds \/ SendName
  BY <1>3 DEF SpawnRecorder, RecordFails, RecordSucceeds, SendName
<1>4. CASE CloseNames
  BY <1>4 DEF CloseNames
<1> QED
  BY <1>1, <1>2, <1>3, <1>4

\* A slot is taken only below the capacity of the semaphore.
LEMMA SlotsBounded ==
    CapacityInv /\ [Next]_vars /\ sem' \in Nat => sem' <= MaxPowerMaxConnections
<1> SUFFICES ASSUME CapacityInv, [Next]_vars, sem' \in Nat
             PROVE  sem' <= MaxPowerMaxConnections
  OBVIOUS
<1>1. sem \in Nat /\ sem <= MaxPowerMaxConnections /\ MaxPowerMaxConnections \in Nat
  BY MaxAssumption DEF CapacityInv, TypeOK
<1>2. sem' = sem \/ sem' = sem - 1 \/ (sem < MaxPowerMaxConnections /\ sem' = sem + 1)
  BY NextCounts DEF Uncounting, Collect, Query, SendRecord, SendEmpty, EndOfArrays,
     CloseRecords, gatherVars, Acquire, NextArray, NoClient, WorkerDone, Release
<1> QED
  BY <1>1, <1>2

\* Every step preserves the inductive invariant.
LEMMA CapacityStep == CapacityInv /\ [Next]_vars => CapacityInv'
<1> SUFFICES ASSUME CapacityInv, [Next]_vars PROVE CapacityInv'
  OBVIOUS
<1>1. PlainTypes' /\ Fits'
  BY GatherFits, PushFits DEF Next
<1>2. wg' = Cardinality(Counted') /\ sem' = Cardinality(Holders')
  BY CountsStep
<1>3. Counted' \in SUBSET Arrays /\ Holders' \in SUBSET Arrays
  BY DEF Counted, Holders
<1>4. wg' \in 0 .. Cardinality(Arrays) /\ sem' \in Nat
  BY <1>2, <1>3, ArraySubsets, ArraysFinite
<1>5. sem' <= MaxPowerMaxConnections
  BY <1>4, SlotsBounded
<1>6. TypeOK'
  BY <1>1, <1>4, <1>5, MaxAssumption DEF PlainTypes, TypeOK
<1>7. SlotsMatchWorkers'
  BY <1>2, <1>5 DEF SlotsMatchWorkers, Holders
<1> QED
  BY <1>1, <1>2, <1>6, <1>7 DEF CapacityInv, Fits

\* A new collection satisfies it: nobody is counted and nobody holds a slot.
LEMMA CapacityInit == Init => CapacityInv
<1> SUFFICES ASSUME Init PROVE CapacityInv
  OBVIOUS
<1>1. Counted = {} /\ Holders = {}
  BY DEF Init, Counted, Holders
<1>2. Cardinality({}) = 0
  BY FS_EmptySet
<1>3. TypeOK
  <2>1. worker \in [Arrays -> WorkerStates] /\ records \in [Arrays -> SUBSET Volumes]
    BY DEF Init, WorkerStates
  <2>2. wg \in 0 .. Cardinality(Arrays) /\ sem \in 0 .. MaxPowerMaxConnections
    BY ArraysFinite, MaxAssumption DEF Init
  <2> QED
    BY <2>1, <2>2 DEF Init, TypeOK
<1>4. SlotsMatchWorkers
  BY <1>1, <1>2, MaxAssumption DEF Init, SlotsMatchWorkers, Holders
<1>5. Fits
  BY DEF Init, Fits, PhasesFit, ExportedFits, RecordsFit, NoSendOnClosed
<1> QED
  BY <1>1, <1>2, <1>3, <1>4, <1>5 DEF Init, CapacityInv, Fits

\* The goroutines of a capacity collection keep step, for any volumes, arrays and
\* number of slots, whichever queries fail.
THEOREM CapacityInvariant == Spec => []CapacityInv
  BY CapacityInit, CapacityStep, PTL DEF Spec

\* No goroutine of a capacity collection sends on a closed channel.
THEOREM CapacityNoSendOnClosed == Spec => []NoSendOnClosed
<1>1. CapacityInv => NoSendOnClosed
  BY DEF CapacityInv
<1> QED
  BY <1>1, CapacityInvariant, PTL

\* At most MaxPowerMaxConnections workers hold a slot, and none is leaked.
THEOREM CapacitySlots == Spec => []SlotsMatchWorkers
<1>1. CapacityInv => SlotsMatchWorkers
  BY DEF CapacityInv
<1> QED
  BY <1>1, CapacityInvariant, PTL

-----------------------------------------------------------------------------
\* Nothing is unsent once the gatherer is done or before Collect.
LEMMA NothingUnsent ==
    ASSUME CapacityInv, gatherer \in {"idle", "done"} PROVE Unsent = {}
  BY DEF CapacityInv, TypeOK, WorkerStates, PhasesFit, RecordsFit, NoSendOnClosed, Unsent

\* Every step of a capacity collection is a step of Collection or one that
\* Collection does not see.
LEMMA CapacityStepSettles ==
    CapacityInv /\ [Next]_vars => [Abstract!Next]_(Abstract!vars)
<1> SUFFICES ASSUME CapacityInv, [Next]_vars
             PROVE  [Abstract!Next]_(Abstract!vars)
  OBVIOUS
<1>0. /\ worker \in [Arrays -> WorkerStates]
      /\ records \in [Arrays -> SUBSET Volumes]
      /\ PhasesFit /\ ExportedFits /\ NoSendOnClosed
      /\ exported \in BOOLEAN /\ namesClosed \in BOOLEAN
      /\ gatherer \in {"idle", "spawn", "acquire", "wait", "done"}
      /\ pusher \in {"range", "spawn", "done"}
      /\ collect \in {"find", "draining", "returned", "failed"}
  BY DEF CapacityInv, TypeOK
<1> USE <1>0 DEF PhasesFit, ExportedFits, NoSendOnClosed, WorkerStates, Abstract!vars, pushVars
<1>1. ASSUME NEW pvs \in SUBSET Volumes, Collect(pvs) PROVE Abstract!Find
  <2>1. Unsent' \subseteq Volumes \cup {Empty}
    BY DEF Unsent
  <2>2. received' = {} /\ ~namesClosed'
    BY <1>1 DEF Collect
  <2> QED
    BY <1>1, <2>1, <2>2 DEF Collect, Abstract!Find
<1>2. CASE CollectFails
  <2>1. Unsent' = {} /\ received' = {} /\ ~namesClosed'
    BY <1>2, NothingUnsent DEF CollectFails, Unsent, gatherVars
  <2> QED
    BY <1>2, <2>1 DEF CollectFails, Abstract!Next, Abstract!FindFails
<1>3. ASSUME NEW a \in Arrays, NextArray(a) PROVE UNCHANGED Abstract!vars
  <2>1. Unsent' = Unsent
    BY <1>3 DEF NextArray, Unsent
  <2> QED
    BY <1>3, <2>1 DEF NextArray
<1>4. CASE Acquire
  <2>1. \A a \in Arrays : worker'[a] \in {"leaving", "gone"} <=> worker[a] \in {"leaving", "gone"}
    BY <1>4 DEF Acquire
  <2>2. Unsent' = Unsent
    BY <1>4, <2>1 DEF Acquire, Unsent
  <2> QED
    BY <1>4, <2>2 DEF Acquire
<1>5. CASE EndOfArrays \/ CloseRecords
  <2>1. Unsent' = Unsent
    BY <1>5 DEF EndOfArrays, CloseRecords, Unsent
  <2> QED
    BY <1>5, <2>1 DEF EndOfArrays, CloseRecords
<1>6. ASSUME NEW a \in Arrays,
             NoClient(a) \/ (\E S \in SUBSET records[a] : Query(a, S)) \/ WorkerDone(a)
      PROVE  Abstract!Settle
  <2>1. \A b \in Arrays : /\ records'[b] \subseteq records[b]
                          /\ worker[b] \in {"leaving", "gone"} => worker'[b] \in {"leaving", "gone"}
    BY <1>6 DEF NoClient, Query, WorkerDone
  <2>2. UNCHANGED <<gatherer, todo, exported, received, namesClosed, collect>>
    BY <1>6 DEF NoClient, Query, WorkerDone
  <2>3. Unsent' \subseteq Unsent
    BY <2>1, <2>2 DEF Unsent
  <2>4. collect = "draining"
    BY <1>6 DEF NoClient, Query, WorkerDone
  <2> QED
    BY <2>2, <2>3, <2>4 DEF Abstract!Settle
<1>7. ASSUME NEW a \in Arrays, Release(a) PROVE UNCHANGED Abstract!vars
  <2>1. \A b \in Arrays : worker'[b] \in {"leaving", "gone"} <=> worker[b] \in {"leaving", "gone"}
    BY <1>7 DEF Release
  <2>2. Unsent' = Unsent
    BY <1>7, <2>1 DEF Release, Unsent
  <2> QED
    BY <1>7, <2>2 DEF Release
<1>8. ASSUME NEW a \in Arrays, NEW v \in records[a], SendRecord(a, v)
      PROVE  UNCHANGED Abstract!vars
  <2>1. ~namesClosed /\ received' = received \cup {v}
    BY <1>8 DEF SendRecord, Receive
  <2>2. \A b \in Arrays : records'[b] = IF b = a THEN records[a] \ {v} ELSE records[b]
    BY <1>8 DEF SendRecord
  <2>3. Unsent' \cup {v} = Unsent \cup {v} /\ v \in Unsent
    BY <1>8, <2>2 DEF SendRecord, Unsent
  <2> QED
    BY <1>8, <2>1, <2>3 DEF SendRecord
<1>9. CASE SendEmpty
  <2>1. ~namesClosed /\ received' = received \cup {Empty}
    BY <1>9 DEF SendEmpty, Receive
  <2>2. Unsent' \cup {Empty} = Unsent \cup {Empty} /\ Empty \in Unsent
    BY <1>9 DEF SendEmpty, Unsent
  <2> QED
    BY <1>9, <2>1, <2>2 DEF SendEmpty
<1>10. CASE EndOfRecords \/ SpawnRecorder \/ RecordFails \/ RecordSucceeds \/ SendName
             \/ UNCHANGED vars
  <2>1. UNCHANGED <<gatherVars, received, namesClosed, collect>>
    BY <1>10 DEF EndOfRecords, SpawnRecorder, RecordFails, RecordSucceeds, SendName, vars
  <2> QED
    BY <2>1 DEF Unsent, gatherVars
<1>11. CASE CloseNames
  <2>1. Unsent = {} /\ Unsent' = {}
    BY <1>11, NothingUnsent DEF CloseNames, Unsent, gatherVars
  <2>2. collect = "draining" /\ ~namesClosed /\ namesClosed' /\ UNCHANGED <<received, collect>>
    BY <1>11 DEF CloseNames
  <2> QED
    BY <2>1, <2>2 DEF Abstract!Next, Abstract!Settle
<1>12. CASE CollectReturns
  <2>1. Unsent = {} /\ Unsent' = {}
    BY <1>12, NothingUnsent DEF CollectReturns, Unsent, gatherVars
  <2> QED
    BY <1>12, <2>1 DEF CollectReturns, Abstract!Next, Abstract!Return
<1> QED
  BY <1>1, <1>2, <1>3, <1>4, <1>5, <1>6, <1>7, <1>8, <1>9, <1>10, <1>11, <1>12
  DEF Next, Abstract!Next

\* A capacity collection implements Collection, for any volumes and any number of
\* slots: what Collect found is recorded as part of its sums or dropped by its
\* worker, once, and Collect returns after that.
THEOREM CapacityRefinesCollection == Spec => CapacityImplementsCollection
<1>1. Init => Abstract!Init
  <2> SUFFICES ASSUME Init PROVE Abstract!Init
    OBVIOUS
  <2>1. Unsent = {}
    BY DEF Init, Unsent
  <2> QED
    BY <2>1 DEF Init, Abstract!Init
<1> QED
  BY <1>1, CapacityStepSettles, CapacityInvariant, PTL
  DEF Spec, CapacityImplementsCollection, Abstract!Spec
=============================================================================
