------------------------ MODULE TopologyMetricsProofs ------------------------
(***************************************************************************)
(* A topology collection and the recorder it calls, for any set of         *)
(* persistent volumes: the composition is still a recorder, its stages and *)
(* the calls stay in step, and it implements Collection.                   *)
(***************************************************************************)
EXTENDS TopologyMetrics, MetricsRecorderProofs

\* Every step of the composition is a step of the recorder or leaves it alone.
LEMMA TopologyStepRecords == [TopologyNext]_allVars => [Next]_vars
<1> SUFFICES ASSUME [TopologyNext]_allVars PROVE [Next]_vars
  OBVIOUS
<1>1. CASE ExporterStep
  BY <1>1 DEF ExporterStep, Next
<1>2. ASSUME NEW p \in Calls, RecordTopologyMetrics(p) PROVE [Next]_vars
  BY <1>2 DEF RecordTopologyMetrics, Next
<1>3. ASSUME NEW p \in Calls,
             GatherVolume(p) \/ SendRecord(p) \/ RecordReturns(p) \/ SendToCollect(p)
      PROVE  UNCHANGED vars
  BY <1>3 DEF GatherVolume, SendRecord, RecordReturns, SendToCollect
<1>4. CASE CloseGathered \/ ClosePushed \/ CollectReturns \/ Collect \/ CollectFails
  BY <1>4 DEF CloseGathered, ClosePushed, CollectReturns, Collect, CollectFails
<1>5. ASSUME NEW value, UpdateProvisionerNames(value) PROVE UNCHANGED vars
  BY <1>5 DEF UpdateProvisionerNames
<1>6. CASE UNCHANGED allVars
  BY <1>6 DEF allVars
<1> QED
  BY <1>1, <1>2, <1>3, <1>4, <1>5, <1>6 DEF TopologyNext, CollectorStep

\* The recorder's bookkeeping holds under the calls that a topology collection
\* makes of it.
THEOREM TopologyRecorder == TopologySpec => []RecorderInv /\ []ReturnedIsAccounted
<1>1. TopologyInit => Init
  BY DEF TopologyInit
<1>2. TopologySpec => Spec
  BY <1>1, TopologyStepRecords, PTL DEF TopologySpec, Spec
<1> QED
  BY <1>2, RecorderInvariant, NothingVanishes, PTL

-----------------------------------------------------------------------------
\* The collection's part of the invariant, one step per action.
LEMMA TopologyStep == RecorderInv /\ TopologyInv /\ [TopologyNext]_allVars => TopologyInv'
<1> SUFFICES ASSUME RecorderInv, TopologyInv, [TopologyNext]_allVars PROVE TopologyInv'
  OBVIOUS
<1>0. call \in [Calls -> CallStates]
  BY DEF RecorderInv, TypeOK
<1> USE <1>0 DEF TopologyInv, StagesFit, Stages, At, CallStates
<1>1. ASSUME NEW value, UpdateProvisionerNames(value) PROVE TopologyInv'
  BY <1>1 DEF UpdateProvisionerNames, vars
<1>2. CASE Collect
  BY <1>2 DEF Collect, vars
<1>3. CASE CollectFails
  BY <1>3 DEF CollectFails, vars
<1>4. ASSUME NEW p \in Calls, GatherVolume(p) PROVE TopologyInv'
  BY <1>4 DEF GatherVolume, vars
<1>5. ASSUME NEW p \in Calls, SendRecord(p) PROVE TopologyInv'
  BY <1>5 DEF SendRecord, vars
<1>6. ASSUME NEW p \in Calls, RecordTopologyMetrics(p) PROVE TopologyInv'
  BY <1>6 DEF RecordTopologyMetrics, Register, RegisterFails
<1>7. ASSUME NEW p \in Calls, RecordReturns(p) PROVE TopologyInv'
  BY <1>7 DEF RecordReturns, vars
<1>8. ASSUME NEW p \in Calls, SendToCollect(p) PROVE TopologyInv'
  BY <1>8 DEF SendToCollect, vars
<1>9. CASE CloseGathered
  BY <1>9 DEF CloseGathered, vars
<1>10. CASE ClosePushed
  BY <1>10 DEF ClosePushed, vars
<1>11. CASE CollectReturns
  BY <1>11 DEF CollectReturns, vars
<1>12. CASE ExporterStep
  <2>1. CASE UNCHANGED call
    BY <1>12, <2>1 DEF ExporterStep, topologyVars
  <2>2. ASSUME NEW p \in Calls, ReceiveDone(p) \/ Unregister(p) PROVE TopologyInv'
    BY <1>12, <2>2 DEF ExporterStep, topologyVars, ReceiveDone, Unregister
  <2> QED
    BY <1>12, <2>1, <2>2
    DEF ExporterStep, InitExporter, Read, ExportSucceeds, ExportFails, StopExporter
<1>13. CASE UNCHANGED allVars
  BY <1>13 DEF allVars, topologyVars, vars
<1> QED
  BY <1>1, <1>2, <1>3, <1>4, <1>5, <1>6, <1>7, <1>8, <1>9, <1>10, <1>11, <1>12, <1>13
  DEF TopologyNext, CollectorStep

\* No goroutine of the three stages sends on a channel that another has closed,
\* whatever the volumes, the reader and the exporter do.
THEOREM TopologyInvariant == TopologySpec => []TopologyInv
<1>1. TopologyInit => TopologyInv
  BY DEF TopologyInit, Init, TopologyInv, StagesFit, Stages, At
<1> QED
  BY <1>1, TopologyStep, TopologyRecorder, PTL DEF TopologySpec

-----------------------------------------------------------------------------
\* Every step of the composition is a step of Collection or changes nothing that
\* Collection sees; only Collect, CollectFails, the ends of records and
\* CollectReturns do.
LEMMA TopologyStepSettles ==
    RecorderInv /\ TopologyInv /\ [TopologyNext]_allVars => [Abstract!Next]_(Abstract!vars)
<1> SUFFICES ASSUME RecorderInv, TopologyInv, [TopologyNext]_allVars
             PROVE  [Abstract!Next]_(Abstract!vars)
  OBVIOUS
<1>0. call \in [Calls -> CallStates]
  BY DEF RecorderInv, TypeOK
<1> USE <1>0 DEF TopologyInv, StagesFit, Stages, At, CallStates, Unsettled, Settled, Abstract!vars
<1>1. ASSUME NEW value, UpdateProvisionerNames(value) PROVE UNCHANGED Abstract!vars
  BY <1>1 DEF UpdateProvisionerNames, vars
<1>2. CASE Collect
  BY <1>2 DEF Collect, vars, Abstract!Next, Abstract!Find
<1>3. CASE CollectFails
  BY <1>3 DEF CollectFails, vars, Abstract!Next, Abstract!FindFails
<1>4. ASSUME NEW p \in Calls, GatherVolume(p) PROVE UNCHANGED Abstract!vars
  BY <1>4 DEF GatherVolume, vars
<1>5. ASSUME NEW p \in Calls, SendRecord(p) PROVE UNCHANGED Abstract!vars
  BY <1>5 DEF SendRecord, vars
<1>6. ASSUME NEW p \in Calls, RecordTopologyMetrics(p) PROVE UNCHANGED Abstract!vars
  BY <1>6 DEF RecordTopologyMetrics, Register, RegisterFails
<1>7. ASSUME NEW p \in Calls, RecordReturns(p) PROVE Abstract!Settle
  BY <1>7 DEF RecordReturns, vars, Abstract!Settle
<1>8. ASSUME NEW p \in Calls, SendToCollect(p) PROVE UNCHANGED Abstract!vars
  BY <1>8 DEF SendToCollect, vars
<1>9. CASE CloseGathered \/ ClosePushed
  BY <1>9 DEF CloseGathered, ClosePushed, vars
<1>10. CASE CollectReturns
  BY <1>10 DEF CollectReturns, vars, Abstract!Next, Abstract!Return
<1>11. CASE ExporterStep
  <2>1. CASE UNCHANGED call
    BY <1>11, <2>1 DEF ExporterStep, topologyVars
  <2>2. ASSUME NEW p \in Calls, ReceiveDone(p) \/ Unregister(p)
        PROVE  UNCHANGED Abstract!vars
    BY <1>11, <2>2 DEF ExporterStep, topologyVars, ReceiveDone, Unregister
  <2> QED
    BY <1>11, <2>1, <2>2
    DEF ExporterStep, InitExporter, Read, ExportSucceeds, ExportFails, StopExporter
<1>12. CASE UNCHANGED allVars
  BY <1>12 DEF allVars, topologyVars, vars
<1> QED
  BY <1>1, <1>2, <1>3, <1>4, <1>5, <1>6, <1>7, <1>8, <1>9, <1>10, <1>11, <1>12
  DEF TopologyNext, CollectorStep, Abstract!Next

\* A topology collection implements Collection, for any cluster: every monitored
\* volume is settled exactly once and Collect returns after the last one.
THEOREM TopologyRefinesCollection == TopologySpec => TopologyImplementsCollection
<1>1. TopologyInit => Abstract!Init
  BY DEF TopologyInit, Init, Abstract!Init, Unsettled, Settled, At
<1> QED
  BY <1>1, TopologyStepSettles, TopologyInvariant, TopologyRecorder, PTL
  DEF TopologySpec, TopologyImplementsCollection, Abstract!Spec

-----------------------------------------------------------------------------
\* Nothing is signalled or returned before the provider was ready.
SignalNeedsReader ==
    \/ provider \in {"ready", "stopped"}
    \/ \A c \in Calls : senders[c] = 0 /\ call[c] \notin {"unregistering", "returned"}

\* Only a reading makes a sender, and only a sender ends the wait.
LEMMA SignalStep == RecorderInv /\ SignalNeedsReader /\ [Next]_vars => SignalNeedsReader'
<1> SUFFICES ASSUME RecorderInv, SignalNeedsReader, [Next]_vars PROVE SignalNeedsReader'
  OBVIOUS
<1> USE DEF RecorderInv, TypeOK, CallStates, SignalNeedsReader
<1>1. CASE InitExporter \/ Read \/ ExportSucceeds \/ ExportFails \/ StopExporter
  BY <1>1 DEF InitExporter, Read, ExportSucceeds, ExportFails, StopExporter
<1>2. ASSUME NEW c \in Calls, Register(c) \/ RegisterFails(c) PROVE SignalNeedsReader'
  BY <1>2 DEF Register, RegisterFails
<1>3. ASSUME NEW c \in Calls, ReceiveDone(c) \/ Unregister(c) PROVE SignalNeedsReader'
  BY <1>3 DEF ReceiveDone, Unregister
<1>4. CASE UNCHANGED vars
  BY <1>4 DEF vars
<1> QED
  BY <1>1, <1>2, <1>3, <1>4 DEF Next

\* A topology collection comes back with a volume recorded only if an exporter's
\* reader was there to observe it.
THEOREM TopologyReturnNeedsReader == TopologySpec => []ReturnNeedsReader
<1>1. TopologyInit => SignalNeedsReader
  BY DEF TopologyInit, Init, SignalNeedsReader
<1>2. SignalNeedsReader => ReturnNeedsReader
  BY DEF SignalNeedsReader, ReturnNeedsReader, Settled, At
<1> QED
  BY <1>1, <1>2, SignalStep, TopologyStepRecords, TopologyRecorder, PTL DEF TopologySpec

-----------------------------------------------------------------------------
LabelNames == {"driver", "phase", "protocol"}

\* The map holds labels of the shape that VolumeInfo gives them.
LabelsWellFormed ==
    /\ labels = [q \in DOMAIN labels |-> labels[q]]
    /\ \A q \in DOMAIN labels :
         /\ DOMAIN labels[q] = LabelNames
         /\ labels[q] = [k \in LabelNames |-> labels[q][k]]

\* VolumeInfo as a function on the names of its labels.
LEMMA VolumeInfoShape ==
    ASSUME NEW pv
    PROVE  /\ DOMAIN VolumeInfo(pv) = LabelNames
           /\ VolumeInfo(pv) = [k \in LabelNames |-> VolumeInfo(pv)[k]]
  BY DEF VolumeInfo, LabelNames

\* Bringing labels up to date with labels of the same names replaces them.
LEMMA UpdatedLabelsReplace ==
    ASSUME NEW current, NEW new,
           DOMAIN current = LabelNames, DOMAIN new = LabelNames,
           new = [k \in LabelNames |-> new[k]]
    PROVE  UpdatedLabels(current, new) = new
  BY DEF UpdatedLabels

\* updateLabels stores the new labels of volume p whichever branch it takes, and
\* leaves the others alone.
LEMMA UpdateLabelsStores ==
    ASSUME LabelsWellFormed, NEW p, NEW pv
    PROVE  UpdateLabels(p, VolumeInfo(pv)) =
              [q \in DOMAIN labels \cup {p} |-> IF q = p THEN VolumeInfo(pv) ELSE labels[q]]
<1> DEFINE new == VolumeInfo(pv)
<1>1. DOMAIN new = LabelNames /\ new = [k \in LabelNames |-> new[k]]
  BY VolumeInfoShape
<1>2. CASE p \notin DOMAIN labels
  BY <1>2 DEF UpdateLabels
<1>3. CASE p \in DOMAIN labels
  <2>1. UpdatedLabels(labels[p], new) = new
    BY <1>1, <1>3, UpdatedLabelsReplace DEF LabelsWellFormed
  <2>2. CASE labels[p] = new
    BY <1>3, <2>1, <2>2 DEF UpdateLabels, HaveLabelsChanged, LabelsWellFormed
  <2>3. CASE labels[p] # new
    BY <1>3, <2>1, <2>3 DEF UpdateLabels, HaveLabelsChanged, LabelsWellFormed
  <2> QED
    BY <2>2, <2>3
<1> QED
  BY <1>2, <1>3

\* Only RecordTopologyMetrics writes labels and starts a call.
LEMMA LabelsStep ==
    /\ RecorderInv /\ LabelsWellFormed /\ LabelsCurrent
    /\ [TopologyNext]_allVars
    => LabelsWellFormed' /\ LabelsCurrent'
<1> SUFFICES ASSUME RecorderInv, LabelsWellFormed, LabelsCurrent, [TopologyNext]_allVars
             PROVE  LabelsWellFormed' /\ LabelsCurrent'
  OBVIOUS
<1>0. call \in [Calls -> CallStates]
  BY DEF RecorderInv, TypeOK
<1>1. ASSUME NEW p \in Calls, RecordTopologyMetrics(p)
      PROVE  LabelsWellFormed' /\ LabelsCurrent'
  <2>1. labels' = [q \in DOMAIN labels \cup {p} |->
                      IF q = p THEN VolumeInfo(PVs[p]) ELSE labels[q]]
    BY <1>1, UpdateLabelsStores DEF RecordTopologyMetrics
  <2>2. LabelsWellFormed'
    BY <2>1, VolumeInfoShape DEF LabelsWellFormed
  <2>3. \A q \in Calls : q # p => call'[q] = call[q]
    BY <1>0, <1>1 DEF RecordTopologyMetrics, Register, RegisterFails
  <2>4. LabelsCurrent'
    BY <2>1, <2>3 DEF LabelsCurrent
  <2> QED
    BY <2>2, <2>4
<1>2. ASSUME UNCHANGED labels, \A q \in Calls : call'[q] # "idle" => call[q] # "idle"
      PROVE  LabelsWellFormed' /\ LabelsCurrent'
  BY <1>2 DEF LabelsWellFormed, LabelsCurrent
<1>3. CASE ExporterStep
  BY <1>0, <1>2, <1>3
  DEF ExporterStep, topologyVars, InitExporter, Read, ExportSucceeds, ExportFails,
      StopExporter, ReceiveDone, Unregister
<1>4. CASE UNCHANGED <<labels, call>>
  BY <1>2, <1>4
<1>5. ASSUME NEW p \in Calls,
             GatherVolume(p) \/ SendRecord(p) \/ RecordReturns(p) \/ SendToCollect(p)
      PROVE  UNCHANGED <<labels, call>>
  BY <1>5 DEF GatherVolume, SendRecord, RecordReturns, SendToCollect, vars
<1>6. CASE CloseGathered \/ ClosePushed \/ CollectReturns \/ Collect \/ CollectFails
  BY <1>4, <1>6 DEF CloseGathered, ClosePushed, CollectReturns, Collect, CollectFails, vars
<1>7. ASSUME NEW value, UpdateProvisionerNames(value) PROVE UNCHANGED <<labels, call>>
  BY <1>7 DEF UpdateProvisionerNames, vars
<1>8. CASE UNCHANGED allVars
  BY <1>4, <1>8 DEF allVars, topologyVars, vars
<1> QED
  BY <1>1, <1>3, <1>4, <1>5, <1>6, <1>7, <1>8 DEF TopologyNext, CollectorStep

\* The labels kept for a recorded volume are its last ones, whatever an earlier
\* collection has left in the map.
THEOREM TopologyLabelsCurrent == TopologySpec => []LabelsCurrent
<1>1. TopologyInit => LabelsWellFormed
  BY VolumeInfoShape DEF TopologyInit, LabelsWellFormed
<1>2. TopologyInit => LabelsCurrent
  BY DEF TopologyInit, Init, LabelsCurrent
<1> QED
  BY <1>1, <1>2, LabelsStep, TopologyRecorder, PTL DEF TopologySpec
=============================================================================
