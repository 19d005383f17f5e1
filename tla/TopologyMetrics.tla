--------------------------- MODULE TopologyMetrics ---------------------------
(***************************************************************************)
(* One collection of topology metrics (internal/service/metric/            *)
(* topology_metrics.go) together with the recorder that it calls:          *)
(* volumeServer, gatherTopologyMetrics and pushTopologyMetrics are three   *)
(* stages joined by channels, with a goroutine per volume in the last two; *)
(* RecordTopologyMetrics keeps the labels of every volume it has recorded  *)
(* and then follows the protocol of MetricsRecorder, so a collection       *)
(* blocks until the exporter's reader has run.                             *)
(*                                                                         *)
(* The channel of volumeServer holds all volumes, so its sends never wait  *)
(* and are not modelled as steps; the other two channels are unbuffered: a *)
(* send and its receive are one step.  The recorder's variables and        *)
(* actions are those of MetricsRecorder, with one call per volume.         *)
(***************************************************************************)
EXTENDS MetricsRecorder, VolumeFinder

CONSTANTS
    PVs,           \* the cluster's persistent volumes, a function on Calls
    Earlier,       \* the lists that an earlier collection may have seen
    Provisioners   \* values that PROVISIONER_NAMES may have

ASSUME PVsAssumption ==
    /\ DOMAIN PVs = Calls
    /\ \A l \in Earlier : DOMAIN l \subseteq Calls

VARIABLES
    driverNames,   \* VolumeFinder.DriverNames
    labels,        \* MetricsRecorderWrapper.Labels (and TopologyMetrics): a map
    stage,         \* how far each volume has come
    gathered,      \* the channel of gatherTopologyMetrics is closed
    pushed,        \* the channel of pushTopologyMetrics is closed
    collect

topologyVars == <<driverNames, labels, stage, gathered, pushed, collect>>
allVars == <<vars, topologyVars>>

Stages == {"none", "served", "gathering", "recording", "sending", "done"}

At(s) == {p \in Calls : stage[p] = s}

TopologyInit ==
    /\ Init
    /\ driverNames \in Provisioners
    /\ \E l \in Earlier :
         labels = [p \in GetPersistentVolumes(l, driverNames) |-> VolumeInfo(l[p])]
    /\ stage = [p \in Calls |-> "none"]
    /\ gathered = FALSE
    /\ pushed = FALSE
    /\ collect = "find"

-----------------------------------------------------------------------------
\* The configuration changes before this collection; a later change does not
\* reach it, because the list is filtered once.
UpdateProvisionerNames(value) ==
    /\ collect = "find"
    /\ driverNames' = ProvisionerNames(value, driverNames)
    /\ UNCHANGED <<vars, labels, stage, gathered, pushed, collect>>

\* Collect: GetPersistentVolumes, and the three stages are started ...
Collect ==
    /\ collect = "find"
    /\ collect' = "draining"
    /\ stage' = [p \in Calls |->
                    IF p \in GetPersistentVolumes(PVs, driverNames) THEN "served" ELSE "none"]
    /\ UNCHANGED <<vars, driverNames, labels, gathered, pushed>>

\* ... or the API server does not answer.
CollectFails ==
    /\ collect = "find"
    /\ collect' = "failed"
    /\ UNCHANGED <<vars, driverNames, labels, stage, gathered, pushed>>

\* gatherTopologyMetrics takes a volume and starts its goroutine.
GatherVolume(p) ==
    /\ stage[p] = "served"
    /\ stage' = [stage EXCEPT ![p] = "gathering"]
    /\ UNCHANGED <<vars, driverNames, labels, gathered, pushed, collect>>

\* That goroutine sends the record; pushTopologyMetrics starts another for it.
SendRecord(p) ==
    /\ stage[p] = "gathering"
    /\ stage' = [stage EXCEPT ![p] = "recording"]
    /\ UNCHANGED <<vars, driverNames, labels, gathered, pushed, collect>>

\* The plausible error of closing when the volumes are served, without wg.Wait.
MutCloseGatheredEarly ==
    /\ collect = "draining"
    /\ ~gathered
    /\ At("served") = {}
    /\ gathered' = TRUE
    /\ UNCHANGED <<vars, driverNames, labels, stage, pushed, collect>>

\* The volumes are used up and wg.Wait() has returned.
CloseGathered ==
    /\ collect = "draining"
    /\ ~gathered
    /\ At("served") = {} /\ At("gathering") = {}
    /\ gathered' = TRUE
    /\ UNCHANGED <<vars, driverNames, labels, stage, pushed, collect>>

-----------------------------------------------------------------------------
\* HaveLabelsChanged: the values of the current labels, brought up to date.
UpdatedLabels(current, new) ==
    [k \in DOMAIN current |-> IF k \in DOMAIN new THEN new[k] ELSE current[k]]

HaveLabelsChanged(current, new) == UpdatedLabels(current, new) # current

\* The plausible error of looking only for volumes that are new.
MutLabelsOnce(p, new) ==
    IF p \in DOMAIN labels THEN labels
    ELSE [q \in DOMAIN labels \cup {p} |-> IF q = p THEN new ELSE labels[q]]

\* updateLabels, initTopologyMetrics: labels are stored for a new volume and
\* replaced when a value has changed.
UpdateLabels(p, new) ==
    IF p \notin DOMAIN labels
    THEN [q \in DOMAIN labels \cup {p} |-> IF q = p THEN new ELSE labels[q]]
    ELSE IF HaveLabelsChanged(labels[p], new)
    THEN [labels EXCEPT ![p] = UpdatedLabels(@, new)]
    ELSE labels

\* RecordTopologyMetrics up to <-done: labels, then the callback, which may
\* fail to be registered.
RecordTopologyMetrics(p) ==
    /\ stage[p] = "recording"
    /\ Register(p) \/ RegisterFails(p)
    /\ labels' = UpdateLabels(p, VolumeInfo(PVs[p]))
    /\ UNCHANGED <<driverNames, stage, gathered, pushed, collect>>

\* The plausible error of calling wg.Done() only after a send.
MutForgetFailed(p) ==
    /\ stage[p] = "recording"
    /\ call[p] = "returned" /\ stage' = [stage EXCEPT ![p] = "sending"]
    /\ UNCHANGED <<vars, driverNames, labels, gathered, pushed, collect>>

\* RecordTopologyMetrics returns: after an error the goroutine is done, else it
\* sends to Collect.
RecordReturns(p) ==
    /\ stage[p] = "recording"
    /\ \/ call[p] = "returned" /\ stage' = [stage EXCEPT ![p] = "sending"]
       \/ call[p] = "failed" /\ stage' = [stage EXCEPT ![p] = "done"]
    /\ UNCHANGED <<vars, driverNames, labels, gathered, pushed, collect>>

SendToCollect(p) ==
    /\ stage[p] = "sending"
    /\ collect = "draining"
    /\ stage' = [stage EXCEPT ![p] = "done"]
    /\ UNCHANGED <<vars, driverNames, labels, gathered, pushed, collect>>

\* The plausible error of not counting the goroutines that record.
MutClosePushedEarly ==
    /\ gathered
    /\ ~pushed
    /\ At("sending") = {}
    /\ pushed' = TRUE
    /\ UNCHANGED <<vars, driverNames, labels, stage, gathered, collect>>

\* No more records, and wg.Wait() of pushTopologyMetrics has returned.
ClosePushed ==
    /\ gathered
    /\ ~pushed
    /\ At("recording") = {} /\ At("sending") = {}
    /\ pushed' = TRUE
    /\ UNCHANGED <<vars, driverNames, labels, stage, gathered, collect>>

CollectReturns ==
    /\ collect = "draining"
    /\ pushed
    /\ collect' = "returned"
    /\ UNCHANGED <<vars, driverNames, labels, stage, gathered, pushed>>

-----------------------------------------------------------------------------
\* What the recorder's calls, the reader and the exporter do on their own.
ExporterStep ==
    /\ \/ InitExporter \/ Read \/ ExportSucceeds \/ ExportFails \/ StopExporter
       \/ \E p \in Calls : ReceiveDone(p) \/ Unregister(p)
    /\ UNCHANGED topologyVars

CollectorStep ==
    \/ CloseGathered
    \/ ClosePushed
    \/ CollectReturns
    \/ \E p \in Calls :
        \/ GatherVolume(p)
        \/ SendRecord(p)
        \/ RecordTopologyMetrics(p)
        \/ RecordReturns(p)
        \/ SendToCollect(p)

TopologyNext ==
    \/ \E value \in Provisioners \cup {{}} : UpdateProvisionerNames(value)
    \/ Collect
    \/ CollectFails
    \/ CollectorStep
    \/ ExporterStep

TopologySpec == TopologyInit /\ [][TopologyNext]_allVars

\* The collection's goroutines go on; the recorder's fairness is its own.
TopologyFairSpec ==
    /\ TopologySpec
    /\ WF_allVars(CollectorStep)
    /\ WF_allVars(Read /\ UNCHANGED topologyVars)
    /\ WF_allVars((ExportSucceeds \/ ExportFails) /\ UNCHANGED topologyVars)
    /\ \A p \in Calls : /\ WF_allVars(ReceiveDone(p) /\ UNCHANGED topologyVars)
                        /\ WF_allVars(Unregister(p) /\ UNCHANGED topologyVars)

-----------------------------------------------------------------------------
\* The stages of a volume and the state of its call fit together, and nobody
\* is left who would send on a closed channel.
StagesFit ==
    /\ stage \in [Calls -> Stages]
    /\ \A p \in Calls : stage[p] \in {"none", "served", "gathering"} => call[p] = "idle"
    /\ \A p \in Calls : stage[p] = "sending" => call[p] = "returned"
    /\ \A p \in Calls : stage[p] = "done" => call[p] \in {"returned", "failed"}
    /\ gathered => At("served") \cup At("gathering") = {}
    /\ pushed => gathered /\ At("recording") \cup At("sending") = {}
    /\ collect = "returned" => pushed
    /\ collect \in {"find", "failed"} => ~gathered /\ At("none") = Calls

(***************************************************************************)
(* Topology collections and the recorder keep step: no goroutine of the    *)
(* three stages sends on a channel that another has closed, and a volume   *)
(* passes on only after its Record call (the inductive invariant).         *)
(***************************************************************************)
TopologyInv ==
    /\ collect \in {"find", "draining", "returned", "failed"}
    /\ gathered \in BOOLEAN
    /\ pushed \in BOOLEAN
    /\ StagesFit

\* Volumes that are found and neither recorded nor given up.
Unsettled == At("served") \cup At("gathering") \cup At("recording")

Settled == {p \in At("sending") \cup At("done") : call[p] = "returned"}

Abstract == INSTANCE Collection WITH
    Items    <- Calls,
    phase    <- CASE collect = "find" -> "idle"
                  [] collect = "draining" -> "collecting"
                  [] OTHER -> collect,
    pending  <- Unsettled,
    recorded <- Settled

(***************************************************************************)
(* A topology collection keeps the promise of Collection: every monitored  *)
(* volume is settled exactly once and Collect returns after the last one.  *)
(***************************************************************************)
TopologyImplementsCollection == Abstract!Spec

(***************************************************************************)
(* Collect comes back with a volume recorded only if a reader was there to *)
(* observe it: before InitExporter has succeeded a collection that found a *)
(* volume can only wait or fail (what Run's ExportReturns builds on).      *)
(***************************************************************************)
ReturnNeedsReader ==
    collect = "returned" /\ Settled # {} => provider \in {"ready", "stopped"}

(***************************************************************************)
(* While the provider stays installed, a topology collection ends, however *)
(* many of its exports fail (pushTopologyMetrics waits for every record).  *)
(***************************************************************************)
TopologyTerminates ==
    <>[](provider = "ready") => [](collect = "draining" => <>(collect = "returned"))

(***************************************************************************)
(* The labels kept for a volume are those of its last record, whether the  *)
(* volume is new, changed or unchanged since an earlier collection         *)
(* (updateLabels, HaveLabelsChanged), and others' labels are left alone.   *)
(* It is about the map: the callback observes with labels of its own.      *)
(***************************************************************************)
LabelsCurrent ==
    \A p \in Calls : call[p] # "idle" => p \in DOMAIN labels /\ labels[p] = VolumeInfo(PVs[p])
=============================================================================
