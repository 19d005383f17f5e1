----------------------------- MODULE VolumeFinder -----------------------------
(***************************************************************************)
(* VolumeFinder.GetPersistentVolumes (internal/k8s/volume_finder.go) and   *)
(* the update of its DriverNames (main.go): which of the cluster's         *)
(* persistent volumes are monitored, and what is known of them.            *)
(*                                                                         *)
(* A PersistentVolume is a record: csi and claimRef say whether the two    *)
(* optional parts are there, driver and protocol come from the CSI part,   *)
(* phase stands for everything of a volume that changes while it exists.   *)
(***************************************************************************)
EXTENDS FiniteSets

\* contains(f.DriverNames, volume.Spec.CSI.Driver), behind the two checks for
\* a part that is nil.
Monitored(pv, driverNames) ==
    /\ pv.csi
    /\ pv.claimRef
    /\ pv.driver \in driverNames

\* The VolumeInfo of a monitored volume, with the default for the protocol.
VolumeInfo(pv) ==
    [driver   |-> pv.driver,
     phase    |-> pv.phase,
     protocol |-> IF pv.protocol = "" THEN "N/A" ELSE pv.protocol]

\* GetPersistentVolumes over the cluster's list, a function from names.
GetPersistentVolumes(list, driverNames) ==
    {p \in DOMAIN list : Monitored(list[p], driverNames)}

\* updateProvisionerNames: an unset value leaves the names as they are.
ProvisionerNames(value, driverNames) ==
    IF value = {} THEN driverNames ELSE value
=============================================================================
