------------------------------ MODULE Collection ------------------------------
(***************************************************************************)
(* What a collection of metrics promises to its caller, ExportMetrics, for *)
(* all three kinds (MetricsCollector.Collect of base_metrics.go): it finds *)
(* some items, settles every one of them exactly once, by recording it or  *)
(* by dropping it because nobody answers for it, and returns only when all *)
(* are settled.  Nothing that it did not find is ever recorded, and        *)
(* nothing is recorded after it has returned.                              *)
(*                                                                         *)
(* The goroutines, channels and semaphores that do this are the subject of *)
(* CapacityMetrics, PerformanceMetrics and TopologyMetrics, which are      *)
(* shown to implement this specification.                                  *)
(***************************************************************************)
CONSTANT Items   \* what can be found: volumes, storage groups, "empty" records

VARIABLES
    phase,       \* of the last collection
    pending,     \* found and not settled
    recorded     \* handed to the recorder, whose Record... method has returned

vars == <<phase, pending, recorded>>

Init ==
    /\ phase = "idle"
    /\ pending = {}
    /\ recorded = {}

\* A collection starts when none is running.
Find ==
    /\ phase # "collecting"
    /\ phase' = "collecting"
    /\ pending' \subseteq Items
    /\ recorded' = {}

\* The list of volumes cannot be read: Collect returns the error.
FindFails ==
    /\ phase # "collecting"
    /\ phase' = "failed"
    /\ pending' = {}
    /\ recorded' = {}

\* Some pending items are settled: recorded, or dropped and never seen again.
Settle ==
    /\ phase = "collecting"
    /\ pending' \subseteq pending
    /\ recorded \subseteq recorded'
    /\ recorded' \ recorded \subseteq pending \ pending'
    /\ UNCHANGED phase

Return ==
    /\ phase = "collecting"
    /\ pending = {}
    /\ phase' = "returned"
    /\ UNCHANGED <<pending, recorded>>

Next == Find \/ FindFails \/ Settle \/ Return

Spec == Init /\ [][Next]_vars
=============================================================================
