------------------------- MODULE MCPerformanceMetrics -------------------------
(* Two arrays, three storage groups and a malformed handle, for TLC. *)
EXTENDS PerformanceMetrics

CONSTANTS v1, v2, v3, v4, A, B

FourVolumes == {v1, v2, v3, v4}

\* No volume to ask for, two storage groups on one array, one on each of two.
Lists == {{v4}, {v1, v2}, {v1, v3, v4}}

VolumeInfo ==
    [v \in FourVolumes |->
        CASE v = v1 -> [array |-> A, group |-> "g1"]
          [] v = v2 -> [array |-> A, group |-> "g2"]
          [] v = v3 -> [array |-> B, group |-> "g1"]
          [] OTHER  -> [array |-> NoArray, group |-> "g1"]]

\* With one of four, bulkThresholdRatio is met exactly and not exceeded.
GroupTotals == [a \in {A, B} |-> IF a = A THEN {2, 4} ELSE {0}]

\* POWERMAX_MAX_CONCURRENT_QUERIES unset and too small to be used.
Settings == {<<>>, <<0>>}
=============================================================================
