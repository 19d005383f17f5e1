-------------------------- MODULE MCCapacityMetrics --------------------------
(* Three arrays for two slots, and five volumes, for TLC. *)
EXTENDS CapacityMetrics

CONSTANTS v1, v2, v3, v4, v5, A, B, C

Vol(a, g, s, c, t, u) ==
    [array |-> a, group |-> g, srp |-> s, class |-> c, total |-> t, used |-> u]

FiveVolumes == {v1, v2, v3, v4, v5}

\* v1 and v2 share everything but the storage group; v3 shares names with them
\* on another array; v4 is on a third one; v5 has a malformed handle.
VolumeInfo ==
    [v \in FiveVolumes |->
        CASE v = v1 -> Vol(A, "g1", "s", "gold", 2, 1)
          [] v = v2 -> Vol(A, "g2", "s", "gold", 4, 3)
          [] v = v3 -> Vol(B, "g1", "s", "gold", 8, 5)
          [] v = v4 -> Vol(C, "g1", "s", "silver", 16, 11)
          [] v = v5 -> Vol(NoArray, "g1", "s", "gold", 32, 21)]
=============================================================================
