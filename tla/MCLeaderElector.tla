--------------------------- MODULE MCLeaderElector ---------------------------
(* The leader election of two replicas, for TLC. *)
EXTENDS LeaderElector
=============================================================================
