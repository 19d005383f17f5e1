-------------------------- MODULE MCTopologyMetrics --------------------------
(* Two monitored volumes, or another one, and two that never are, for TLC. *)
EXTENDS TopologyMetrics

CONSTANTS p1, p2, bare, unclaimed, foreign

PV(csi, claim, driver, phase, protocol) ==
    [csi |-> csi, claimRef |-> claim, driver |-> driver, phase |-> phase, protocol |-> protocol]

Cluster ==
    [p \in {p1, p2, bare, unclaimed, foreign} |->
        CASE p = p1        -> PV(TRUE, TRUE, "pmax", "Bound", "")
          [] p = p2        -> PV(TRUE, TRUE, "pmax", "Released", "FC")
          [] p = bare      -> PV(FALSE, TRUE, "pmax", "Bound", "")
          [] p = unclaimed -> PV(TRUE, FALSE, "pmax", "Available", "FC")
          [] p = foreign   -> PV(TRUE, TRUE, "other", "Bound", "FC")]

\* Before, p1 was as now and p2 still bound; or p1 was missing.
Bound(S) == [p \in S |-> PV(TRUE, TRUE, "pmax", "Bound", IF p = p1 THEN "" ELSE "FC")]

NoList == [p \in {} |-> PV(FALSE, FALSE, "", "", "")]
EarlierLists == {NoList, Bound({p1, p2}), Bound({p2})}
AllCalls == DOMAIN Cluster
=============================================================================
