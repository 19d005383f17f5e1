------------------------- MODULE MCPowerMaxClients --------------------------
(* Two arrays behind three endpoints and two configurations, for TLC. *)
EXTENDS PowerMaxClients

CONSTANTS a1, a2, e1, e2, e3

TwoArrays == {a1, a2}
ThreeEndpoints == {e1, e2, e3}

Entry(p, s) == [primary |-> p, secondary |-> s]

\* The second configuration makes a1's secondary its primary and drops a2.
TwoConfigs == << [a \in TwoArrays |-> IF a = a1 THEN Entry(e1, e2) ELSE Entry(e2, NoEndpoint)],
                 [a \in {a1} |-> Entry(e2, e3)] >>
=============================================================================
