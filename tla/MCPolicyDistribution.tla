----------------------- MODULE MCPolicyDistribution -----------------------
(* Instances of PolicyDistribution for TLC. *)
EXTENDS PolicyDistribution, TLC

CONSTANTS n1, n2, h1

OneNode    == {n1}
TwoNodes   == {n1, n2}
OneWriter  == {h1}

\* Nodes are interchangeable; used only where no liveness is checked.
NodeSymmetry == Permutations(TwoNodes)
=============================================================================
