--------------------------- MODULE MCPolicyPath ---------------------------
(* Instances of PolicyPath for TLC. *)
EXTENDS PolicyPath, TLC

CONSTANTS a, b, c, MaxRules

ThreeServices == {a, b, c}

\* Every document with at most MaxRules rules.
SmallDocuments ==
  [rules : UNION {[1..n -> AllowRule] : n \in 0..MaxRules}, dflt : BOOLEAN]

DenyAll == [rules |-> <<>>, dflt |-> FALSE]

\* Services are interchangeable.
ServiceSymmetry == Permutations(Services)
=============================================================================
