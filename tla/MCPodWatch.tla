----------------------------- MODULE MCPodWatch -----------------------------
(* Instances of PodWatch for TLC. *)
EXTENDS PodWatch, TLC

CONSTANTS p, q, a, b, x, y

TwoPods     == {p, q}
TwoServices == {a, b}
TwoAddrs    == {x, y}
OneInCIDR   == {x}

\* Pods and services are interchangeable; the addresses are not.
NameSymmetry == Permutations(Pods) \cup Permutations(Services)
=============================================================================
