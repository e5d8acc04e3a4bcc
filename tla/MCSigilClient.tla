--------------------------- MODULE MCSigilClient ---------------------------
(* Instances of SigilClient for TLC. *)
EXTENDS SigilClient, TLC

CONSTANTS r1, r2, r3, r4, node, svc

FourRoots == {r1, r2, r3, r4}
TwoNames  == {node, svc}
=============================================================================
