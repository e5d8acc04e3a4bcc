----------------------------- MODULE MCConduit -----------------------------
(* Instances of Conduit for TLC. *)
EXTENDS Conduit, TLC

CONSTANTS c1, c2, alert

TwoConns   == {c1, c2}
OneService == {alert}
=============================================================================
