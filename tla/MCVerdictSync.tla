--------------------------- MODULE MCVerdictSync ---------------------------
(* Instances of VerdictSync for TLC. *)
EXTENDS VerdictSync, TLC

CONSTANTS a, b, x, y

TwoServices == {a, b}
PodIPs      == {x, y}

OnePodEach == {<<a, x>>, <<b, y>>}
\* An address goes from one service to the other.
SharedIP   == {<<a, x>>, <<b, x>>, <<b, y>>}

\* a may call b and nothing else is allowed.
OneWay   == [rules |-> <<[from |-> a, to |-> {b}]>>, dflt |-> FALSE]
BothWays == [rules |-> <<[from |-> a, to |-> {b}], [from |-> b, to |-> {a}]>>,
             dflt |-> FALSE]
\* Everything is allowed, except that a may call nobody.
Except   == [rules |-> <<[from |-> a, to |-> {}]>>, dflt |-> TRUE]

OnePolicy    == {OneWay}
TwoPolicies  == {OneWay, Except}
DenyPolicies == {OneWay, BothWays}
=============================================================================
