-------------------------- MODULE MCCertLifecycle --------------------------
(* Instances of CertLifecycle for TLC. *)
EXTENDS CertLifecycle, TLC

CONSTANTS n1, n2, a, b, p1

TwoNodes    == {n1, n2}
TwoServices == {a, b}

\* A cluster of one node with two pods, both of a, one named like its service;
\* b is known from the hello alone.
OneNode    == {n1}
OwnPods    == {p1, a}
OwnService == p1 :> a @@ a :> a
OwnNode    == p1 :> n1 @@ a :> n1
OwnHello   == n1 :> {a, b}

\* One service; every agent sees all pods and names it.
OneService  == {a}
OnePod      == {p1}
WideService == p1 :> a
WideNode    == p1 :> n1
WideHello   == n1 :> {a} @@ n2 :> {a}

\* OnConnect's calls do not fail.
LoopsMayFail == {Rotation, API, Registry}
=============================================================================
