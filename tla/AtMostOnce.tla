---------------------------- MODULE AtMostOnce ----------------------------
(***************************************************************************)
(* What reporting by "send and forget" promises.  A job is reported when   *)
(* it ends or never; a report is in one place at a time, may be lost there,*)
(* and is counted at most once.  Losing it costs nobody anything else: a   *)
(* job that is over stays so and is not reported again to make up for it.  *)
(***************************************************************************)
EXTENDS Naturals

CONSTANT Jobs

VARIABLES
  over,     \* the jobs that have ended
  pending,  \* those whose report is on its way
  counted   \* how often the report of each has been counted

vars == <<over, pending, counted>>

Init ==
  /\ over = {}
  /\ pending = {}
  /\ counted = [j \in Jobs |-> 0]

\* Jobs end.
Progress == over \subseteq over' /\ over' \subseteq Jobs

\* One of them leaves a report.
Report(j) ==
  /\ Progress
  /\ j \in over' \ over
  /\ pending' = pending \cup {j}
  /\ UNCHANGED counted

\* Reports are lost, on their way or by not being made.
Lose ==
  /\ Progress
  /\ pending' \subseteq pending
  /\ UNCHANGED counted

Count(j) ==
  /\ j \in pending
  /\ pending' = pending \ {j}
  /\ counted' = [counted EXCEPT ![j] = @ + 1]
  /\ UNCHANGED over

Next == Lose \/ \E j \in Jobs : Report(j) \/ Count(j)

Spec == Init /\ [][Next]_vars

\* No report is counted twice, nor one of a job that goes on, nor one that is
\* still on its way.
CountedRight ==
  /\ \A j \in Jobs : counted[j] # 0 => counted[j] = 1 /\ j \in over \ pending
  /\ pending \subseteq over

=============================================================================
