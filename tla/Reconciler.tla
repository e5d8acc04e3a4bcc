---------------------------- MODULE Reconciler ----------------------------
(***************************************************************************)
(* What a component promises that follows a changing value: `wanted` is    *)
(* the value, `used` the copy of it in use, and `due` says that the        *)
(* component still owes a look at the value.  The copy may be old, but     *)
(* never without the component owing a look.                               *)
(***************************************************************************)
CONSTANT Values

VARIABLES wanted, used, due

vars == <<wanted, used, due>>

Init ==
  /\ wanted \in Values
  /\ used = wanted
  /\ due = FALSE

\* The value changes, or is only announced again; either way a look is due.
Change ==
  /\ wanted' \in Values
  /\ due' = TRUE
  /\ UNCHANGED used

\* The component looks; it may owe another look.
Look ==
  /\ used' = wanted
  /\ due' \in BOOLEAN
  /\ UNCHANGED wanted

Next == Change \/ Look

Spec == Init /\ [][Next]_vars

\* A copy that differs from the value is looked after.
NoLostChange == used # wanted => due

=============================================================================
