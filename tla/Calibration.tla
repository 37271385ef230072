----------------------------- MODULE Calibration -----------------------------
(***************************************************************************)
(* What a feedback policy promises whoever reads its effective value: the  *)
(* value starts where the Pack says, moves by one declared adjustment at a *)
(* time, each counted from the value before it, and keeps its bounds.      *)
(***************************************************************************)
EXTENDS Integers

CONSTANTS
    Initial,
    Minimum,
    Maximum,
    Deltas          \* the adjustments the policy declares

VARIABLE value

Bounded(v) == IF v < Minimum THEN Minimum ELSE IF v > Maximum THEN Maximum ELSE v

Init == value = Initial

Adjust(delta) == value' = Bounded(value + delta)

Next == \E delta \in Deltas : Adjust(delta)

Spec == Init /\ [][Next]_value
=============================================================================
