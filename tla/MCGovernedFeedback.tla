-------------------------- MODULE MCGovernedFeedback --------------------------
(* Instances of GovernedFeedback for TLC. *)
EXTENDS GovernedFeedback, TLC

CONSTANTS accepted, other, useful, unuseful, neutral, unrelated

(* The Outcome of an accepted Decision with each of its three kinds of     *)
(* value, and one of a Decision outside the eligibility.                   *)
MCOutcomes == {useful, unuseful, neutral, unrelated}

MCDecisionOf == [o \in MCOutcomes |-> IF o = unrelated THEN other ELSE accepted]

(* The adjustments of competitive_price_move_usefulness, in hundredths.    *)
MCAdjustment == useful :> 5 @@ unuseful :> -10 @@ unrelated :> 5

(* Proposers are all alike, and so are approvers.                          *)
Interchangeable == Permutations(Proposers) \cup Permutations(Approvers)
=============================================================================
