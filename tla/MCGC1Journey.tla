----------------------------- MODULE MCGC1Journey -----------------------------
(* Instances of GC1Journey for TLC. *)
EXTENDS GC1Journey, TLC

CONSTANTS k1, k2, s1, s2, s3, p1, p2, r1, r2

(* s1 and s3 are two versions of one scenario file, s2 teaches another key. *)
MCKeyOf == (s1 :> k1) @@ (s2 :> k2) @@ (s3 :> k1)

(* Everybody runs the same scenario. *)
SameScenario == [p \in Runs |-> s1]

(* The second prepare is started after the scenario file was edited. *)
EditedScenario == [p \in Runs |-> IF p = p2 THEN s3 ELSE s1]

(* The second prepare teaches another key into the same state file. *)
TwoScenarios == [p \in Runs |-> IF p = p2 THEN s2 ELSE s1]

=============================================================================
