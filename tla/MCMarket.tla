------------------------------- MODULE MCMarket -------------------------------
(* Instances of DirectionPackage for TLC: starts that nobody makes packages *)
(* beside, for MarketBuilder.                                               *)
EXTENDS DirectionPackage, TLC

CONSTANTS w1, w2, w3, w4, b1, b2, i1, i2, i3

Reference == [build |-> b1, subject |-> b1, exact |-> TRUE, ports |-> Ports,
              evaluated |-> 1, expires |-> 2]

(* A start and its repetition, one repeated under a later authority use,   *)
(* and one whose authority use is for another build.                       *)
Repeated ==
    (w1 :> Reference)
    @@ (w2 :> Reference)
    @@ (w3 :> [Reference EXCEPT !.evaluated = 2, !.expires = 3])
    @@ (w4 :> [Reference EXCEPT !.subject = b2, !.evaluated = 4, !.expires = 5])
=============================================================================
