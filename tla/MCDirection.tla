----------------------------- MODULE MCDirection -----------------------------
(* Instances of DirectionPackage for TLC: packages without any start.       *)
EXTENDS DirectionPackage, TLC

CONSTANTS b1, i1, p1, p2

NoCalls == [w \in Starts |-> Nothing]

Claim(id, cited) == [id |-> id, citations |-> cited, limitations |-> <<>>]

Direction(build, claims) ==
    [briefOf          |-> build,
     briefContract    |-> "ace.intelligence.brief/v1alpha1",
     decisionContract |-> "ace.core.decision/v1alpha1",
     claims           |-> claims,
     section          |-> <<"buyers">>,
     questions        |-> <<>>]

Price == Claim("price", <<"observation">>)

(* Direction about a build's Brief and about one nobody stored, the second *)
(* as full as it may be; one that says the same claim twice, one without   *)
(* evidence for it or a Decision, one without an audience, and one with a  *)
(* claim too many.                                                         *)
MCContents ==
    {Direction(b1, <<Price>>),
     [Direction(Nothing, <<Price, Claim("range", <<"plan", "observation">>)>>)
        EXCEPT !.questions = <<"when", "where">>],
     Direction(b1, <<Price, Price>>),
     [Direction(b1, <<Claim("price", <<>>)>>)
        EXCEPT !.decisionContract = "ace.intelligence.brief/v1alpha1"],
     [Direction(b1, <<Price>>) EXCEPT !.section = <<>>],
     Direction(b1, <<Price, Claim("range", <<"plan">>), Claim("plan", <<"plan">>)>>)}
=============================================================================
