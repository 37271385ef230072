-------------------------- MODULE MCIntelligenceLoop --------------------------
(* An instance of IntelligenceLoop for TLC. *)
EXTENDS IntelligenceLoop, TLC

CONSTANTS w1, w2, w3, p3, p4, k1, k2, t1, t2, d1, d2, an, accepted, useful

(* The request of the acceptance: revision 2 activates the newer Pack.     *)
Routed == [synthesis |-> k1, attempt |-> t1, derivation |-> d1,
           attention |-> d1, revision |-> 2, pack |-> p4]

(* One run that makes the Brief, one that replays it as run_positive does, *)
(* with the older Pack configured, an archive of both and a provider that  *)
(* must not be called; and a request that binds the rollback to the older  *)
(* Pack.                                                                   *)
History ==
    [w \in Runs |->
        IF w = w3
        THEN [Routed EXCEPT !.synthesis = k2, !.attempt = t2, !.revision = 3,
                            !.derivation = d2, !.attention = d2, !.pack = p3]
        ELSE Routed]

HistoryPack == [w \in Runs |-> IF w = w1 THEN p4 ELSE p3]

HistoryArchive == [w \in Runs |-> IF w = w2 THEN [p \in {p3, p4} |-> p] ELSE <<>>]

HistoryProvider == [w \in Runs |-> IF w = w2 THEN "forbidden" ELSE "exact"]

(* One analyst reviews the Brief, decides about it and assembles the Case. *)
MCReviewed == [a \in Analysts |-> k1]

MCDecidedBy == [d \in Decisions |-> an]

MCDecisionOf == [o \in Outcomes |-> accepted]

MCAdjustment == useful :> 5
=============================================================================
