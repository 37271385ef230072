----------------------------- MODULE MCLiveBridge -----------------------------
(* Instances of LiveBridge for TLC. *)
EXTENDS LiveBridge, TLC

CONSTANTS x1, x2, x3, w1, w2, w3, p4, k1, k2, t1, t2, d1, s1, s2

LiveDerivation == [derivation |-> d1, baseline |-> s1, current |-> s2,
                   revision |-> 1, requested |-> 0]

(* A call, the same by a bridge built anew, and a divergent one, which     *)
(* forges the time of a coordinate besides.                                *)
MCDeriveRequest ==
    [x \in Bridges |-> IF x = x3 THEN [LiveDerivation EXCEPT !.requested = 1]
                                 ELSE LiveDerivation]

MCBridgePack == [x \in Bridges |-> p4]

LiveRequest == [synthesis |-> k1, attempt |-> t1, derivation |-> d1,
                attention |-> d1, revision |-> 1, pack |-> p4]

(* A Brief, the same by a service built anew with ForbiddenProvider, and   *)
(* one of the PREPARED mode under a key of its own.                        *)
MCRequest ==
    (w1 :> LiveRequest)
    @@ (w2 :> LiveRequest)
    @@ (w3 :> [LiveRequest EXCEPT !.synthesis = k2, !.attempt = t2])

MCServicePack == [w \in Runs |-> p4]

MCArchive == [w \in Runs |-> <<>>]

MCProvider == [w \in Runs |-> IF w = w2 THEN "forbidden" ELSE "exact"]
=============================================================================
