--------------------------- MODULE MCBriefSynthesis ---------------------------
(* Instances of BriefSynthesis for TLC. *)
EXTENDS BriefSynthesis, TLC

CONSTANTS w1, w2, w3, w4, w5, p3, p4, k1, k2, t1, t2, d1

(* The request of the acceptance: revision 2 activates the newer Pack.     *)
Routed == [synthesis |-> k1, attempt |-> t1, derivation |-> d1,
           attention |-> d1, revision |-> 2, pack |-> p4]

(* Rivals: the request, the same from a service with the older Pack and a  *)
(* resolver that is wrong, one of another key with the same attempt key,   *)
(* one of the same key with another attempt key, so that two requests of   *)
(* one key both get as far as the append, and the request again, from a    *)
(* service whose provider drafts badly.                                    *)
OwnRequest ==
    (w1 :> Routed)
    @@ (w2 :> Routed)
    @@ (w3 :> [Routed EXCEPT !.synthesis = k2])
    @@ (w4 :> [Routed EXCEPT !.attempt = t2])
    @@ (w5 :> Routed)

ConfiguredPack == [w \in Runs |-> IF w = w2 THEN p3 ELSE p4]

WrongResolver == [w \in Runs |-> IF w = w2 THEN [p \in {p3, p4} |-> p3] ELSE <<>>]

Reviewed == [w \in Runs |-> IF w = w5 THEN "unknown_support" ELSE "exact"]

(* Administrators are alike; requests and configurations tell runs apart.  *)
Interchangeable == Permutations(Administrators)
=============================================================================
