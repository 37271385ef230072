---------------------------- MODULE MCLiveIngress ----------------------------
(* Instances of LiveIngress for TLC. *)
EXTENDS LiveIngress, TLC

CONSTANTS w1, w2, w3, w4, w5, q1, q2, q3, q4, k1

MCRequests == {q1, q2, q3, q4}

(* Every request is made under the same product and idempotency key. *)
OneKey == [q \in MCRequests |-> k1]

(* Every run makes the same request. *)
SameRequest == [w \in Workers |-> q1]

(* A request and its repetition, another one for the same key, one the     *)
(* adapter does not serve, and one out of scope.                           *)
Rivals == (w1 :> q1) @@ (w2 :> q1) @@ (w3 :> q2) @@ (w4 :> q3) @@ (w5 :> q4)

=============================================================================
