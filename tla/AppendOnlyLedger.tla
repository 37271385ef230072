--------------------------- MODULE AppendOnlyLedger ---------------------------
(***************************************************************************)
(* What the record store promises the readers of what is admitted under a  *)
(* key (live admissions, synthesised Briefs): a key holds no admission or  *)
(* one, whole, about the key's own request, and never replaces it.         *)
(***************************************************************************)

CONSTANTS
    Keys,
    Nothing,                \* no admission
    IsAdmission(_, _)       \* is this an admission of this key?

VARIABLE ledger

Init == ledger = [k \in Keys |-> Nothing]

Admit(k) ==
    /\ ledger[k] = Nothing
    /\ IsAdmission(k, ledger'[k])
    /\ ledger' = [ledger EXCEPT ![k] = ledger'[k]]

Next == \E k \in Keys : Admit(k)

Spec == Init /\ [][Next]_ledger
=============================================================================
