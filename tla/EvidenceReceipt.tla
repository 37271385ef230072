--------------------------- MODULE EvidenceReceipt ---------------------------
(***************************************************************************)
(* What the GC1 state file promises its reader, with no files, processes   *)
(* or commands: one execution receipt, which is recorded once, as the      *)
(* evidence of a reviewed and materially used revision, and is completed   *)
(* once, by evidence about that same revision.                             *)
(***************************************************************************)

CONSTANT Blank      \* no receipt
VARIABLE receipt

Init == receipt = Blank

(* prepare: the recorded head is active with the revision that was used.   *)
Record ==
    /\ receipt = Blank
    /\ receipt'.phase = "prepared"
    /\ receipt'.head.lifecycle = "active"
    /\ receipt'.head.active = receipt'.revision
    /\ receipt'.firstUse = receipt'.revision

(* resume: everything recorded by prepare is carried over unchanged.       *)
Complete ==
    /\ receipt.phase = "prepared"
    /\ receipt'.phase = "complete"
    /\ receipt'.scenario = receipt.scenario
    /\ receipt'.revision = receipt.revision
    /\ receipt'.head = receipt.head
    /\ receipt'.firstUse = receipt.firstUse
    /\ receipt'.restartUse = receipt.revision
    /\ receipt'.retiredHead.lifecycle = "retired"
    /\ receipt'.denial # "none"

Next == Record \/ Complete

Spec == Init /\ [][Next]_receipt
=============================================================================
