-------------------------- MODULE GC1Journey_proofs --------------------------
(***************************************************************************)
(* Proofs about GC1Journey for every set of runs, scenarios, keys and      *)
(* revisions, overlapping or not.                                          *)
(*                                                                         *)
(* The argument: the service only ever adds to what it has approved and    *)
(* retired, and every change of a head takes its generation one further    *)
(* (CoreOnlyGrows).  So what a receipt has recorded stays true of the      *)
(* service, whoever acts next, and a head whose generation is the recorded *)
(* one is the recorded head.  The inductive invariant IInv says how much   *)
(* of its evidence each draft has gathered by each command, and that every *)
(* inode that reads as a receipt is fully backed.                          *)
(***************************************************************************)
EXTENDS GC1Journey, TLAPS

-----------------------------------------------------------------------------
(* The inductive invariant *)

AfterFirstUse   == {"recheck", "open", "flush"}
AfterConfirm    == {"first_use"} \cup AfterFirstUse
AfterReview     == {"confirm"} \cup AfterConfirm
AfterTeach      == {"inspect", "review"} \cup AfterReview
AfterObserve    == {"probe", "stage", "stage_flush"}
AfterRetire     == {"observe"} \cup AfterObserve
AfterRestartUse == {"retire"} \cup AfterRetire

(* The recorded head is the current one, or one of an earlier generation.  *)
HeadSeen(receipt) ==
    LET h == head[KeyOf[receipt.scenario]]
    IN  /\ h.generation >= receipt.head.generation
        /\ h.generation = receipt.head.generation => h = receipt.head

Recorded(receipt) ==
    /\ receipt.scenario \in Scenarios
    /\ Prepared(receipt)
    /\ HeadSeen(receipt)

DraftBacked(p) ==
    /\ pc[p] \in PrepareSteps \cup ResumeSteps => draft[p].scenario \in Scenarios
    /\ pc[p] \in AfterTeach => /\ draft[p].revision \in Revisions
                               /\ proposedFor[draft[p].revision] = Key(p)
    /\ pc[p] \in AfterReview => draft[p].revision \in approved
    /\ pc[p] \in AfterConfirm => /\ draft[p].head.lifecycle = "active"
                                 /\ draft[p].head.active = draft[p].revision
                                 /\ HeadSeen(draft[p])
    /\ pc[p] \in AfterFirstUse \cup ResumeSteps => Recorded(draft[p])
    /\ pc[p] \in AfterRestartUse => draft[p].restartUse = draft[p].revision
    /\ pc[p] \in AfterRetire =>
         <<Key(p), draft[p].head.generation>> \in retirements
    /\ pc[p] \in AfterObserve => 
         /\ draft[p].retiredHead.lifecycle = "retired"
         /\ draft[p].retiredHead.generation > draft[p].head.generation

DiskBacked(i) ==
    /\ disk[i].phase \in {"prepared", "complete"} => Recorded(disk[i])
    /\ disk[i].phase = "complete" => Completed(disk[i])

RetirementsPast ==
    \A k \in Keys, g \in Nat : <<k, g>> \in retirements => head[k].generation > g

IInv ==
    /\ TypeOK
    /\ RetirementsPast
    /\ \A p \in Runs : DraftBacked(p)
    /\ \A i \in Runs : DiskBacked(i)

(* What any step does to the service. *)
CoreGrows ==
    /\ approved \subseteq approved'
    /\ retirements \subseteq retirements'
    /\ \A r \in Revisions : proposedFor[r] # None => proposedFor'[r] = proposedFor[r]
    /\ \A k \in Keys : \/ head'[k] = head[k]
                       \/ head'[k].generation = head[k].generation + 1

-----------------------------------------------------------------------------
(* Types *)

LEMMA BlankType == Blank \in Receipts /\ Torn \in Receipts
BY DEF Blank, Torn, NoHead, Receipts, Heads, Lifecycles, Denials

(* TypeOK becomes inductive with the scenario and proposal of a live run.  *)
Typed ==
    /\ TypeOK
    /\ \A p \in Runs : Live(p) => draft[p].scenario = ScenarioOf[p]
    /\ \A p \in Runs : pc[p] \in AfterTeach => draft[p].revision \in Revisions

LEMMA KeyType ==
    ASSUME Typed, NEW p \in Runs, Live(p)
    PROVE  Key(p) \in Keys
BY JourneyAssumption DEF Typed, Key

(* One run's step keeps the types of pc and draft. *)
LEMMA AdvanceType ==
    ASSUME Typed, NEW p \in Runs, NEW from, NEW ok \in BOOLEAN, NEW filled \in Receipts,
           NEW to \in PrepareSteps \cup ResumeSteps \cup Ended,
           ok => filled.scenario = ScenarioOf[p],
           ok /\ to \in AfterTeach => filled.revision \in Revisions,
           Advance(p, from, ok, to, filled)
    PROVE  /\ pc' \in [Runs -> {"idle"} \cup PrepareSteps \cup ResumeSteps \cup Ended]
           /\ draft' \in [Runs -> Receipts]
           /\ disturbed' \in BOOLEAN
           /\ \A q \in Runs : Live(q)' => draft'[q].scenario = ScenarioOf[q]
           /\ \A q \in Runs : pc'[q] \in AfterTeach => draft'[q].revision \in Revisions
BY BlankType
DEF Advance, Typed, TypeOK, Ended, Live,
    AfterTeach, AfterReview, AfterConfirm, AfterFirstUse

LEMMA CoreType ==
    ASSUME CoreTypeOK, NEW k \in Keys, NEW r \in Revisions, NEW g \in Nat,
           NEW prompt \in Prompts,
           \/ Teach(k, r) \/ Approve(k, r, g) \/ Retire(k, g) \/ Use(k, prompt, r)
           \/ OtherOperator(k) \/ UNCHANGED coreVars
    PROVE  CoreTypeOK'
<1> USE DEF CoreTypeOK, Heads
<1>1. CASE Teach(k, r)      BY <1>1 DEF Teach
<1>2. CASE Approve(k, r, g) BY <1>2 DEF Approve, MoveHead, coreVars, Lifecycles
<1>3. CASE Retire(k, g)     BY <1>3 DEF Retire, MoveHead, coreVars, Lifecycles
<1>4. CASE Use(k, prompt, r) BY <1>4 DEF Use
<1>5. CASE OtherOperator(k)
  BY <1>5 DEF OtherOperator, OtherApproves, OtherRetires, OtherReactivates, MoveHead,
             Lifecycles
<1>6. CASE UNCHANGED coreVars BY <1>6 DEF coreVars
<1>7. QED BY <1>1, <1>2, <1>3, <1>4, <1>5, <1>6

LEMMA UnchangedCoreType == CoreTypeOK /\ UNCHANGED coreVars => CoreTypeOK'
BY DEF CoreTypeOK, coreVars

LEMMA StateFileType == TypeOK => StateFile \in Receipts
BY BlankType DEF TypeOK, StateFile

(* Steps that only advance a run, and steps that also write a file.        *)
LEMMA AdvanceTyped ==
    ASSUME Typed, NEW p \in Runs, NEW from, NEW ok \in BOOLEAN, NEW filled \in Receipts,
           NEW to \in PrepareSteps \cup ResumeSteps \cup Ended,
           ok => filled.scenario = ScenarioOf[p],
           ok /\ to \in AfterTeach => filled.revision \in Revisions,
           Advance(p, from, ok, to, filled), CoreTypeOK',
           /\ fd' \in [Runs -> Runs \cup {None}]
           /\ disk' \in [Runs -> Receipts]
           /\ statePath' \in Runs \cup {None}
           /\ tmpPath' \in Runs \cup {None}
    PROVE  Typed'
<1>1. /\ pc' \in [Runs -> {"idle"} \cup PrepareSteps \cup ResumeSteps \cup Ended]
      /\ draft' \in [Runs -> Receipts]
      /\ disturbed' \in BOOLEAN
      /\ \A q \in Runs : Live(q)' => draft'[q].scenario = ScenarioOf[q]
      /\ \A q \in Runs : pc'[q] \in AfterTeach => draft'[q].revision \in Revisions
  BY AdvanceType
<1>2. QED BY <1>1 DEF Typed, TypeOK

LEMMA FilesTyped ==
    ASSUME TypeOK, UNCHANGED fileVars
    PROVE  /\ fd' \in [Runs -> Runs \cup {None}]
           /\ disk' \in [Runs -> Receipts]
           /\ statePath' \in Runs \cup {None}
           /\ tmpPath' \in Runs \cup {None}
BY DEF TypeOK, fileVars

LEMMA PrepareTyped ==
    ASSUME Typed, NEW p \in Preparers, CheckAbsent(p) \/ PrepareStep(p)
    PROVE  Typed'
<1> USE JourneyAssumption
    DEF AfterTeach, AfterReview, AfterConfirm, AfterFirstUse, PrepareSteps
<1>1. p \in Runs /\ draft[p] \in Receipts /\ ScenarioOf[p] \in Scenarios /\ TypeOK
  BY DEF Runs, Typed, TypeOK
<1>2. Blank \in Receipts /\ Torn \in Receipts BY BlankType
<1>3. CASE CheckAbsent(p)
  <2>1. /\ [Blank EXCEPT !.scenario = ScenarioOf[p]] \in Receipts
        /\ [Blank EXCEPT !.scenario = ScenarioOf[p]].scenario = ScenarioOf[p]
    BY <1>1, <1>2 DEF Receipts
  <2>2. CoreTypeOK' BY <1>3, UnchangedCoreType DEF CheckAbsent, Typed, TypeOK
  <2>3. QED BY <1>1, <1>3, <2>1, <2>2, AdvanceTyped, FilesTyped DEF CheckAbsent
<1>4. ASSUME PrepareStep(p)
      PROVE  draft[p].scenario = ScenarioOf[p] /\ Key(p) \in Keys
  <2>1. Live(p)
    BY <1>4 DEF PrepareStep, TeachProposal, InspectProposal, ReviewApprove, ConfirmHead,
                FirstUse, RecheckAbsent, OpenStateFile, FlushStateFile, Advance, Live, Ended
  <2>2. QED BY <1>1, <2>1, KeyType DEF Typed
<1>5. CASE TeachProposal(p)
  <2>1. PICK r \in Revisions :
          /\ Teach(Key(p), r)
          /\ Advance(p, "teach", ~Selectable(r), "inspect", [draft[p] EXCEPT !.revision = r])
    BY <1>5 DEF TeachProposal
  <2>2. /\ [draft[p] EXCEPT !.revision = r] \in Receipts
        /\ [draft[p] EXCEPT !.revision = r].scenario = ScenarioOf[p]
        /\ [draft[p] EXCEPT !.revision = r].revision = r
    BY <1>1, <1>4, <1>5 DEF Receipts, PrepareStep
  <2>3. CoreTypeOK' BY <1>1, <1>4, <1>5, <2>1 DEF Teach, TypeOK, CoreTypeOK, PrepareStep
  <2>4. QED BY <1>1, <1>5, <2>1, <2>2, <2>3, AdvanceTyped, FilesTyped
            DEF TeachProposal, Selectable
<1>6. CASE InspectProposal(p)
  <2>1. CoreTypeOK' BY <1>1, <1>6, UnchangedCoreType DEF InspectProposal, TypeOK
  <2>2. draft[p].revision \in Revisions BY <1>1, <1>6 DEF InspectProposal, Advance, Typed
  <2>3. QED BY <1>1, <1>4, <1>6, <2>1, <2>2, AdvanceTyped, FilesTyped
            DEF InspectProposal, PrepareStep, Selectable
<1>7. CASE ReviewApprove(p)
  <2>1. draft[p].revision \in Revisions BY <1>1, <1>7 DEF ReviewApprove, Typed
  <2>2. CoreTypeOK'
    <3>1. CASE Approve(Key(p), draft[p].revision, 0)
      BY <1>1, <1>4, <1>7, <2>1, <3>1
      DEF PrepareStep, TypeOK, CoreTypeOK, Approve, MoveHead, coreVars, Heads, Lifecycles
    <3>2. CASE UNCHANGED coreVars BY <1>1, <3>2, UnchangedCoreType DEF TypeOK
    <3>3. QED BY <1>7, <3>1, <3>2 DEF ReviewApprove
  <2>3. \E ok \in BOOLEAN : Advance(p, "review", ok, "confirm", draft[p])
    BY <1>7 DEF ReviewApprove
  <2>4. QED BY <1>1, <1>4, <1>7, <2>1, <2>2, <2>3, AdvanceTyped, FilesTyped
            DEF ReviewApprove, PrepareStep
<1>8. CASE ConfirmHead(p)
  <2> DEFINE filled == [draft[p] EXCEPT !.head = head[Key(p)]]
  <2>1. head[Key(p)] \in Heads BY <1>1, <1>4, <1>8 DEF TypeOK, CoreTypeOK, PrepareStep
  <2>2. draft[p].revision \in Revisions BY <1>1, <1>8 DEF ConfirmHead, Typed
  <2>3. /\ filled \in Receipts
        /\ filled.scenario = ScenarioOf[p]
        /\ filled.revision \in Revisions
    BY <1>1, <1>4, <1>8, <2>1, <2>2 DEF Receipts, PrepareStep
  <2>4. CoreTypeOK' BY <1>1, <1>8, UnchangedCoreType DEF ConfirmHead, TypeOK
  <2>5. \E ok \in BOOLEAN : Advance(p, "confirm", ok, "first_use", filled)
    BY <1>8 DEF ConfirmHead
  <2> HIDE DEF filled
  <2>6. QED BY <1>1, <1>8, <2>3, <2>4, <2>5, AdvanceTyped, FilesTyped DEF ConfirmHead
<1>9. CASE FirstUse(p)
  <2>1. draft[p].revision \in Revisions BY <1>1, <1>9 DEF FirstUse, Typed
  <2>2. CASE \E r \in Revisions :
               /\ Use(Key(p), "fresh_use", r)
               /\ Advance(p, "first_use", r = draft[p].revision, "recheck",
                          [draft[p] EXCEPT !.firstUse = r])
    <3>1. PICK r \in Revisions :
               /\ Use(Key(p), "fresh_use", r)
               /\ Advance(p, "first_use", r = draft[p].revision, "recheck",
                          [draft[p] EXCEPT !.firstUse = r])
      BY <2>2
    <3> DEFINE filled == [draft[p] EXCEPT !.firstUse = r]
    <3>2. /\ filled \in Receipts
          /\ filled.scenario = ScenarioOf[p]
          /\ filled.revision \in Revisions
      BY <1>1, <1>4, <1>9, <2>1 DEF Receipts, PrepareStep
    <3>3. CoreTypeOK'
      BY <1>1, <1>4, <1>9, <3>1 DEF Use, TypeOK, CoreTypeOK, PrepareStep, Prompts
    <3>4. Advance(p, "first_use", r = draft[p].revision, "recheck", filled) BY <3>1
    <3> HIDE DEF filled
    <3>5. QED BY <1>1, <1>9, <3>2, <3>3, <3>4, AdvanceTyped, FilesTyped DEF FirstUse
  <2>3. CASE Advance(p, "first_use", FALSE, "recheck", draft[p]) /\ UNCHANGED coreVars
    BY <1>1, <1>4, <1>9, <2>1, <2>3, AdvanceTyped, FilesTyped, UnchangedCoreType
    DEF FirstUse, PrepareStep, TypeOK
  <2>4. QED BY <1>9, <2>2, <2>3 DEF FirstUse
<1>10. CASE RecheckAbsent(p)
  <2>1. CoreTypeOK' BY <1>1, <1>10, UnchangedCoreType DEF RecheckAbsent, TypeOK
  <2>2. draft[p].revision \in Revisions BY <1>1, <1>10 DEF RecheckAbsent, Advance, Typed
  <2>3. QED BY <1>1, <1>4, <1>10, <2>1, <2>2, AdvanceTyped, FilesTyped
            DEF RecheckAbsent, PrepareStep
<1>11. CASE OpenStateFile(p)
  <2>1. CoreTypeOK' BY <1>1, <1>11, UnchangedCoreType DEF OpenStateFile, TypeOK
  <2>2. draft[p].revision \in Revisions BY <1>1, <1>11 DEF OpenStateFile, Advance, Typed
  <2>3. /\ fd' \in [Runs -> Runs \cup {None}]
        /\ disk' \in [Runs -> Receipts]
        /\ statePath' \in Runs \cup {None}
        /\ tmpPath' \in Runs \cup {None}
    BY <1>1, <1>2, <1>11 DEF OpenStateFile, TypeOK
  <2>4. QED BY <1>1, <1>4, <1>11, <2>1, <2>2, <2>3, AdvanceTyped
            DEF OpenStateFile, PrepareStep
<1>12. CASE FlushStateFile(p)
  <2> DEFINE receipt == [draft[p] EXCEPT !.phase = "prepared"]
  <2>1. CoreTypeOK' BY <1>1, <1>12, UnchangedCoreType DEF FlushStateFile, TypeOK
  <2>2. receipt \in Receipts /\ receipt.scenario = ScenarioOf[p]
    BY <1>1, <1>4, <1>12 DEF Receipts, PrepareStep
  <2>3. Advance(p, "flush", TRUE, "done", receipt) BY <1>12 DEF FlushStateFile
  <2>4. PICK text \in Written(p, receipt) : disk' = [disk EXCEPT ![fd[p]] = text]
    BY <1>12 DEF FlushStateFile
  <2>5. text \in Receipts BY <1>2, <2>2, <2>4 DEF Written
  <2>6. disk' \in [Runs -> Receipts] BY <1>1, <2>4, <2>5 DEF TypeOK
  <2> HIDE DEF receipt
  <2>7. QED BY <1>1, <1>12, <2>1, <2>2, <2>3, <2>6, AdvanceTyped
            DEF FlushStateFile, TypeOK, Ended
<1>13. QED
  BY <1>3, <1>5, <1>6, <1>7, <1>8, <1>9, <1>10, <1>11, <1>12 DEF PrepareStep

LEMMA ResumeTyped ==
    ASSUME Typed, NEW p \in Resumers, LoadState(p) \/ ResumeStep(p)
    PROVE  Typed'
<1> USE JourneyAssumption
    DEF AfterTeach, AfterReview, AfterConfirm, AfterFirstUse, ResumeSteps
<1>1. p \in Runs /\ draft[p] \in Receipts /\ ScenarioOf[p] \in Scenarios /\ TypeOK
  BY DEF Runs, Typed, TypeOK
<1>2. Blank \in Receipts /\ Torn \in Receipts BY BlankType
<1>3. CASE LoadState(p)
  <2>1. CoreTypeOK' BY <1>1, <1>3, UnchangedCoreType DEF LoadState, TypeOK
  <2>2. StateFile \in Receipts BY <1>1, StateFileType
  <2>3. QED BY <1>1, <1>3, <2>1, <2>2, AdvanceTyped, FilesTyped DEF LoadState
<1>4. ASSUME ResumeStep(p)
      PROVE  draft[p].scenario = ScenarioOf[p] /\ Key(p) \in Keys
  <2>1. Live(p)
    BY <1>4 DEF ResumeStep, RereadHead, RestartUse, RetireHead, ObserveRetired,
                ProbeRefusal, OpenTemporary, FlushTemporary, Publish, Advance, Live, Ended
  <2>2. QED BY <1>1, <2>1, KeyType DEF Typed
<1>5. CASE RereadHead(p)
  <2>1. CoreTypeOK' BY <1>1, <1>5, UnchangedCoreType DEF RereadHead, TypeOK
  <2>2. \E ok \in BOOLEAN : Advance(p, "reread", ok, "restart_use", draft[p])
    BY <1>5 DEF RereadHead
  <2>3. QED BY <1>1, <1>4, <1>5, <2>1, <2>2, AdvanceTyped, FilesTyped
            DEF RereadHead, ResumeStep
<1>6. CASE RestartUse(p)
  <2>1. CASE \E r \in Revisions :
               /\ Use(Key(p), "restart_use", r)
               /\ Advance(p, "restart_use", r = draft[p].revision, "retire",
                          [draft[p] EXCEPT !.restartUse = r])
    <3>1. PICK r \in Revisions :
               /\ Use(Key(p), "restart_use", r)
               /\ Advance(p, "restart_use", r = draft[p].revision, "retire",
                          [draft[p] EXCEPT !.restartUse = r])
      BY <2>1
    <3> DEFINE filled == [draft[p] EXCEPT !.restartUse = r]
    <3>2. filled \in Receipts /\ filled.scenario = ScenarioOf[p]
      BY <1>1, <1>4, <1>6 DEF Receipts, ResumeStep
    <3>3. CoreTypeOK'
      BY <1>1, <1>4, <1>6, <3>1 DEF Use, TypeOK, CoreTypeOK, ResumeStep, Prompts
    <3>4. Advance(p, "restart_use", r = draft[p].revision, "retire", filled) BY <3>1
    <3> HIDE DEF filled
    <3>5. QED BY <1>1, <1>6, <3>2, <3>3, <3>4, AdvanceTyped, FilesTyped DEF RestartUse
  <2>2. CASE Advance(p, "restart_use", FALSE, "retire", draft[p]) /\ UNCHANGED coreVars
    BY <1>1, <1>4, <1>6, <2>2, AdvanceTyped, FilesTyped, UnchangedCoreType
    DEF RestartUse, ResumeStep, TypeOK
  <2>3. QED BY <1>6, <2>1, <2>2 DEF RestartUse
<1>7. CASE RetireHead(p)
  <2>1. draft[p].head.generation \in Nat BY <1>1 DEF Receipts, Heads
  <2>2. CoreTypeOK'
    <3>1. CASE Retire(Key(p), draft[p].head.generation)
      BY <1>1, <1>4, <1>7, <2>1, <3>1
      DEF ResumeStep, TypeOK, CoreTypeOK, Retire, MoveHead, coreVars, Heads, Lifecycles
    <3>2. CASE UNCHANGED coreVars BY <1>1, <3>2, UnchangedCoreType DEF TypeOK
    <3>3. QED BY <1>7, <3>1, <3>2 DEF RetireHead
  <2>3. \E ok \in BOOLEAN : Advance(p, "retire", ok, "observe", draft[p])
    BY <1>7 DEF RetireHead
  <2>4. QED BY <1>1, <1>4, <1>7, <2>2, <2>3, AdvanceTyped, FilesTyped
            DEF RetireHead, ResumeStep
<1>8. CASE ObserveRetired(p)
  <2> DEFINE filled == [draft[p] EXCEPT !.retiredHead = head[Key(p)]]
  <2>1. head[Key(p)] \in Heads BY <1>1, <1>4, <1>8 DEF TypeOK, CoreTypeOK, ResumeStep
  <2>2. filled \in Receipts /\ filled.scenario = ScenarioOf[p]
    BY <1>1, <1>4, <1>8, <2>1 DEF Receipts, ResumeStep
  <2>3. CoreTypeOK' BY <1>1, <1>8, UnchangedCoreType DEF ObserveRetired, TypeOK
  <2>4. \E ok \in BOOLEAN : Advance(p, "observe", ok, "probe", filled)
    BY <1>8 DEF ObserveRetired
  <2> HIDE DEF filled
  <2>5. QED BY <1>1, <1>8, <2>2, <2>3, <2>4, AdvanceTyped, FilesTyped DEF ObserveRetired
<1>9. CASE ProbeRefusal(p)
  <2>1. CASE \E r \in Revisions :
               /\ Use(Key(p), "post_retirement_use", r)
               /\ Advance(p, "probe", FALSE, "stage", draft[p])
    <3>1. CoreTypeOK'
      BY <1>1, <1>4, <1>9, <2>1 DEF Use, TypeOK, CoreTypeOK, ResumeStep, Prompts
    <3>2. QED BY <1>1, <1>9, <2>1, <3>1, AdvanceTyped, FilesTyped DEF ProbeRefusal
  <2>2. CASE \E code \in Denials \ {"none"} :
               /\ Advance(p, "probe", TRUE, "stage", [draft[p] EXCEPT !.denial = code])
               /\ UNCHANGED coreVars
    <3>1. PICK code \in Denials \ {"none"} :
               /\ Advance(p, "probe", TRUE, "stage", [draft[p] EXCEPT !.denial = code])
               /\ UNCHANGED coreVars
      BY <2>2
    <3> DEFINE filled == [draft[p] EXCEPT !.denial = code]
    <3>2. filled \in Receipts /\ filled.scenario = ScenarioOf[p]
      BY <1>1, <1>4, <1>9 DEF Receipts, ResumeStep
    <3>3. CoreTypeOK' BY <1>1, <3>1, UnchangedCoreType DEF TypeOK
    <3>4. Advance(p, "probe", TRUE, "stage", filled) BY <3>1
    <3> HIDE DEF filled
    <3>5. QED BY <1>1, <1>9, <3>2, <3>3, <3>4, AdvanceTyped, FilesTyped DEF ProbeRefusal
  <2>3. QED BY <1>9, <2>1, <2>2 DEF ProbeRefusal
<1>10. CASE OpenTemporary(p)
  <2>1. CoreTypeOK' BY <1>1, <1>10, UnchangedCoreType DEF OpenTemporary, TypeOK
  <2>2. /\ fd' \in [Runs -> Runs \cup {None}]
        /\ disk' \in [Runs -> Receipts]
        /\ statePath' \in Runs \cup {None}
        /\ tmpPath' \in Runs \cup {None}
    BY <1>1, <1>2, <1>10 DEF OpenTemporary, TypeOK
  <2>3. QED BY <1>1, <1>4, <1>10, <2>1, <2>2, AdvanceTyped
            DEF OpenTemporary, ResumeStep
<1>11. CASE FlushTemporary(p)
  <2> DEFINE receipt == [draft[p] EXCEPT !.phase = "complete"]
  <2>1. CoreTypeOK' BY <1>1, <1>11, UnchangedCoreType DEF FlushTemporary, TypeOK
  <2>2. receipt \in Receipts /\ receipt.scenario = ScenarioOf[p]
    BY <1>1, <1>4, <1>11 DEF Receipts, ResumeStep
  <2>3. Advance(p, "stage_flush", TRUE, "publish", receipt) BY <1>11 DEF FlushTemporary
  <2>4. PICK text \in Written(p, receipt) : disk' = [disk EXCEPT ![fd[p]] = text]
    BY <1>11 DEF FlushTemporary
  <2>5. text \in Receipts BY <1>2, <2>2, <2>4 DEF Written
  <2>6. disk' \in [Runs -> Receipts] BY <1>1, <2>4, <2>5 DEF TypeOK
  <2> HIDE DEF receipt
  <2>7. QED BY <1>1, <1>11, <2>1, <2>2, <2>3, <2>6, AdvanceTyped
            DEF FlushTemporary, TypeOK
<1>12. CASE Publish(p)
  <2>1. CoreTypeOK' BY <1>1, <1>12, UnchangedCoreType DEF Publish, TypeOK
  <2>2. /\ statePath' \in Runs \cup {None}
        /\ tmpPath' \in Runs \cup {None}
    BY <1>1, <1>12 DEF Publish, TypeOK
  <2>3. \E ok \in BOOLEAN : Advance(p, "publish", ok, "done", draft[p])
    BY <1>12 DEF Publish
  <2>4. QED BY <1>1, <1>4, <1>12, <2>1, <2>2, <2>3, AdvanceTyped
            DEF Publish, ResumeStep, TypeOK, Ended
<1>13. QED
  BY <1>3, <1>5, <1>6, <1>7, <1>8, <1>9, <1>10, <1>11, <1>12 DEF ResumeStep

LEMMA InitTyped == Init => Typed
<1> SUFFICES ASSUME Init PROVE Typed OBVIOUS
<1>1. CoreTypeOK BY DEF Init, CoreInit, CoreTypeOK, Heads, Lifecycles
<1>2. TypeOK BY <1>1, BlankType DEF Init, TypeOK
<1>3. \A p \in Runs : pc[p] = "idle" BY DEF Init
<1>4. QED BY <1>2, <1>3 DEF Typed, Live, AfterTeach, AfterReview, AfterConfirm, AfterFirstUse

LEMMA NextTyped == Typed /\ [Next]_vars => Typed'
<1> SUFFICES ASSUME Typed, [Next]_vars PROVE Typed' OBVIOUS
<1>1. ASSUME NEW p \in Preparers, CheckAbsent(p) \/ PrepareStep(p) PROVE Typed'
  BY <1>1, PrepareTyped
<1>2. ASSUME NEW p \in Resumers, LoadState(p) \/ ResumeStep(p) PROVE Typed'
  BY <1>2, ResumeTyped
<1>3. ASSUME NEW p \in Runs, Abandon(p) PROVE Typed'
  <2>1. CoreTypeOK' BY <1>3, UnchangedCoreType DEF Abandon, Typed, TypeOK
  <2>2. QED BY <1>3, <2>1, BlankType
            DEF Abandon, Typed, TypeOK, fileVars, Live, Ended,
                AfterTeach, AfterReview, AfterConfirm, AfterFirstUse
<1>4. ASSUME NEW k \in Keys, OtherActs(k) PROVE Typed'
  <2>1. CoreTypeOK'
    BY <1>4 DEF OtherActs, OtherOperator, OtherApproves, OtherRetires, OtherReactivates,
                MoveHead, Lifecycles, Typed, TypeOK, CoreTypeOK, Heads
  <2>2. QED BY <1>4, <2>1 DEF OtherActs, Typed, TypeOK, fileVars, Live
<1>5. CASE UNCHANGED vars
  <2>1. CoreTypeOK' BY <1>5, UnchangedCoreType DEF vars, Typed, TypeOK
  <2>2. QED BY <1>5, <2>1 DEF vars, Typed, TypeOK, Live
<1>6. QED BY <1>1, <1>2, <1>3, <1>4, <1>5 DEF Next

(* Every variable keeps its type: receipts on disk and in memory, heads,   *)
(* and the inodes that the paths and open files name.                      *)
THEOREM TypeCorrect == Spec => []TypeOK
<1>1. Typed => TypeOK BY DEF Typed
<1>2. QED BY <1>1, InitTyped, NextTyped, PTL DEF Spec

-----------------------------------------------------------------------------
(* The service only grows *)

LEMMA CommandGrows ==
    ASSUME CoreTypeOK, NEW k \in Keys, NEW r \in Revisions \cup {None}, NEW g \in Nat,
           NEW prompt,
           \/ Teach(k, r) \/ Approve(k, r, g) \/ Retire(k, g) \/ Use(k, prompt, r)
           \/ OtherOperator(k) \/ UNCHANGED coreVars
    PROVE  CoreGrows
<1> USE DEF CoreTypeOK, Heads, CoreGrows
<1>1. CASE Teach(k, r)       BY <1>1 DEF Teach
<1>2. CASE Approve(k, r, g)  BY <1>2 DEF Approve, MoveHead, coreVars
<1>3. CASE Retire(k, g)      BY <1>3 DEF Retire, MoveHead, coreVars
<1>4. CASE Use(k, prompt, r) BY <1>4 DEF Use
<1>5. CASE OtherOperator(k)
  BY <1>5 DEF OtherOperator, OtherApproves, OtherRetires, OtherReactivates, MoveHead
<1>6. CASE UNCHANGED coreVars BY <1>6 DEF coreVars
<1>7. QED BY <1>1, <1>2, <1>3, <1>4, <1>5, <1>6

(* What a receipt has recorded stays true while the service grows. *)
LEMMA RecordedStable ==
    ASSUME Typed, Typed', CoreGrows, NEW rec \in Receipts
    PROVE  Recorded(rec) => Recorded(rec)'
<1> SUFFICES ASSUME Recorded(rec) PROVE Recorded(rec)' OBVIOUS
<1>1. rec.scenario \in Scenarios /\ KeyOf[rec.scenario] \in Keys
  BY JourneyAssumption DEF Recorded
<1>2. rec.revision \in Revisions BY DEF Recorded, Prepared, Typed, TypeOK, CoreTypeOK
<1>3. Prepared(rec)'
  BY <1>1, <1>2, CoreAssumption DEF Recorded, Prepared, CoreGrows
<1>4. HeadSeen(rec)'
  <2>1. /\ head[KeyOf[rec.scenario]].generation \in Nat
        /\ rec.head.generation \in Nat
    BY <1>1 DEF Typed, TypeOK, CoreTypeOK, Heads, Receipts
  <2>2. QED BY <1>1, <2>1 DEF Recorded, HeadSeen, CoreGrows
<1>5. QED BY <1>1, <1>3, <1>4 DEF Recorded

LEMMA CompletedStable ==
    ASSUME CoreGrows, NEW rec \in Receipts
    PROVE  Completed(rec) => Completed(rec)'
BY DEF Completed, CoreGrows

LEMMA DiskStable ==
    ASSUME IInv, Typed, Typed', CoreGrows, NEW i \in Runs, disk'[i] = disk[i]
    PROVE  DiskBacked(i)'
<1>1. PICK rec \in Receipts : rec = disk[i] /\ rec = disk'[i]
  BY DEF Typed, TypeOK
<1>2. Recorded(rec) => Recorded(rec)'   BY RecordedStable
<1>3. Completed(rec) => Completed(rec)' BY CompletedStable
<1>4. DiskBacked(i) BY DEF IInv
<1>5. QED BY <1>1, <1>2, <1>3, <1>4 DEF DiskBacked, Recorded, Prepared, HeadSeen, Completed

LEMMA DraftStable ==
    ASSUME IInv, Typed, Typed', CoreGrows, NEW p \in Runs,
           pc'[p] = pc[p], draft'[p] = draft[p]
    PROVE  DraftBacked(p)'
<1>1. PICK rec \in Receipts : rec = draft[p] /\ rec = draft'[p]
  BY DEF Typed, TypeOK
<1>2. DraftBacked(p) BY DEF IInv
<1>3. Recorded(rec) => Recorded(rec)'   BY RecordedStable
<1>4. Key(p)' = Key(p) BY <1>1 DEF Key
<1>5. pc[p] \in AfterTeach => proposedFor'[draft[p].revision] = Key(p)
  <2> HAVE pc[p] \in AfterTeach
  <2>1. Live(p)
    BY DEF AfterTeach, AfterReview, AfterConfirm, AfterFirstUse, Live, Ended
  <2>2. Key(p) \in Keys BY <2>1, KeyType
  <2>3. QED BY <1>2, <2>2, CoreAssumption DEF DraftBacked, CoreGrows
<1>6. pc[p] \in AfterConfirm => HeadSeen(draft[p])'
  <2> HAVE pc[p] \in AfterConfirm
  <2>1. Live(p) BY DEF AfterConfirm, AfterFirstUse, Live, Ended
  <2>2. Key(p) \in Keys BY <2>1, KeyType
  <2>3. /\ head[Key(p)].generation \in Nat
        /\ draft[p].head.generation \in Nat
    BY <2>2 DEF Typed, TypeOK, CoreTypeOK, Heads, Receipts
  <2>4. HeadSeen(draft[p]) BY <1>2 DEF DraftBacked
  <2>5. QED BY <1>1, <2>2, <2>3, <2>4 DEF HeadSeen, CoreGrows, Key
<1>7. pc[p] \in AfterFirstUse \cup ResumeSteps => Recorded(draft[p])'
  BY <1>1, <1>2, <1>3 DEF DraftBacked, Recorded, Prepared, HeadSeen
<1>8. QED BY <1>1, <1>2, <1>4, <1>5, <1>6, <1>7 DEF DraftBacked, CoreGrows

LEMMA NextGrows == Typed /\ [Next]_vars => CoreGrows
<1> SUFFICES ASSUME Typed, [Next]_vars PROVE CoreGrows OBVIOUS
<1> USE JourneyAssumption
<1>1. TypeOK /\ CoreTypeOK BY DEF Typed, TypeOK
<1>2. CASE UNCHANGED coreVars BY <1>2 DEF coreVars, CoreGrows
<1>3. ASSUME NEW p \in Runs, pc[p] \in PrepareSteps \cup ResumeSteps
      PROVE  /\ Key(p) \in Keys
             /\ draft[p].revision \in Revisions \cup {None}
             /\ draft[p].head.generation \in Nat
  <2>1. Live(p) BY <1>3 DEF Live, Ended, PrepareSteps, ResumeSteps
  <2>2. QED BY <1>1, <1>3, <2>1, KeyType DEF TypeOK, Receipts, Heads
<1>4. ASSUME NEW p \in Preparers, CheckAbsent(p) \/ PrepareStep(p) PROVE CoreGrows
  <2> USE <1>4, <1>1, <1>3 DEF Runs, PrepareSteps
  <2>1. CASE TeachProposal(p) BY <2>1, CommandGrows DEF TeachProposal
  <2>2. CASE ReviewApprove(p) BY <1>2, <2>2, CommandGrows DEF ReviewApprove
  <2>3. CASE FirstUse(p)
    <3>1. CASE \E r \in Revisions : Use(Key(p), "fresh_use", r)
      BY <2>3, <3>1, CommandGrows DEF FirstUse
    <3>2. QED BY <1>2, <2>3, <3>1 DEF FirstUse
  <2>4. QED BY <1>2, <2>1, <2>2, <2>3
            DEF PrepareStep, CheckAbsent, InspectProposal, ConfirmHead, RecheckAbsent,
                OpenStateFile, FlushStateFile
<1>5. ASSUME NEW p \in Resumers, LoadState(p) \/ ResumeStep(p) PROVE CoreGrows
  <2> USE <1>5, <1>1, <1>3 DEF Runs, ResumeSteps
  <2>1. CASE RestartUse(p)
    <3>1. CASE \E r \in Revisions : Use(Key(p), "restart_use", r)
      BY <2>1, <3>1, CommandGrows DEF RestartUse
    <3>2. QED BY <1>2, <2>1, <3>1 DEF RestartUse
  <2>2. CASE RetireHead(p) BY <1>2, <2>2, CommandGrows DEF RetireHead
  <2>3. CASE ProbeRefusal(p)
    <3>1. CASE \E r \in Revisions : Use(Key(p), "post_retirement_use", r)
      BY <2>3, <3>1, CommandGrows DEF ProbeRefusal
    <3>2. QED BY <1>2, <2>3, <3>1 DEF ProbeRefusal
  <2>4. QED BY <1>2, <2>1, <2>2, <2>3
            DEF ResumeStep, LoadState, RereadHead, ObserveRetired, OpenTemporary,
                FlushTemporary, Publish
<1>6. ASSUME NEW p \in Runs, Abandon(p) PROVE CoreGrows BY <1>2, <1>6 DEF Abandon
<1>7. ASSUME NEW k \in Keys, OtherActs(k) PROVE CoreGrows
  BY <1>1, <1>7, CommandGrows DEF OtherActs
<1>8. QED BY <1>2, <1>4, <1>5, <1>6, <1>7 DEF Next, vars

(* A retired generation is never the current one again. *)
LEMMA NextRetirementsPast == Typed /\ RetirementsPast /\ [Next]_vars => RetirementsPast'
<1> SUFFICES ASSUME Typed, RetirementsPast, [Next]_vars PROVE RetirementsPast' OBVIOUS
<1> USE JourneyAssumption
<1>1. CoreGrows BY NextGrows
<1>2. ASSUME UNCHANGED retirements PROVE RetirementsPast'
  BY <1>1, <1>2 DEF RetirementsPast, CoreGrows, Typed, TypeOK, CoreTypeOK, Heads
<1>3. ASSUME NEW p \in Resumers, RetireHead(p) PROVE RetirementsPast'
  <2>1. p \in Runs /\ Live(p) BY <1>3 DEF Runs, RetireHead, Live, Ended
  <2>2. Key(p) \in Keys BY <2>1, KeyType
  <2> DEFINE g == draft[p].head.generation
  <2>3. g \in Nat BY <2>1 DEF Typed, TypeOK, Receipts, Heads
  <2>4. CASE /\ CanRetire(Key(p), g)
             /\ MoveHead(Key(p), head[Key(p)].active, "retired")
             /\ retirements' = retirements \cup {<<Key(p), g>>}
    <3>1. head'[Key(p)].generation = g + 1
      BY <2>2, <2>4 DEF CanRetire, MoveHead, Typed, TypeOK, CoreTypeOK
    <3> SUFFICES ASSUME NEW k \in Keys, NEW n \in Nat, <<k, n>> \in retirements'
                 PROVE  head'[k].generation > n
      BY DEF RetirementsPast
    <3>2. CASE <<k, n>> = <<Key(p), g>> BY <2>3, <3>1, <3>2
    <3>3. CASE <<k, n>> \in retirements
      <4>1. head[k].generation > n BY <3>3 DEF RetirementsPast
      <4>2. head[k].generation \in Nat BY DEF Typed, TypeOK, CoreTypeOK, Heads
      <4>3. head'[k].generation >= head[k].generation BY <1>1, <4>2 DEF CoreGrows
      <4>4. head'[k].generation \in Nat BY <1>1, <4>2 DEF CoreGrows
      <4>5. QED BY <4>1, <4>2, <4>3, <4>4
    <3>4. QED BY <2>4, <3>2, <3>3
  <2>5. QED BY <1>2, <1>3, <2>4 DEF RetireHead, Retire, coreVars
<1>4. CASE UNCHANGED retirements BY <1>2, <1>4
<1>5. QED
  BY <1>3, <1>4
  DEF Next, vars, PrepareStep, ResumeStep, CheckAbsent, TeachProposal, InspectProposal,
      ReviewApprove, ConfirmHead, FirstUse, RecheckAbsent, OpenStateFile, FlushStateFile,
      LoadState, RereadHead, RestartUse, ObserveRetired, ProbeRefusal, OpenTemporary,
      FlushTemporary, Publish, Abandon, OtherActs, OtherOperator, OtherApproves,
      OtherRetires, OtherReactivates, Teach, Approve, Use, coreVars

-----------------------------------------------------------------------------
(* Every run gathers its evidence *)

LEMMA EndedBacked ==
    ASSUME NEW p \in Runs, pc'[p] \in Ended
    PROVE  DraftBacked(p)'
BY DEF DraftBacked, Ended, PrepareSteps, ResumeSteps, AfterTeach, AfterReview,
       AfterConfirm, AfterFirstUse, AfterRestartUse, AfterRetire, AfterObserve

LEMMA PrepareBacked ==
    ASSUME IInv, Typed, Typed', CoreGrows, NEW p \in Preparers,
           CheckAbsent(p) \/ PrepareStep(p)
    PROVE  DraftBacked(p)'
<1> USE DEF AfterTeach, AfterReview, AfterConfirm, AfterFirstUse, AfterRestartUse,
            AfterRetire, AfterObserve
<1> USE JourneyAssumption
<1>1. p \in Runs /\ draft[p] \in Receipts /\ DraftBacked(p) /\ TypeOK
  BY DEF Runs, IInv, TypeOK
<1>2. DOMAIN pc = Runs /\ DOMAIN draft = Runs BY <1>1 DEF TypeOK
<1>3. CASE pc'[p] \in Ended BY <1>1, <1>3, EndedBacked
<1>4. CASE CheckAbsent(p) /\ pc'[p] \notin Ended
  <2>1. pc'[p] = "teach" /\ draft'[p].scenario = ScenarioOf[p]
    BY <1>1, <1>2, <1>4 DEF CheckAbsent, Advance, Ended, Blank
  <2>2. ScenarioOf[p] \in Scenarios BY <1>1
  <2>3. QED BY <2>1, <2>2 DEF DraftBacked, ResumeSteps
<1>5. ASSUME PrepareStep(p)
      PROVE  draft[p].scenario \in Scenarios /\ Key(p) \in Keys
  <2>1. pc[p] \in PrepareSteps
    BY <1>5 DEF PrepareStep, TeachProposal, InspectProposal, ReviewApprove, ConfirmHead,
                FirstUse, RecheckAbsent, OpenStateFile, FlushStateFile, Advance, PrepareSteps
  <2>2. draft[p].scenario \in Scenarios BY <1>1, <2>1 DEF DraftBacked
  <2>3. QED BY <2>2 DEF Key
<1>6. CASE TeachProposal(p) /\ pc'[p] \notin Ended
  <2>1. PICK r \in Revisions :
          /\ Teach(Key(p), r)
          /\ Advance(p, "teach", ~Selectable(r), "inspect", [draft[p] EXCEPT !.revision = r])
    BY <1>6 DEF TeachProposal
  <2>2. /\ pc'[p] = "inspect"
        /\ draft'[p].revision = r
        /\ draft'[p].scenario = draft[p].scenario
    BY <1>1, <1>2, <1>6, <2>1 DEF Advance, Ended, Receipts
  <2>3. proposedFor'[r] = Key(p) BY <1>1, <2>1 DEF Teach, TypeOK, CoreTypeOK
  <2>4. QED BY <1>5, <1>6, <2>2, <2>3 DEF DraftBacked, ResumeSteps, PrepareStep, Key
<1>7. CASE InspectProposal(p) /\ pc'[p] \notin Ended
  <2>1. pc[p] = "inspect" /\ pc'[p] = "review" /\ draft'[p] = draft[p]
    BY <1>1, <1>2, <1>7 DEF InspectProposal, Advance, Ended
  <2>2. UNCHANGED coreVars BY <1>7 DEF InspectProposal
  <2>3. QED BY <1>1, <1>5, <1>7, <2>1, <2>2
            DEF DraftBacked, ResumeSteps, PrepareStep, Key, coreVars
<1>8. CASE ReviewApprove(p) /\ pc'[p] \notin Ended
  <2>1. /\ pc[p] = "review" /\ pc'[p] = "confirm" /\ draft'[p] = draft[p]
        /\ Approve(Key(p), draft[p].revision, 0)
    BY <1>1, <1>2, <1>8 DEF ReviewApprove, Advance, Ended
  <2>2. /\ draft[p].revision \in Revisions
        /\ proposedFor[draft[p].revision] = Key(p)
    BY <1>1, <2>1 DEF DraftBacked
  <2>3. /\ proposedFor' = proposedFor
        /\ draft[p].revision \in approved'
    BY <1>1, <2>1 DEF Approve, coreVars, TypeOK, CoreTypeOK
  <2>4. QED BY <1>5, <1>8, <2>1, <2>2, <2>3 DEF DraftBacked, ResumeSteps, PrepareStep, Key
<1>9. CASE ConfirmHead(p) /\ pc'[p] \notin Ended
  <2> DEFINE h == head[Key(p)]
  <2>1. /\ pc[p] = "confirm" /\ pc'[p] = "first_use"
        /\ h.active = draft[p].revision /\ h.lifecycle = "active"
        /\ draft'[p] = [draft[p] EXCEPT !.head = h]
        /\ UNCHANGED coreVars
    BY <1>1, <1>2, <1>9 DEF ConfirmHead, Advance, Ended
  <2>2. /\ draft'[p].head = h
        /\ draft'[p].revision = draft[p].revision
        /\ draft'[p].scenario = draft[p].scenario
    BY <1>1, <2>1 DEF Receipts
  <2>3. h.generation \in Nat BY <1>1, <1>5, <1>9 DEF TypeOK, CoreTypeOK, Heads, PrepareStep
  <2>4. HeadSeen(draft[p])' BY <2>1, <2>2, <2>3 DEF HeadSeen, coreVars, Key
  <2> HIDE DEF h
  <2>5. QED BY <1>1, <1>5, <1>9, <2>1, <2>2, <2>4
            DEF DraftBacked, ResumeSteps, PrepareStep, Key, coreVars
<1>10. CASE FirstUse(p) /\ pc'[p] \notin Ended
  <2>1. PICK r \in Revisions :
           /\ Use(Key(p), "fresh_use", r)
           /\ Advance(p, "first_use", r = draft[p].revision, "recheck",
                      [draft[p] EXCEPT !.firstUse = r])
    BY <1>1, <1>2, <1>10 DEF FirstUse, Advance, Ended
  <2>2. /\ pc[p] = "first_use" /\ pc'[p] = "recheck"
        /\ draft'[p].firstUse = draft[p].revision
        /\ draft'[p].revision = draft[p].revision
        /\ draft'[p].head = draft[p].head
        /\ draft'[p].scenario = draft[p].scenario
    BY <1>1, <1>2, <1>10, <2>1 DEF Advance, Ended, Receipts
  <2>3. UNCHANGED <<proposedFor, approved, head>> BY <2>1 DEF Use
  <2>4. Recorded(draft[p])'
    BY <1>1, <1>5, <1>10, <2>2, <2>3
    DEF DraftBacked, Recorded, Prepared, HeadSeen, PrepareStep, Key
  <2>5. QED BY <1>1, <1>5, <1>10, <2>2, <2>3, <2>4
            DEF DraftBacked, ResumeSteps, PrepareStep, Key, Recorded, Prepared, HeadSeen
<1>11. CASE (RecheckAbsent(p) \/ OpenStateFile(p)) /\ pc'[p] \notin Ended
  <2>1. /\ pc[p] \in {"recheck", "open"} /\ pc'[p] \in {"open", "flush"}
        /\ draft'[p] = draft[p]
        /\ UNCHANGED coreVars
    BY <1>1, <1>2, <1>11 DEF RecheckAbsent, OpenStateFile, Advance, Ended
  <2>2. QED BY <1>1, <2>1
            DEF DraftBacked, ResumeSteps, PrepareSteps, Key, coreVars, Recorded, Prepared,
                HeadSeen
<1>12. CASE FlushStateFile(p)
  BY <1>1, <1>2, <1>3, <1>12 DEF FlushStateFile, Advance, Ended
<1>13. QED
  BY <1>3, <1>4, <1>6, <1>7, <1>8, <1>9, <1>10, <1>11, <1>12 DEF PrepareStep

LEMMA ResumeBacked ==
    ASSUME IInv, Typed, Typed', CoreGrows, NEW p \in Resumers,
           LoadState(p) \/ ResumeStep(p)
    PROVE  DraftBacked(p)'
<1> USE DEF AfterTeach, AfterReview, AfterConfirm, AfterFirstUse, AfterRestartUse,
            AfterRetire, AfterObserve
<1> USE JourneyAssumption
<1>1. p \in Runs /\ draft[p] \in Receipts /\ DraftBacked(p) /\ TypeOK
  BY DEF Runs, IInv, TypeOK
<1>2. DOMAIN pc = Runs /\ DOMAIN draft = Runs BY <1>1 DEF TypeOK
<1>3. CASE pc'[p] \in Ended BY <1>1, <1>3, EndedBacked
<1>4. CASE LoadState(p) /\ pc'[p] \notin Ended
  <2>1. /\ pc'[p] = "reread" /\ draft'[p] = StateFile
        /\ StateFile.phase = "prepared"
        /\ UNCHANGED coreVars
    BY <1>1, <1>2, <1>4 DEF LoadState, Advance, Ended
  <2>2. statePath \in Runs /\ StateFile = disk[statePath]
    BY <1>1, <2>1 DEF StateFile, Blank, TypeOK
  <2>3. Recorded(StateFile) BY <2>1, <2>2 DEF IInv, DiskBacked
  <2>4. Recorded(draft[p])'
    BY <2>1, <2>3 DEF Recorded, Prepared, HeadSeen, coreVars
  <2>5. QED BY <2>1, <2>4 DEF DraftBacked, Recorded
<1>5. ASSUME ResumeStep(p)
      PROVE  draft[p].scenario \in Scenarios /\ Key(p) \in Keys /\ Recorded(draft[p])
  <2>1. pc[p] \in ResumeSteps
    BY <1>5 DEF ResumeStep, RereadHead, RestartUse, RetireHead, ObserveRetired,
                ProbeRefusal, OpenTemporary, FlushTemporary, Publish, Advance, ResumeSteps
  <2>2. draft[p].scenario \in Scenarios /\ Recorded(draft[p])
    BY <1>1, <2>1 DEF DraftBacked
  <2>3. QED BY <2>2 DEF Key
<1>6. CASE RereadHead(p) /\ pc'[p] \notin Ended
  <2>1. /\ pc'[p] = "restart_use" /\ draft'[p] = draft[p]
        /\ UNCHANGED coreVars
    BY <1>1, <1>2, <1>6 DEF RereadHead, Advance, Ended
  <2>2. QED BY <1>5, <1>6, <2>1
            DEF DraftBacked, ResumeStep, Key, coreVars, Recorded, Prepared, HeadSeen
<1>7. CASE RestartUse(p) /\ pc'[p] \notin Ended
  <2>1. PICK r \in Revisions :
           /\ Use(Key(p), "restart_use", r)
           /\ Advance(p, "restart_use", r = draft[p].revision, "retire",
                      [draft[p] EXCEPT !.restartUse = r])
    BY <1>1, <1>2, <1>7 DEF RestartUse, Advance, Ended
  <2>2. /\ pc'[p] = "retire"
        /\ draft'[p].restartUse = draft[p].revision
        /\ draft'[p].firstUse = draft[p].firstUse
        /\ draft'[p].revision = draft[p].revision
        /\ draft'[p].head = draft[p].head
        /\ draft'[p].scenario = draft[p].scenario
    BY <1>1, <1>2, <1>7, <2>1 DEF Advance, Ended, Receipts
  <2>3. UNCHANGED <<proposedFor, approved, head>> BY <2>1 DEF Use
  <2>4. QED BY <1>5, <1>7, <2>2, <2>3
            DEF DraftBacked, ResumeStep, Key, Recorded, Prepared, HeadSeen
<1>8. CASE RetireHead(p) /\ pc'[p] \notin Ended
  <2>1. /\ pc[p] = "retire" /\ pc'[p] = "observe" /\ draft'[p] = draft[p]
        /\ Retire(Key(p), draft[p].head.generation)
    BY <1>1, <1>2, <1>8 DEF RetireHead, Advance, Ended
  <2>2. <<Key(p), draft[p].head.generation>> \in retirements'
    BY <2>1 DEF Retire, coreVars
  <2>3. Recorded(draft[p])'
    <3>1. PICK rec \in Receipts : rec = draft[p] /\ rec = draft'[p] BY <1>1, <2>1
    <3>2. Recorded(rec) => Recorded(rec)' BY RecordedStable
    <3>3. QED BY <1>5, <1>8, <3>1, <3>2 DEF ResumeStep, Recorded, Prepared, HeadSeen
  <2>4. QED BY <1>1, <1>5, <1>8, <2>1, <2>2, <2>3
            DEF DraftBacked, ResumeStep, Key, Recorded
<1>9. CASE ObserveRetired(p) /\ pc'[p] \notin Ended
  <2> DEFINE h == head[Key(p)]
  <2>1. /\ pc[p] = "observe" /\ pc'[p] = "probe"
        /\ h.lifecycle = "retired"
        /\ draft'[p] = [draft[p] EXCEPT !.retiredHead = h]
        /\ UNCHANGED coreVars
    BY <1>1, <1>2, <1>9 DEF ObserveRetired, Advance, Ended
  <2>2. /\ draft'[p].retiredHead = h
        /\ draft'[p].restartUse = draft[p].restartUse
        /\ draft'[p].firstUse = draft[p].firstUse
        /\ draft'[p].revision = draft[p].revision
        /\ draft'[p].head = draft[p].head
        /\ draft'[p].scenario = draft[p].scenario
    BY <1>1, <2>1 DEF Receipts
  <2>3. h.generation > draft[p].head.generation
    BY <1>1, <1>5, <1>9, <2>1
    DEF DraftBacked, IInv, RetirementsPast, ResumeStep, Receipts, Heads
  <2> HIDE DEF h
  <2>4. QED BY <1>1, <1>5, <1>9, <2>1, <2>2, <2>3
            DEF DraftBacked, ResumeStep, Key, Recorded, Prepared, HeadSeen, coreVars
<1>10. CASE ProbeRefusal(p) /\ pc'[p] \notin Ended
  <2>1. PICK code \in Denials \ {"none"} :
           /\ Advance(p, "probe", TRUE, "stage", [draft[p] EXCEPT !.denial = code])
           /\ UNCHANGED coreVars
    BY <1>1, <1>2, <1>10 DEF ProbeRefusal, Advance, Ended
  <2>2. /\ pc[p] = "probe" /\ pc'[p] = "stage"
        /\ draft'[p].retiredHead = draft[p].retiredHead
        /\ draft'[p].restartUse = draft[p].restartUse
        /\ draft'[p].firstUse = draft[p].firstUse
        /\ draft'[p].revision = draft[p].revision
        /\ draft'[p].head = draft[p].head
        /\ draft'[p].scenario = draft[p].scenario
    BY <1>1, <1>2, <1>10, <2>1 DEF Advance, Ended, Receipts
  <2>3. QED BY <1>1, <1>5, <1>10, <2>1, <2>2
            DEF DraftBacked, ResumeStep, Key, Recorded, Prepared, HeadSeen, coreVars
<1>11. CASE OpenTemporary(p) /\ pc'[p] \notin Ended
  <2>1. /\ pc[p] = "stage" /\ pc'[p] = "stage_flush" /\ draft'[p] = draft[p]
        /\ UNCHANGED coreVars
    BY <1>1, <1>2, <1>11 DEF OpenTemporary, Advance, Ended
  <2>2. QED BY <1>1, <1>5, <1>11, <2>1
            DEF DraftBacked, ResumeStep, Key, Recorded, Prepared, HeadSeen, coreVars
<1>12. CASE FlushTemporary(p) /\ pc'[p] \notin Ended
  <2>1. /\ pc'[p] = "publish"
        /\ draft'[p] = [draft[p] EXCEPT !.phase = "complete"]
        /\ UNCHANGED coreVars
    BY <1>1, <1>2, <1>12 DEF FlushTemporary, Advance, Ended
  <2>2. /\ draft'[p].firstUse = draft[p].firstUse
        /\ draft'[p].revision = draft[p].revision
        /\ draft'[p].head = draft[p].head
        /\ draft'[p].scenario = draft[p].scenario
    BY <1>1, <2>1 DEF Receipts
  <2>3. QED BY <1>5, <1>12, <2>1, <2>2
            DEF DraftBacked, ResumeStep, Key, Recorded, Prepared, HeadSeen, coreVars
<1>13. CASE Publish(p)
  BY <1>1, <1>2, <1>3, <1>13 DEF Publish, Advance, Ended
<1>14. QED
  BY <1>3, <1>4, <1>6, <1>7, <1>8, <1>9, <1>10, <1>11, <1>12, <1>13 DEF ResumeStep

-----------------------------------------------------------------------------
(* Every inode that reads as a receipt is backed *)

LEMMA TornBacked ==
    ASSUME NEW i \in Runs, disk'[i] = Torn
    PROVE  DiskBacked(i)'
BY DEF DiskBacked, Torn, Blank

(* Opening truncates one inode and leaves the others alone. *)
LEMMA OpenBacked ==
    ASSUME IInv, Typed, Typed', CoreGrows, NEW inode,
           disk' = [disk EXCEPT ![inode] = Torn]
    PROVE  \A i \in Runs : DiskBacked(i)'
<1> SUFFICES ASSUME NEW i \in Runs PROVE DiskBacked(i)' OBVIOUS
<1>1. DOMAIN disk = Runs BY DEF Typed, TypeOK
<1>2. CASE i = inode BY <1>1, <1>2, TornBacked
<1>3. CASE i # inode BY <1>1, <1>3, DiskStable
<1>4. QED BY <1>2, <1>3

(* Writing puts a backed receipt, or text that does not parse, on one. *)
LEMMA FlushBacked ==
    ASSUME IInv, Typed, Typed', CoreGrows, NEW p \in Runs, NEW receipt \in Receipts,
           NEW text \in Written(p, receipt), disk' = [disk EXCEPT ![fd[p]] = text],
           UNCHANGED coreVars, Recorded(receipt),
           receipt.phase = "complete" => Completed(receipt)
    PROVE  \A i \in Runs : DiskBacked(i)'
<1> SUFFICES ASSUME NEW i \in Runs PROVE DiskBacked(i)' OBVIOUS
<1>1. DOMAIN disk = Runs BY DEF Typed, TypeOK
<1>2. CASE i = fd[p] /\ text = Torn BY <1>1, <1>2, TornBacked
<1>3. CASE i = fd[p] /\ text = receipt
  <2>1. disk'[i] = receipt BY <1>1, <1>3
  <2>2. QED BY <2>1 DEF DiskBacked, Recorded, Prepared, HeadSeen, Completed, coreVars
<1>4. CASE i # fd[p] BY <1>1, <1>4, DiskStable
<1>5. QED BY <1>2, <1>3, <1>4 DEF Written

LEMMA RunDiskBacked ==
    ASSUME IInv, Typed, Typed', CoreGrows, NEW p \in Runs,
           \/ p \in Preparers /\ (CheckAbsent(p) \/ PrepareStep(p))
           \/ p \in Resumers /\ (LoadState(p) \/ ResumeStep(p))
    PROVE  \A i \in Runs : DiskBacked(i)'
<1> USE JourneyAssumption
<1>1. draft[p] \in Receipts /\ DraftBacked(p) BY DEF IInv, TypeOK
<1>2. CASE UNCHANGED disk BY <1>2, DiskStable
<1>3. CASE OpenStateFile(p) BY <1>3, OpenBacked DEF OpenStateFile
<1>4. CASE OpenTemporary(p) BY <1>4, OpenBacked DEF OpenTemporary
<1>5. CASE FlushStateFile(p)
  <2> DEFINE receipt == [draft[p] EXCEPT !.phase = "prepared"]
  <2>1. /\ receipt \in Receipts
        /\ receipt.phase = "prepared"
        /\ receipt.scenario = draft[p].scenario
        /\ receipt.revision = draft[p].revision
        /\ receipt.head = draft[p].head
        /\ receipt.firstUse = draft[p].firstUse
    BY <1>1 DEF Receipts
  <2>2. Recorded(draft[p])
    BY <1>1, <1>5 DEF FlushStateFile, Advance, DraftBacked, AfterFirstUse
  <2>3. PICK text \in Written(p, receipt) : disk' = [disk EXCEPT ![fd[p]] = text]
    BY <1>5 DEF FlushStateFile
  <2>4. UNCHANGED coreVars BY <1>5 DEF FlushStateFile
  <2> HIDE DEF receipt
  <2>5. Recorded(receipt) BY <2>1, <2>2 DEF Recorded, Prepared, HeadSeen
  <2>6. QED BY <2>1, <2>3, <2>4, <2>5, FlushBacked
<1>6. CASE FlushTemporary(p)
  <2> DEFINE receipt == [draft[p] EXCEPT !.phase = "complete"]
  <2>1. /\ receipt \in Receipts
        /\ receipt.scenario = draft[p].scenario
        /\ receipt.revision = draft[p].revision
        /\ receipt.head = draft[p].head
        /\ receipt.firstUse = draft[p].firstUse
        /\ receipt.restartUse = draft[p].restartUse
        /\ receipt.retiredHead = draft[p].retiredHead
    BY <1>1 DEF Receipts
  <2>2. Recorded(draft[p]) /\ Completed(draft[p])
    BY <1>1, <1>6
    DEF FlushTemporary, Advance, DraftBacked, AfterRestartUse, AfterRetire, AfterObserve,
        ResumeSteps, Completed, Key
  <2>3. PICK text \in Written(p, receipt) : disk' = [disk EXCEPT ![fd[p]] = text]
    BY <1>6 DEF FlushTemporary
  <2>4. UNCHANGED coreVars BY <1>6 DEF FlushTemporary
  <2> HIDE DEF receipt
  <2>5. Recorded(receipt) /\ Completed(receipt)
    BY <2>1, <2>2 DEF Recorded, Prepared, HeadSeen, Completed
  <2>6. QED BY <2>1, <2>3, <2>4, <2>5, FlushBacked
<1>7. QED
  BY <1>2, <1>3, <1>4, <1>5, <1>6
  DEF PrepareStep, ResumeStep, CheckAbsent, TeachProposal, InspectProposal, ReviewApprove,
      ConfirmHead, FirstUse, RecheckAbsent, LoadState, RereadHead, RestartUse, RetireHead,
      ObserveRetired, ProbeRefusal, Publish, fileVars

-----------------------------------------------------------------------------
(* The theorems *)

LEMMA InitIInv == Init => IInv
<1> SUFFICES ASSUME Init PROVE IInv OBVIOUS
<1>1. TypeOK BY InitTyped DEF Typed
<1>2. RetirementsPast BY DEF Init, CoreInit, RetirementsPast
<1>3. \A p \in Runs : DraftBacked(p)
  BY DEF Init, DraftBacked, PrepareSteps, ResumeSteps, AfterTeach, AfterReview,
         AfterConfirm, AfterFirstUse, AfterRestartUse, AfterRetire, AfterObserve
<1>4. \A i \in Runs : DiskBacked(i) BY DEF Init, DiskBacked, Blank
<1>5. QED BY <1>1, <1>2, <1>3, <1>4 DEF IInv

LEMMA NextIInv == Typed /\ IInv /\ [Next]_vars => IInv'
<1> SUFFICES ASSUME Typed, IInv, [Next]_vars PROVE IInv' OBVIOUS
<1>1. Typed' /\ TypeOK' BY NextTyped DEF Typed
<1>2. CoreGrows BY NextGrows
<1>3. RetirementsPast' BY NextRetirementsPast DEF IInv
<1>4. ASSUME NEW p \in Runs,
             \/ p \in Preparers /\ (CheckAbsent(p) \/ PrepareStep(p))
             \/ p \in Resumers /\ (LoadState(p) \/ ResumeStep(p))
      PROVE  \A q \in Runs : DraftBacked(q)'
  <2>1. DraftBacked(p)' BY <1>1, <1>2, <1>4, PrepareBacked, ResumeBacked
  <2> SUFFICES ASSUME NEW q \in Runs, q # p PROVE DraftBacked(q)' BY <2>1
  <2>2. pc'[q] = pc[q] /\ draft'[q] = draft[q]
    BY <1>4
    DEF Advance, Typed, TypeOK, PrepareStep, ResumeStep, CheckAbsent, TeachProposal,
        InspectProposal, ReviewApprove, ConfirmHead, FirstUse, RecheckAbsent,
        OpenStateFile, FlushStateFile, LoadState, RereadHead, RestartUse, RetireHead,
        ObserveRetired, ProbeRefusal, OpenTemporary, FlushTemporary, Publish
  <2>3. QED BY <1>1, <1>2, <2>2, DraftStable
<1>5. ASSUME NEW p \in Runs, Abandon(p)
      PROVE  (\A q \in Runs : DraftBacked(q)') /\ (\A i \in Runs : DiskBacked(i)')
  <2>1. \A i \in Runs : DiskBacked(i)' BY <1>1, <1>2, <1>5, DiskStable DEF Abandon, fileVars
  <2>2. DraftBacked(p)'
    <3>1. pc'[p] \in Ended BY <1>5 DEF Abandon, Typed, TypeOK, Ended
    <3>2. QED BY <3>1, EndedBacked
  <2>3. ASSUME NEW q \in Runs, q # p PROVE DraftBacked(q)'
    <3>1. pc'[q] = pc[q] /\ draft'[q] = draft[q] BY <1>5, <2>3 DEF Abandon, Typed, TypeOK
    <3>2. QED BY <1>1, <1>2, <3>1, DraftStable
  <2>4. QED BY <2>1, <2>2, <2>3
<1>6. CASE \/ \E k \in Keys : OtherActs(k)
           \/ UNCHANGED vars
  <2>1. UNCHANGED <<pc, draft, disk>> BY <1>6 DEF OtherActs, fileVars, vars
  <2>2. \A q \in Runs : DraftBacked(q)' BY <1>1, <1>2, <2>1, DraftStable
  <2>3. \A i \in Runs : DiskBacked(i)' BY <1>1, <1>2, <2>1, DiskStable
  <2>4. QED BY <1>1, <1>3, <2>2, <2>3 DEF IInv
<1>7. ASSUME NEW p \in Runs,
             \/ p \in Preparers /\ (CheckAbsent(p) \/ PrepareStep(p))
             \/ p \in Resumers /\ (LoadState(p) \/ ResumeStep(p))
      PROVE  IInv'
  <2>1. \A i \in Runs : DiskBacked(i)' BY <1>1, <1>2, <1>7, RunDiskBacked
  <2>2. \A q \in Runs : DraftBacked(q)' BY <1>4, <1>7
  <2>3. QED BY <1>1, <1>3, <2>1, <2>2 DEF IInv
<1>8. ASSUME NEW p \in Runs, Abandon(p) PROVE IInv'
  BY <1>1, <1>3, <1>5, <1>8 DEF IInv
<1>9. QED BY <1>6, <1>7, <1>8 DEF Next, Runs

LEMMA Inductive == Spec => [](Typed /\ IInv)
BY InitTyped, InitIInv, NextTyped, NextIInv, PTL DEF Spec

(* Whoever overlaps, dies or interferes, a state file that reads as a      *)
(* receipt is backed by the approvals, heads, uses and retirements that    *)
(* it names.                                                               *)
THEOREM ReceiptsAreBacked == Spec => []ReceiptIsBacked
<1>1. Typed /\ IInv => ReceiptIsBacked
  <2> SUFFICES ASSUME Typed, IInv, StateFile.phase \in {"prepared", "complete"}
               PROVE  /\ Prepared(StateFile)
                      /\ StateFile.phase = "complete" => Completed(StateFile)
    BY DEF ReceiptIsBacked
  <2>1. statePath \in Runs /\ StateFile = disk[statePath]
    BY DEF StateFile, Blank, Typed, TypeOK
  <2>2. QED BY <2>1 DEF IInv, DiskBacked, Recorded
<1>2. QED BY <1>1, Inductive, PTL

(* The head a resume retires is the one its receipt recorded: the check    *)
(* made commands earlier cannot have gone stale unnoticed, because the     *)
(* retirement names the generation.                                        *)
THEOREM RetirementIsExact == Spec => RetiresRecordedHead
<1> DEFINE A == \A p \in Resumers :
                  pc[p] = "retire" /\ pc'[p] = "observe" /\ head' # head
                    => head[Key(p)] = draft[p].head
<1>1. Typed /\ IInv /\ [Next]_vars => A
  <2> SUFFICES ASSUME Typed, IInv, Next, NEW p \in Resumers,
                      pc[p] = "retire", pc'[p] = "observe", head' # head
               PROVE  head[Key(p)] = draft[p].head
    BY DEF vars
  <2>1. p \in Runs /\ p \notin Preparers BY JourneyAssumption DEF Runs
  <2>2. RetireHead(p)
    <3>1. ~ \E k \in Keys : OtherActs(k) BY DEF OtherActs
    <3>2. ~ \E q \in Runs : Abandon(q) BY <2>1 DEF Abandon, Typed, TypeOK
    <3>3. ASSUME NEW q \in Preparers, CheckAbsent(q) \/ PrepareStep(q) PROVE FALSE
      <4>1. pc'[p] = pc[p]
        BY <2>1, <3>3
        DEF Advance, Typed, TypeOK, PrepareStep, CheckAbsent, TeachProposal,
            InspectProposal, ReviewApprove, ConfirmHead, FirstUse, RecheckAbsent,
            OpenStateFile, FlushStateFile
      <4>2. QED BY <4>1
    <3>4. PICK q \in Resumers : LoadState(q) \/ ResumeStep(q)
      BY <3>1, <3>2, <3>3 DEF Next
    <3>5. q = p
      BY <2>1, <3>4
      DEF Advance, Typed, TypeOK, ResumeStep, LoadState, RereadHead, RestartUse, RetireHead,
          ObserveRetired, ProbeRefusal, OpenTemporary, FlushTemporary, Publish
    <3>6. QED
      BY <3>4, <3>5
      DEF Advance, ResumeStep, LoadState, RereadHead, RestartUse,
          ObserveRetired, ProbeRefusal, OpenTemporary, FlushTemporary, Publish
  <2>3. CanRetire(Key(p), draft[p].head.generation)
    BY <2>2 DEF RetireHead, Retire, coreVars
  <2>4. HeadSeen(draft[p])
    BY <2>1 DEF IInv, DraftBacked, Recorded, ResumeSteps
  <2>5. QED BY <2>3, <2>4 DEF CanRetire, HeadSeen, Key
<1>2. QED BY <1>1, Inductive, PTL DEF Spec, RetiresRecordedHead

-----------------------------------------------------------------------------
(* The fail-closed gate *)

(* As long as nobody has interfered: a retired head has been active before *)
(* and stays retired, no task has answered a third prompt, and a run that  *)
(* is about to probe has a retired head.                                   *)
GateShut ==
    /\ \A k \in Keys : head[k].lifecycle = "retired" => head[k].generation # 0
    /\ \A k \in Keys : \A r \in Revisions : <<k, "post_retirement_use", r>> \notin tasks
    /\ \A p \in Resumers : pc[p] = "probe" => head[Key(p)].lifecycle = "retired"

(* What a run does to the service, by the command it executes.             *)
LEMMA RunCommand ==
    ASSUME Typed, NEW p \in Runs,
           \/ p \in Preparers /\ (CheckAbsent(p) \/ PrepareStep(p))
           \/ p \in Resumers /\ (LoadState(p) \/ ResumeStep(p))
    PROVE  /\ disturbed' = disturbed
           /\ \A q \in Runs : q # p => pc'[q] = pc[q] /\ draft'[q] = draft[q]
           /\ \/ UNCHANGED coreVars
              \/ \E k \in Keys, g \in Nat : Retire(k, g)
              \/ \E k \in Keys, r \in Revisions :
                   \/ Teach(k, r)
                   \/ Approve(k, r, 0)
                   \/ Use(k, "fresh_use", r)
                   \/ Use(k, "restart_use", r)
                   \/ pc[p] = "probe" /\ p \in Resumers /\ k = Key(p)
                        /\ Use(k, "post_retirement_use", r)
           /\ pc'[p] = "probe" => ObserveRetired(p)
<1>1. TypeOK /\ draft[p] \in Receipts /\ draft[p].head.generation \in Nat
  BY DEF Typed, TypeOK, Receipts, Heads
<1>2. pc[p] \in PrepareSteps \cup ResumeSteps => Key(p) \in Keys
  BY KeyType DEF Live, Ended, PrepareSteps, ResumeSteps
<1>3. CASE p \in Preparers /\ CheckAbsent(p)
  BY <1>1, <1>3 DEF CheckAbsent, Advance, TypeOK
<1>4. CASE p \in Resumers /\ LoadState(p)
  BY <1>1, <1>4 DEF LoadState, Advance, TypeOK
<1>5. CASE p \in Preparers /\ PrepareStep(p)
  <2>1. CASE TeachProposal(p)
    BY <1>1, <1>2, <2>1 DEF TeachProposal, Advance, TypeOK, PrepareSteps
  <2>2. CASE ReviewApprove(p)
    <3>1. draft[p].revision \in Revisions
      BY <2>2 DEF ReviewApprove, Typed, AfterTeach
    <3>2. QED BY <1>1, <1>2, <2>2, <3>1 DEF ReviewApprove, Advance, TypeOK, PrepareSteps
  <2>3. CASE FirstUse(p)
    BY <1>1, <1>2, <2>3 DEF FirstUse, Advance, TypeOK, PrepareSteps
  <2>4. CASE InspectProposal(p) \/ ConfirmHead(p) \/ RecheckAbsent(p)
               \/ OpenStateFile(p) \/ FlushStateFile(p)
    BY <1>1, <2>4
    DEF InspectProposal, ConfirmHead, RecheckAbsent, OpenStateFile, FlushStateFile,
        Advance, TypeOK
  <2>5. QED BY <1>5, <2>1, <2>2, <2>3, <2>4 DEF PrepareStep
<1>6. CASE p \in Resumers /\ ResumeStep(p)
  <2>1. CASE RestartUse(p)
    BY <1>1, <1>2, <2>1 DEF RestartUse, Advance, TypeOK, ResumeSteps
  <2>2. CASE RetireHead(p)
    BY <1>1, <1>2, <2>2 DEF RetireHead, Advance, TypeOK, ResumeSteps
  <2>3. CASE ProbeRefusal(p)
    BY <1>1, <1>2, <1>6, <2>3 DEF ProbeRefusal, Advance, TypeOK, ResumeSteps
  <2>4. CASE ObserveRetired(p)
    BY <1>1, <2>4 DEF ObserveRetired, Advance, TypeOK
  <2>5. CASE RereadHead(p) \/ OpenTemporary(p) \/ FlushTemporary(p) \/ Publish(p)
    BY <1>1, <2>5
    DEF RereadHead, OpenTemporary, FlushTemporary, Publish, Advance, TypeOK
  <2>6. QED BY <1>6, <2>1, <2>2, <2>3, <2>4, <2>5 DEF ResumeStep
<1>7. QED BY <1>3, <1>4, <1>5, <1>6

LEMMA NextGateShut ==
    ASSUME Typed, [Next]_vars, ~disturbed => GateShut
    PROVE  ~disturbed' => GateShut'
<1> SUFFICES ASSUME ~disturbed' PROVE GateShut'
  OBVIOUS
<1>1. TypeOK /\ Resumers \subseteq Runs BY DEF Typed, Runs
<1>2. CASE UNCHANGED vars
  BY <1>2 DEF vars, coreVars, GateShut, Key
<1>3. ASSUME NEW p \in Runs,
             \/ p \in Preparers /\ (CheckAbsent(p) \/ PrepareStep(p))
             \/ p \in Resumers /\ (LoadState(p) \/ ResumeStep(p))
      PROVE  GateShut'
  <2>1. GateShut BY <1>3, RunCommand
  <2>2. \/ UNCHANGED coreVars
        \/ \E k \in Keys, g \in Nat : Retire(k, g)
        \/ \E k \in Keys, r \in Revisions :
             \/ Teach(k, r)
             \/ Approve(k, r, 0)
             \/ Use(k, "fresh_use", r)
             \/ Use(k, "restart_use", r)
    <3>1. ASSUME NEW r \in Revisions, pc[p] = "probe", p \in Resumers,
                 Use(Key(p), "post_retirement_use", r)
          PROVE  FALSE
      <4>1. Key(p) \in Keys BY <3>1, KeyType DEF Live, Ended
      <4>2. QED BY <2>1, <3>1, <4>1 DEF GateShut, Use, Answers
    <3>2. QED BY <1>3, <3>1, RunCommand
  <2>3. /\ \A k \in Keys : head[k].lifecycle = "retired" => head'[k] = head[k]
        /\ \A k \in Keys : head'[k].lifecycle = "retired" => head'[k].generation # 0
        /\ \A k \in Keys : \A r \in Revisions : <<k, "post_retirement_use", r>> \notin tasks'
    <3>1. CASE UNCHANGED coreVars
      BY <2>1, <3>1 DEF coreVars, GateShut
    <3>2. ASSUME NEW k \in Keys, NEW r \in Revisions,
                 \/ Teach(k, r)
                 \/ Use(k, "fresh_use", r)
                 \/ Use(k, "restart_use", r)
          PROVE  /\ head' = head
                 /\ \A kk \in Keys : \A rr \in Revisions :
                      <<kk, "post_retirement_use", rr>> \notin tasks'
      BY <2>1, <3>2 DEF Teach, Use, GateShut
    <3>3. ASSUME NEW k \in Keys, NEW r \in Revisions, Approve(k, r, 0)
          PROVE  /\ tasks' = tasks
                 /\ head' = head \/ (CanApprove(k, r, 0) /\ MoveHead(k, r, "active"))
      BY <3>3 DEF Approve, coreVars
    <3>4. ASSUME NEW k \in Keys, NEW g \in Nat, Retire(k, g)
          PROVE  /\ tasks' = tasks
                 /\ head' = head \/ (CanRetire(k, g) /\ MoveHead(k, head[k].active, "retired"))
      BY <3>4 DEF Retire, coreVars
    <3>5. ASSUME NEW k \in Keys, NEW r \in Revisions, CanApprove(k, r, 0),
                 MoveHead(k, r, "active"), tasks' = tasks
          PROVE  <2>3
      BY <1>1, <2>1, <3>5 DEF CanApprove, MoveHead, GateShut, TypeOK, CoreTypeOK, Heads
    <3>6. ASSUME NEW k \in Keys, NEW g \in Nat, CanRetire(k, g),
                 MoveHead(k, head[k].active, "retired"), tasks' = tasks
          PROVE  <2>3
      BY <1>1, <2>1, <3>6 DEF CanRetire, MoveHead, GateShut, TypeOK, CoreTypeOK, Heads
    <3>7. head' = head /\ tasks' = tasks => <2>3
      BY <2>1 DEF GateShut
    <3>8. QED BY <2>1, <2>2, <3>1, <3>2, <3>3, <3>4, <3>5, <3>6, <3>7 DEF GateShut
  <2>4. ASSUME NEW q \in Resumers, pc'[q] = "probe"
        PROVE  (head[Key(q)].lifecycle)' = "retired"
    <3>1. CASE q = p
      <4>1. ObserveRetired(p) BY <1>3, <2>4, <3>1, RunCommand
      <4>2. /\ head[Key(p)].lifecycle = "retired"
            /\ head' = head
            /\ draft'[p].scenario = draft[p].scenario
        BY <1>1, <1>3, <2>4, <3>1, <4>1
        DEF ObserveRetired, Advance, coreVars, TypeOK, Receipts
      <4>3. QED BY <3>1, <4>2 DEF Key
    <3>2. CASE q # p
      <4>1. pc[q] = "probe" /\ draft'[q] = draft[q]
        BY <1>1, <1>3, <2>4, <3>2, RunCommand
      <4>2. Key(q) \in Keys /\ Key(q)' = Key(q)
        BY <1>1, <4>1, KeyType DEF Live, Ended, Key
      <4>3. QED BY <2>1, <2>3, <4>1, <4>2 DEF GateShut
    <3>3. QED BY <3>1, <3>2
  <2>5. QED BY <2>3, <2>4 DEF GateShut
<1>4. (\E p \in Runs : Abandon(p)) \/ (\E k \in Keys : OtherActs(k)) => disturbed'
  BY DEF Abandon, OtherActs
<1>5. QED BY <1>1, <1>2, <1>3, <1>4 DEF Next, Runs

(* Until a run dies or another operator acts, and however the runs         *)
(* overlap, what the documentation says of the gate is so: a run passes it *)
(* only if no use of its key could have succeeded                          *)
(* (docs/gc1-external-consumer.md:64).  The run gc1_gate shows what        *)
(* another operator's reactivation does to it.                             *)
THEOREM GateHoldsUndisturbed ==
    Spec => [][\A p \in Resumers :
                 pc[p] = "probe" /\ pc'[p] = "stage" /\ ~disturbed
                   => Answers(Key(p), "post_retirement_use") = {}]_vars
<1> DEFINE A == \A p \in Resumers :
                  pc[p] = "probe" /\ pc'[p] = "stage" /\ ~disturbed
                    => Answers(Key(p), "post_retirement_use") = {}
           G == ~disturbed => GateShut
<1>1. Init => G
  BY JourneyAssumption DEF Init, CoreInit, GateShut, Runs
<1>2. Typed /\ G /\ [Next]_vars => G'
  BY NextGateShut
<1>3. Typed /\ G => A
  <2> SUFFICES ASSUME Typed, GateShut, NEW p \in Resumers, pc[p] = "probe"
               PROVE  Answers(Key(p), "post_retirement_use") = {}
    OBVIOUS
  <2>1. Key(p) \in Keys BY KeyType DEF Live, Ended, Runs
  <2>2. QED BY <2>1 DEF GateShut, Answers
<1> HIDE DEF A, G
<1>4. Spec => [][A]_vars
  BY <1>1, <1>2, <1>3, InitTyped, NextTyped, PTL DEF Spec
<1>5. QED BY <1>4 DEF A

=============================================================================
