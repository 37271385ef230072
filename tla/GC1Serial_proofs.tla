--------------------------- MODULE GC1Serial_proofs ---------------------------
(***************************************************************************)
(* Proofs about GC1Journey when runs do not overlap (~Overlap), for every  *)
(* set of runs, scenarios, keys and revisions, wherever a run dies and     *)
(* whatever other operators do.                                            *)
(*                                                                         *)
(* The argument: the one live run knows the state file.  A prepare has     *)
(* found none, so no run has reported anything yet; a resume works on a    *)
(* copy of what the file holds, writes to an inode the state path does not *)
(* name, and puts the whole receipt there with one rename.  SInv says so   *)
(* of every command, and GC1Journey_proofs has what the service knows.     *)
(***************************************************************************)
EXTENDS GC1Journey_proofs

-----------------------------------------------------------------------------
(* The invariant of runs that do not overlap *)

OneLive == \A p, q \in Runs : Live(p) /\ Live(q) => p = q

(* Commands after a run has opened its own inode.                          *)
Opened == {"flush", "stage_flush", "publish"} \cup Ended

PathsOK ==
    /\ statePath # None => /\ pc[statePath] \in Opened
                           /\ disk[statePath].phase # "absent"
    /\ tmpPath # None => /\ pc[tmpPath] \in Opened
                         /\ tmpPath # statePath

SameEvidence(a, b) ==
    /\ a.scenario = b.scenario
    /\ a.revision = b.revision
    /\ a.head = b.head
    /\ a.firstUse = b.firstUse

PrepareAlone(p) ==
    /\ pc[p] \in PrepareSteps \ {"flush"} => statePath = None
    /\ pc[p] = "flush" => /\ statePath # None
                          /\ fd[p] = statePath
                          /\ disk[statePath] = Torn
    /\ pc[p] \in {"inspect", "review"} => draft[p].revision \notin reviews

ResumeAlone(p) ==
    /\ pc[p] \in ResumeSteps => /\ StateFile.phase = "prepared"
                                /\ SameEvidence(StateFile, draft[p])
    /\ pc[p] = "stage_flush" => /\ tmpPath # None
                                /\ fd[p] = tmpPath
                                /\ disk[tmpPath] = Torn
    /\ pc[p] = "publish" => /\ tmpPath # None
                            /\ disk[tmpPath] = draft[p]
                            /\ draft[p].phase = "complete"
    /\ pc[p] \in {"stage", "stage_flush", "publish"} => draft[p].denial # "none"

Reported(p) ==
    pc[p] = "done" => /\ StateFile.phase \in {"prepared", "complete"}
                      /\ SameEvidence(StateFile, draft[p])
                      /\ p \in Resumers => /\ StateFile = draft[p]
                                           /\ StateFile.phase = "complete"

RunAlone(p) == PrepareAlone(p) /\ ResumeAlone(p) /\ Reported(p)

SInv ==
    /\ OneLive
    /\ PathsOK
    /\ \A p \in Runs : RunAlone(p)

RunStep(p) ==
    \/ p \in Preparers /\ (CheckAbsent(p) \/ PrepareStep(p))
    \/ p \in Resumers /\ (LoadState(p) \/ ResumeStep(p))

(* Everybody but p is idle or has ended, and does not move.                *)
OnlyRun(p) ==
    \A q \in Runs : q # p => /\ pc[q] \in {"idle"} \cup Ended
                             /\ pc'[q] = pc[q]
                             /\ draft'[q] = draft[q]

-----------------------------------------------------------------------------
(* One run at a time *)

LEMMA StepIsAdvance ==
    ASSUME NEW p \in Runs, RunStep(p)
    PROVE  \E ok \in BOOLEAN : \E from, to, filled : Advance(p, from, ok, to, filled)
<1>1. ASSUME NEW from, NEW ok, NEW to, NEW filled, Advance(p, from, ok, to, filled)
      PROVE  \E okk \in BOOLEAN : \E f, t, d : Advance(p, f, okk, t, d)
  <2>1. CASE ok = TRUE BY <1>1, <2>1
  <2>2. CASE ok # TRUE
    <3>1. Advance(p, from, FALSE, to, filled) \/ Advance(p, from, TRUE, to, filled)
      BY <1>1, <2>2 DEF Advance
    <3>2. QED BY <3>1
  <2>3. QED BY <2>1, <2>2
<1>2. QED
  BY <1>1
  DEF RunStep, PrepareStep, ResumeStep, CheckAbsent, TeachProposal, InspectProposal,
      ReviewApprove, ConfirmHead, FirstUse, RecheckAbsent, OpenStateFile, FlushStateFile,
      LoadState, RereadHead, RestartUse, RetireHead, ObserveRetired, ProbeRefusal,
      OpenTemporary, FlushTemporary, Publish

LEMMA StepIsAlone ==
    ASSUME ~Overlap, Typed, OneLive, NEW p \in Runs, RunStep(p)
    PROVE  OnlyRun(p)
<1>1. PICK ok \in BOOLEAN : \E from, to, filled : Advance(p, from, ok, to, filled)
  BY StepIsAdvance
<1>2. \A q \in Runs : q # p => pc'[q] = pc[q] /\ draft'[q] = draft[q]
  BY <1>1 DEF Advance, Typed, TypeOK
<1>3. Live(p) \/ MayStart
  BY DEF RunStep, PrepareStep, ResumeStep, CheckAbsent, TeachProposal, InspectProposal,
         ReviewApprove, ConfirmHead, FirstUse, RecheckAbsent, OpenStateFile,
         FlushStateFile, LoadState, RereadHead, RestartUse, RetireHead, ObserveRetired,
         ProbeRefusal, OpenTemporary, FlushTemporary, Publish, Advance, Live, Ended
<1>4. \A q \in Runs : q # p => ~Live(q) BY <1>3 DEF OneLive, MayStart
<1>5. QED BY <1>2, <1>4 DEF OnlyRun, Live

LEMMA AloneStays ==
    ASSUME Typed, NEW p \in Runs, OnlyRun(p)
    PROVE  OneLive'
BY DEF OnlyRun, OneLive, Live

(* The others have at most reported, and what they reported stays.         *)
LEMMA OthersStay ==
    ASSUME NEW p \in Runs, OnlyRun(p), NEW q \in Runs, q # p,
           pc[q] = "done" => Reported(q)'
    PROVE  RunAlone(q)'
BY DEF OnlyRun, RunAlone, PrepareAlone, ResumeAlone, Reported, Ended,
       PrepareSteps, ResumeSteps

LEMMA ReportedStays ==
    ASSUME NEW p \in Runs, OnlyRun(p), NEW q \in Runs, q # p, SInv, StateFile' = StateFile
    PROVE  Reported(q)'
BY DEF OnlyRun, Reported, SInv, RunAlone, SameEvidence

(* A command that touches no file.                                         *)
LEMMA QuietStep ==
    ASSUME Typed, SInv, NEW p \in Runs, OnlyRun(p), pc[p] \notin Opened,
           UNCHANGED fileVars
    PROVE  /\ StateFile' = StateFile
           /\ PathsOK'
           /\ \A q \in Runs : q # p => RunAlone(q)'
<1>1. StateFile' = StateFile BY DEF StateFile, fileVars
<1>2. PathsOK'
  <2>1. PathsOK BY DEF SInv
  <2>2. /\ statePath' = statePath
        /\ tmpPath' = tmpPath
        /\ disk' = disk
        /\ statePath \in Runs \cup {None}
        /\ tmpPath \in Runs \cup {None}
    BY DEF fileVars, Typed, TypeOK
  <2>3. statePath # p /\ tmpPath # p BY <2>1, JourneyAssumption DEF PathsOK
  <2>4. QED BY <2>1, <2>2, <2>3 DEF PathsOK, OnlyRun
<1>3. ASSUME NEW q \in Runs, q # p PROVE RunAlone(q)'
  BY <1>1, <1>3, OthersStay, ReportedStays
<1>4. QED BY <1>1, <1>2, <1>3

-----------------------------------------------------------------------------
(* prepare *)

(* A prepare that has written nothing goes on with no state file.          *)
LEMMA PrepareQuiet ==
    ASSUME Typed, SInv, NEW p \in Runs, OnlyRun(p), pc[p] \notin Opened,
           UNCHANGED fileVars, statePath = None,
           pc'[p] \in (PrepareSteps \ {"flush"}) \cup {"failed"},
           pc'[p] \in {"inspect", "review"} => draft'[p].revision \notin reviews'
    PROVE  SInv'
<1>1. OneLive' BY AloneStays
<1>2. PathsOK' /\ \A q \in Runs : q # p => RunAlone(q)' BY QuietStep
<1>3. RunAlone(p)'
  BY DEF RunAlone, PrepareAlone, ResumeAlone, Reported, fileVars, PrepareSteps, ResumeSteps
<1>4. QED BY <1>1, <1>2, <1>3 DEF SInv

LEMMA PrepareSerial ==
    ASSUME Typed, SInv, NEW p \in Preparers, OnlyRun(p), CheckAbsent(p) \/ PrepareStep(p)
    PROVE  SInv'
<1>1. /\ p \in Runs
      /\ p \notin Resumers
      /\ p # None
      /\ draft[p] \in Receipts
      /\ TypeOK
      /\ DOMAIN pc = Runs
      /\ DOMAIN draft = Runs
  BY JourneyAssumption DEF Runs, Typed, TypeOK
<1>2. PathsOK /\ RunAlone(p) BY <1>1 DEF SInv
<1>3. CASE CheckAbsent(p)
  <2>1. pc[p] = "idle" /\ UNCHANGED fileVars BY <1>3 DEF CheckAbsent, Advance
  <2>2. pc'[p] \in {"teach", "failed"} BY <1>1, <1>3 DEF CheckAbsent, Advance
  <2>3. CASE pc'[p] = "failed"
    <3>1. PathsOK' /\ \A q \in Runs : q # p => RunAlone(q)'
      BY <1>1, <2>1, QuietStep DEF Opened, Ended
    <3>2. RunAlone(p)'
      BY <2>3 DEF RunAlone, PrepareAlone, ResumeAlone, Reported, PrepareSteps, ResumeSteps
    <3>3. QED BY <1>1, <3>1, <3>2, AloneStays DEF SInv
  <2>4. CASE pc'[p] = "teach"
    <3>1. StateFile = Blank BY <1>1, <1>3, <2>4 DEF CheckAbsent, Advance
    <3>2. statePath = None BY <1>2, <3>1 DEF StateFile, PathsOK, Blank
    <3>3. QED BY <1>1, <2>1, <2>4, <3>2, PrepareQuiet DEF Opened, Ended, PrepareSteps
  <2>5. QED BY <2>2, <2>3, <2>4
<1>4. ASSUME pc[p] \in PrepareSteps \ {"flush"}
      PROVE  statePath = None /\ pc[p] \notin Opened
  BY <1>2, <1>4 DEF RunAlone, PrepareAlone, Opened, Ended, PrepareSteps
<1>5. CASE TeachProposal(p)
  <2>1. PICK r \in Revisions :
          /\ Teach(Key(p), r)
          /\ Advance(p, "teach", ~Selectable(r), "inspect", [draft[p] EXCEPT !.revision = r])
    BY <1>5 DEF TeachProposal
  <2>2. /\ pc[p] = "teach"
        /\ pc'[p] \in {"inspect", "failed"}
        /\ UNCHANGED fileVars
        /\ UNCHANGED reviews
    BY <1>1, <1>5, <2>1 DEF TeachProposal, Advance, Teach
  <2>3. pc'[p] \in {"inspect", "review"} => draft'[p].revision \notin reviews'
    <3> HAVE pc'[p] \in {"inspect", "review"}
    <3>1. r \notin approved BY <1>1, <2>1 DEF Advance, Selectable
    <3>2. draft'[p].revision = r BY <1>1, <2>1, <3>1 DEF Advance, Selectable, Receipts
    <3>3. QED BY <1>1, <2>2, <3>1, <3>2 DEF TypeOK, CoreTypeOK
  <2>4. QED BY <1>1, <1>4, <2>2, <2>3, PrepareQuiet DEF PrepareSteps
<1>6. CASE InspectProposal(p)
  <2>1. /\ pc[p] = "inspect"
        /\ pc'[p] \in {"review", "failed"}
        /\ pc'[p] = "review" => draft'[p] = draft[p]
        /\ UNCHANGED fileVars
        /\ UNCHANGED reviews
    BY <1>1, <1>6 DEF InspectProposal, Advance, coreVars
  <2>2. draft[p].revision \notin reviews BY <1>2, <2>1 DEF RunAlone, PrepareAlone
  <2>3. QED BY <1>1, <1>4, <2>1, <2>2, PrepareQuiet DEF PrepareSteps
<1>7. CASE ReviewApprove(p) \/ ConfirmHead(p) \/ FirstUse(p) \/ RecheckAbsent(p)
  <2>1. /\ pc[p] \in {"review", "confirm", "first_use", "recheck"}
        /\ pc'[p] \in {"confirm", "first_use", "recheck", "open", "failed"}
        /\ UNCHANGED fileVars
    BY <1>1, <1>7 DEF ReviewApprove, ConfirmHead, FirstUse, RecheckAbsent, Advance
  <2>2. QED BY <1>1, <1>4, <2>1, PrepareQuiet DEF PrepareSteps
<1>8. CASE OpenStateFile(p)
  <2>1. pc[p] = "open" /\ statePath = None
    BY <1>4, <1>8 DEF OpenStateFile, Advance, PrepareSteps
  <2>2. /\ pc'[p] = "flush"
        /\ statePath' = p
        /\ fd'[p] = p
        /\ disk'[p] = Torn
        /\ tmpPath' = tmpPath
    BY <1>1, <1>8, <2>1 DEF OpenStateFile, Advance, TypeOK
  <2>3. PathsOK'
    <3>1. tmpPath # p BY <1>1, <1>2, <2>1 DEF PathsOK, Opened, Ended
    <3>2. tmpPath # None => pc'[tmpPath] \in Opened
      BY <1>1, <1>2, <3>1 DEF PathsOK, OnlyRun, TypeOK
    <3>3. QED BY <2>2, <3>1, <3>2 DEF PathsOK, Opened, Torn
  <2>4. RunAlone(p)'
    BY <1>1, <2>2
    DEF RunAlone, PrepareAlone, ResumeAlone, Reported, PrepareSteps, ResumeSteps
  <2>5. ASSUME NEW q \in Runs, q # p PROVE RunAlone(q)'
    <3>1. pc[q] # "done"
      BY <2>1 DEF SInv, RunAlone, Reported, StateFile, Blank
    <3>2. QED BY <1>1, <2>5, <3>1, OthersStay
  <2>6. QED BY <1>1, <2>3, <2>4, <2>5, AloneStays DEF SInv
<1>9. CASE FlushStateFile(p)
  <2> DEFINE receipt == [draft[p] EXCEPT !.phase = "prepared"]
  <2>1. /\ pc[p] = "flush"
        /\ statePath # None
        /\ fd[p] = statePath
        /\ disk[statePath] = Torn
    BY <1>2, <1>9 DEF FlushStateFile, Advance, RunAlone, PrepareAlone
  <2>2. disk' = [disk EXCEPT ![statePath] = receipt]
    BY <1>9, <2>1 DEF FlushStateFile, Written
  <2>3. /\ pc'[p] = "done"
        /\ draft'[p] = receipt
        /\ statePath' = statePath
        /\ tmpPath' = tmpPath
    BY <1>1, <1>9 DEF FlushStateFile, Advance
  <2>4. statePath \in Runs /\ disk'[statePath] = receipt /\ receipt.phase = "prepared"
    BY <1>1, <2>1, <2>2 DEF TypeOK, Receipts
  <2>5. StateFile' = receipt BY <2>1, <2>3, <2>4 DEF StateFile
  <2> HIDE DEF receipt
  <2>6. PathsOK'
    <3>1. pc'[statePath] \in Opened
      BY <1>2, <2>1, <2>3, <2>4 DEF PathsOK, OnlyRun, Opened, Ended
    <3>2. tmpPath # None => pc'[tmpPath] \in Opened
      BY <1>1, <1>2, <2>3 DEF PathsOK, OnlyRun, Opened, Ended, TypeOK
    <3>3. QED BY <1>2, <2>3, <2>4, <3>1, <3>2 DEF PathsOK
  <2>7. RunAlone(p)'
    BY <1>1, <2>3, <2>4, <2>5
    DEF RunAlone, PrepareAlone, ResumeAlone, Reported, SameEvidence,
        PrepareSteps, ResumeSteps
  <2>8. ASSUME NEW q \in Runs, q # p PROVE RunAlone(q)'
    <3>1. pc[q] # "done"
      BY <2>1 DEF SInv, RunAlone, Reported, StateFile, Torn
    <3>2. QED BY <1>1, <2>8, <3>1, OthersStay
  <2>9. QED BY <1>1, <2>6, <2>7, <2>8, AloneStays DEF SInv
<1>10. QED BY <1>3, <1>5, <1>6, <1>7, <1>8, <1>9 DEF PrepareStep

-----------------------------------------------------------------------------
(* resume *)

(* A resume that touches no file goes on with the evidence it has loaded.  *)
LEMMA ResumeQuiet ==
    ASSUME Typed, SInv, NEW p \in Resumers, OnlyRun(p), pc[p] \notin Opened,
           UNCHANGED fileVars,
           pc'[p] \in (ResumeSteps \ {"stage_flush", "publish"}) \cup {"failed"},
           pc'[p] # "failed" => /\ StateFile.phase = "prepared"
                                /\ SameEvidence(StateFile, draft'[p]),
           pc'[p] = "stage" => draft'[p].denial # "none"
    PROVE  SInv'
<1>1. p \in Runs BY DEF Runs
<1>2. OneLive' BY <1>1, AloneStays
<1>3. /\ StateFile' = StateFile
      /\ PathsOK'
      /\ \A q \in Runs : q # p => RunAlone(q)'
  BY <1>1, QuietStep
<1>4. PrepareAlone(p)' /\ Reported(p)'
  BY DEF PrepareAlone, Reported, PrepareSteps, ResumeSteps
<1>5. ResumeAlone(p)' BY <1>3 DEF ResumeAlone, SameEvidence, ResumeSteps
<1>6. QED BY <1>2, <1>3, <1>4, <1>5 DEF SInv, RunAlone

(* A resume that writes beside the state file.                             *)
LEMMA BesideStep ==
    ASSUME Typed, SInv, NEW p \in Resumers, OnlyRun(p), NEW i \in Runs, NEW text \in Receipts,
           i # statePath, disk' = [disk EXCEPT ![i] = text], text.phase # "absent",
           statePath' = statePath, tmpPath' = i, fd'[p] = i,
           i = p \/ i = tmpPath,
           pc'[p] \in Opened, pc[p] \in ResumeSteps
    PROVE  /\ StateFile' = StateFile
           /\ PathsOK'
           /\ disk'[i] = text
           /\ \A q \in Runs : q # p => RunAlone(q)'
<1>1. /\ p \in Runs
      /\ None \notin Runs
      /\ disk \in [Runs -> Receipts]
      /\ statePath \in Runs \cup {None}
      /\ tmpPath \in Runs \cup {None}
  BY JourneyAssumption DEF Runs, Typed, TypeOK
<1>2. disk'[i] = text /\ \A j \in Runs : j # i => disk'[j] = disk[j] BY <1>1
<1>3. StateFile' = StateFile BY <1>1, <1>2 DEF StateFile
<1>4. PathsOK'
  <2>1. \A j \in Runs : pc[j] \in Opened => pc'[j] \in Opened
    BY DEF OnlyRun
  <2>2. PathsOK BY DEF SInv
  <2>3. i # p => tmpPath # None BY <1>1
  <2>4. QED BY <1>1, <1>2, <2>1, <2>2, <2>3 DEF PathsOK
<1>5. ASSUME NEW q \in Runs, q # p PROVE RunAlone(q)'
  BY <1>1, <1>3, <1>5, OthersStay, ReportedStays
<1>6. QED BY <1>2, <1>3, <1>4, <1>5

LEMMA ResumeSerial ==
    ASSUME Typed, SInv, NEW p \in Resumers, OnlyRun(p), LoadState(p) \/ ResumeStep(p)
    PROVE  SInv'
<1>1. /\ p \in Runs
      /\ p \notin Preparers
      /\ p # None
      /\ draft[p] \in Receipts
      /\ TypeOK
      /\ DOMAIN pc = Runs
      /\ DOMAIN draft = Runs
  BY JourneyAssumption DEF Runs, Typed, TypeOK
<1>2. PathsOK /\ RunAlone(p) BY <1>1 DEF SInv
<1>3. CASE LoadState(p)
  <2>1. /\ pc[p] = "idle"
        /\ UNCHANGED fileVars
        /\ pc'[p] \in {"reread", "failed"}
        /\ pc'[p] = "reread" => StateFile.phase = "prepared" /\ draft'[p] = StateFile
    BY <1>1, <1>3 DEF LoadState, Advance
  <2>2. QED BY <1>1, <2>1, ResumeQuiet DEF Opened, Ended, ResumeSteps, SameEvidence
<1>4. ASSUME pc[p] \in ResumeSteps
      PROVE  /\ StateFile.phase = "prepared"
             /\ SameEvidence(StateFile, draft[p])
             /\ statePath # None
             /\ statePath \in Runs
  BY <1>1, <1>2, <1>4 DEF RunAlone, ResumeAlone, StateFile, Blank, TypeOK
<1>5. CASE RereadHead(p) \/ RestartUse(p) \/ RetireHead(p) \/ ObserveRetired(p)
  <2>1. /\ pc[p] \in {"reread", "restart_use", "retire", "observe"}
        /\ pc'[p] \in {"restart_use", "retire", "observe", "probe", "failed"}
        /\ UNCHANGED fileVars
    BY <1>1, <1>5 DEF RereadHead, RestartUse, RetireHead, ObserveRetired, Advance
  <2>2. pc'[p] # "failed" => SameEvidence(draft[p], draft'[p])
    BY <1>1, <1>5
    DEF RereadHead, RestartUse, RetireHead, ObserveRetired, Advance, SameEvidence, Receipts
  <2>3. pc'[p] # "failed" => SameEvidence(StateFile, draft'[p])
    BY <1>4, <2>1, <2>2 DEF SameEvidence, ResumeSteps
  <2>4. QED BY <1>1, <1>4, <2>1, <2>3, ResumeQuiet DEF Opened, Ended, ResumeSteps
<1>6. CASE ProbeRefusal(p)
  <2>1. /\ pc[p] = "probe"
        /\ pc'[p] \in {"stage", "failed"}
        /\ UNCHANGED fileVars
    BY <1>1, <1>6 DEF ProbeRefusal, Advance
  <2>2. pc'[p] = "stage" => \E code \in Denials \ {"none"} :
                              draft'[p] = [draft[p] EXCEPT !.denial = code]
    BY <1>1, <1>6 DEF ProbeRefusal, Advance
  <2>3. pc'[p] = "stage" => SameEvidence(draft[p], draft'[p]) /\ draft'[p].denial # "none"
    BY <1>1, <2>2 DEF SameEvidence, Receipts, Denials
  <2>4. pc'[p] = "stage" => SameEvidence(StateFile, draft'[p])
    BY <1>4, <2>1, <2>3 DEF SameEvidence, ResumeSteps
  <2>5. QED BY <1>1, <1>4, <2>1, <2>3, <2>4, ResumeQuiet DEF Opened, Ended, ResumeSteps
<1>7. CASE OpenTemporary(p)
  <2> DEFINE inode == IF tmpPath = None THEN p ELSE tmpPath
  <2>1. /\ pc[p] = "stage"
        /\ pc'[p] = "stage_flush"
        /\ draft'[p] = draft[p]
        /\ tmpPath' = inode
        /\ fd'[p] = inode
        /\ disk' = [disk EXCEPT ![inode] = Torn]
        /\ statePath' = statePath
    BY <1>1, <1>7 DEF OpenTemporary, Advance, TypeOK
  <2>2. inode \in Runs /\ inode # statePath /\ (inode = p \/ inode = tmpPath)
    BY <1>1, <1>2, <1>4, <2>1 DEF PathsOK, Opened, Ended, TypeOK, ResumeSteps
  <2> HIDE DEF inode
  <2>3. Torn \in Receipts /\ Torn.phase # "absent" BY BlankType DEF Torn, Blank
  <2>4. /\ StateFile' = StateFile
        /\ PathsOK'
        /\ disk'[inode] = Torn
        /\ \A q \in Runs : q # p => RunAlone(q)'
    <3>1. pc[p] \in ResumeSteps /\ pc'[p] \in Opened /\ fd'[p] = inode
      BY <2>1 DEF Opened, ResumeSteps
    <3>2. QED BY <1>1, <2>1, <2>2, <2>3, <3>1, BesideStep
  <2>5. PrepareAlone(p)' /\ Reported(p)'
    BY <2>1 DEF PrepareAlone, Reported, PrepareSteps
  <2>6. draft[p].denial # "none" BY <1>2, <2>1 DEF RunAlone, ResumeAlone
  <2>7. ResumeAlone(p)'
    BY <1>1, <1>4, <2>1, <2>2, <2>4, <2>6, JourneyAssumption
    DEF ResumeAlone, SameEvidence, ResumeSteps
  <2>8. QED BY <1>1, <2>4, <2>5, <2>7, AloneStays DEF SInv, RunAlone
<1>8. CASE FlushTemporary(p)
  <2> DEFINE receipt == [draft[p] EXCEPT !.phase = "complete"]
  <2>1. /\ pc[p] = "stage_flush"
        /\ pc'[p] = "publish"
        /\ draft'[p] = receipt
        /\ fd' = fd
        /\ tmpPath' = tmpPath
        /\ statePath' = statePath
    BY <1>1, <1>8 DEF FlushTemporary, Advance
  <2>2. /\ tmpPath # None
        /\ fd[p] = tmpPath
        /\ disk[tmpPath] = Torn
        /\ draft[p].denial # "none"
    BY <1>2, <2>1 DEF RunAlone, ResumeAlone
  <2>3. disk' = [disk EXCEPT ![tmpPath] = receipt]
    BY <1>8, <2>2 DEF FlushTemporary, Written
  <2>4. /\ receipt \in Receipts
        /\ receipt.phase = "complete"
        /\ receipt.denial = draft[p].denial
        /\ SameEvidence(draft[p], receipt)
    BY <1>1 DEF Receipts, SameEvidence
  <2> HIDE DEF receipt
  <2>5. tmpPath \in Runs /\ tmpPath # statePath
    BY <1>1, <1>2, <2>2 DEF PathsOK, TypeOK
  <2>6. /\ StateFile' = StateFile
        /\ PathsOK'
        /\ disk'[tmpPath] = receipt
        /\ \A q \in Runs : q # p => RunAlone(q)'
    <3>1. pc[p] \in ResumeSteps /\ pc'[p] \in Opened /\ fd'[p] = tmpPath
      BY <2>1, <2>2 DEF Opened, ResumeSteps
    <3>2. QED BY <1>1, <2>1, <2>2, <2>3, <2>4, <2>5, <3>1, BesideStep
  <2>7. PrepareAlone(p)' /\ Reported(p)'
    BY <2>1 DEF PrepareAlone, Reported, PrepareSteps
  <2>8. SameEvidence(StateFile, receipt) /\ StateFile.phase = "prepared"
    BY <1>4, <2>1, <2>4 DEF SameEvidence, ResumeSteps
  <2>9. ResumeAlone(p)'
    BY <2>1, <2>2, <2>4, <2>6, <2>8 DEF ResumeAlone, SameEvidence
  <2>10. QED BY <1>1, <2>6, <2>7, <2>9, AloneStays DEF SInv, RunAlone
<1>9. CASE Publish(p)
  <2>1. /\ pc[p] = "publish"
        /\ tmpPath # None
        /\ disk[tmpPath] = draft[p]
        /\ draft[p].phase = "complete"
    BY <1>2, <1>9 DEF Publish, Advance, RunAlone, ResumeAlone
  <2>2. /\ pc'[p] = "done"
        /\ draft'[p] = draft[p]
        /\ disk' = disk
        /\ statePath' = tmpPath
        /\ tmpPath' = None
    BY <1>1, <1>9, <2>1 DEF Publish, Advance
  <2>3. StateFile' = draft[p] BY <2>1, <2>2 DEF StateFile
  <2>4. PathsOK'
    <3>1. pc'[tmpPath] \in Opened
      BY <1>1, <1>2, <2>1, <2>2 DEF PathsOK, OnlyRun, Opened, Ended, TypeOK
    <3>2. QED BY <2>1, <2>2, <3>1 DEF PathsOK
  <2>5. RunAlone(p)'
    BY <1>1, <2>1, <2>2, <2>3
    DEF RunAlone, PrepareAlone, ResumeAlone, Reported, SameEvidence, PrepareSteps,
        ResumeSteps
  <2>6. ASSUME NEW q \in Runs, q # p PROVE RunAlone(q)'
    <3>1. pc[q] = "done" => q \notin Resumers /\ SameEvidence(StateFile, draft[q])
      BY <1>4, <2>1 DEF SInv, RunAlone, Reported, ResumeSteps
    <3>2. SameEvidence(StateFile, draft[p]) BY <1>4, <2>1 DEF ResumeSteps
    <3>3. draft'[q] = draft[q] BY <2>6 DEF OnlyRun
    <3>4. pc[q] = "done" => Reported(q)'
      BY <2>1, <2>3, <3>1, <3>2, <3>3 DEF Reported, SameEvidence
    <3>5. QED BY <1>1, <2>6, <3>4, OthersStay
  <2>7. QED BY <1>1, <2>4, <2>5, <2>6, AloneStays DEF SInv
<1>10. QED BY <1>3, <1>5, <1>6, <1>7, <1>8, <1>9 DEF ResumeStep

-----------------------------------------------------------------------------
(* Every step *)

LEMMA AbandonSerial ==
    ASSUME Typed, SInv, NEW p \in Runs, Abandon(p)
    PROVE  SInv'
<1>1. OnlyRun(p) BY DEF Abandon, OnlyRun, SInv, OneLive, Live, Typed, TypeOK
<1>2. pc'[p] = "failed" /\ UNCHANGED fileVars /\ StateFile' = StateFile
  BY DEF Abandon, Typed, TypeOK, fileVars, StateFile
<1>3. PathsOK'
  <2>1. \A q \in Runs : pc[q] \in Opened => pc'[q] \in Opened
    BY <1>1, <1>2 DEF OnlyRun, Opened, Ended
  <2>2. PathsOK BY DEF SInv
  <2>3. QED BY <1>2, <2>1, <2>2 DEF PathsOK, fileVars, Typed, TypeOK
<1>4. RunAlone(p)'
  BY <1>2 DEF RunAlone, PrepareAlone, ResumeAlone, Reported, PrepareSteps, ResumeSteps
<1>5. ASSUME NEW q \in Runs, q # p PROVE RunAlone(q)'
  BY <1>1, <1>2, <1>5, OthersStay, ReportedStays
<1>6. QED BY <1>1, <1>3, <1>4, <1>5, AloneStays DEF SInv

LEMMA IdleSerial ==
    ASSUME SInv, UNCHANGED <<pc, draft, fileVars, reviews>>
    PROVE  SInv'
<1>1. /\ pc' = pc
      /\ draft' = draft
      /\ fd' = fd
      /\ disk' = disk
      /\ statePath' = statePath
      /\ tmpPath' = tmpPath
      /\ reviews' = reviews
  BY DEF fileVars
<1>2. StateFile' = StateFile BY <1>1 DEF StateFile
<1>3. OneLive' /\ PathsOK' BY <1>1 DEF SInv, OneLive, PathsOK, Live
<1>4. ASSUME NEW p \in Runs PROVE RunAlone(p)'
  <2>1. RunAlone(p) BY DEF SInv
  <2>2. PrepareAlone(p)' BY <1>1, <2>1 DEF RunAlone, PrepareAlone
  <2>3. ResumeAlone(p)' BY <1>1, <1>2, <2>1 DEF RunAlone, ResumeAlone, SameEvidence
  <2>4. Reported(p)' BY <1>1, <1>2, <2>1 DEF RunAlone, Reported, SameEvidence
  <2>5. QED BY <2>2, <2>3, <2>4 DEF RunAlone
<1>5. QED BY <1>3, <1>4 DEF SInv

LEMMA NextSerial ==
    ASSUME ~Overlap, Typed, SInv, [Next]_vars
    PROVE  SInv'
<1>1. OneLive BY DEF SInv
<1>2. ASSUME NEW p \in Preparers, CheckAbsent(p) \/ PrepareStep(p) PROVE SInv'
  <2>1. p \in Runs /\ RunStep(p) BY <1>2 DEF Runs, RunStep
  <2>2. QED BY <1>1, <1>2, <2>1, StepIsAlone, PrepareSerial
<1>3. ASSUME NEW p \in Resumers, LoadState(p) \/ ResumeStep(p) PROVE SInv'
  <2>1. p \in Runs /\ RunStep(p) BY <1>3 DEF Runs, RunStep
  <2>2. QED BY <1>1, <1>3, <2>1, StepIsAlone, ResumeSerial
<1>4. CASE UNCHANGED vars
  BY <1>4, IdleSerial DEF vars, coreVars, fileVars
<1>5. ASSUME NEW k \in Keys, OtherActs(k) PROVE SInv'
  BY <1>5, IdleSerial
  DEF OtherActs, OtherOperator, OtherApproves, OtherRetires, OtherReactivates
<1>6. QED BY <1>2, <1>3, <1>4, <1>5, AbandonSerial DEF Next

LEMMA InitSerial ==
    ASSUME Init
    PROVE  SInv
<1>1. \A p \in Runs : pc[p] = "idle" BY DEF Init
<1>2. OneLive BY <1>1 DEF OneLive, Live
<1>3. PathsOK BY DEF Init, PathsOK
<1>4. \A p \in Runs : RunAlone(p)
  BY <1>1 DEF RunAlone, PrepareAlone, ResumeAlone, Reported, PrepareSteps, ResumeSteps
<1>5. QED BY <1>2, <1>3, <1>4 DEF SInv

LEMMA SerialInductive ==
    ASSUME ~Overlap
    PROVE  Spec => [](Typed /\ IInv /\ SInv)
<1>1. Init => SInv BY InitSerial
<1>2. Typed /\ SInv /\ [Next]_vars => SInv' BY NextSerial
<1>3. QED BY <1>1, <1>2, Inductive, PTL DEF Spec

-----------------------------------------------------------------------------
(* What changes the state file, and when *)

(* A prepare opens a file that is not there and fills a torn one; a resume *)
(* replaces a prepared receipt by its completed copy.                      *)
Opens(p) == /\ OpenStateFile(p)
            /\ StateFile = Blank
            /\ StateFile' = Torn

Fills(p) == /\ FlushStateFile(p)
            /\ StateFile = Torn
            /\ StateFile' = [draft[p] EXCEPT !.phase = "prepared"]

Replaces(p) == /\ Publish(p)
               /\ StateFile.phase = "prepared"
               /\ SameEvidence(StateFile, draft[p])
               /\ StateFile' = draft[p]
               /\ draft[p].phase = "complete"
               /\ draft[p].denial # "none"
               /\ disk[tmpPath] = draft[p]
               /\ tmpPath \in Runs

LEMMA PrepareWrites ==
    ASSUME Typed, SInv, NEW p \in Preparers, CheckAbsent(p) \/ PrepareStep(p)
    PROVE  StateFile' = StateFile \/ Opens(p) \/ Fills(p)
<1>1. /\ p \in Runs
      /\ None \notin Runs
      /\ draft[p] \in Receipts
      /\ TypeOK
      /\ RunAlone(p)
  BY JourneyAssumption DEF Runs, Typed, TypeOK, SInv
<1>2. CASE OpenStateFile(p)
  <2>1. statePath = None
    BY <1>1, <1>2 DEF OpenStateFile, Advance, RunAlone, PrepareAlone, PrepareSteps
  <2>2. statePath' = p /\ disk'[p] = Torn
    BY <1>1, <1>2, <2>1 DEF OpenStateFile, TypeOK
  <2>3. QED BY <1>1, <1>2, <2>1, <2>2 DEF Opens, StateFile
<1>3. CASE FlushStateFile(p)
  <2> DEFINE receipt == [draft[p] EXCEPT !.phase = "prepared"]
  <2>1. /\ statePath # None
        /\ fd[p] = statePath
        /\ disk[statePath] = Torn
    BY <1>1, <1>3 DEF FlushStateFile, Advance, RunAlone, PrepareAlone
  <2>2. disk' = [disk EXCEPT ![statePath] = receipt] /\ statePath' = statePath
    BY <1>3, <2>1 DEF FlushStateFile, Written
  <2>3. disk'[statePath] = receipt BY <1>1, <2>1, <2>2 DEF TypeOK
  <2>4. StateFile = Torn /\ StateFile' = receipt BY <2>1, <2>2, <2>3 DEF StateFile
  <2>5. QED BY <1>3, <2>4 DEF Fills
<1>4. CASE UNCHANGED fileVars BY <1>4 DEF fileVars, StateFile
<1>5. QED
  BY <1>2, <1>3, <1>4
  DEF PrepareStep, CheckAbsent, TeachProposal, InspectProposal, ReviewApprove, ConfirmHead,
      FirstUse, RecheckAbsent

LEMMA ResumeWrites ==
    ASSUME Typed, SInv, NEW p \in Resumers, LoadState(p) \/ ResumeStep(p)
    PROVE  StateFile' = StateFile \/ Replaces(p)
<1>1. /\ p \in Runs
      /\ None \notin Runs
      /\ TypeOK
      /\ PathsOK
      /\ RunAlone(p)
  BY JourneyAssumption DEF Runs, Typed, TypeOK, SInv
<1>2. CASE OpenTemporary(p)
  <2>1. statePath # p
    BY <1>1, <1>2 DEF OpenTemporary, Advance, PathsOK, Opened, Ended
  <2>2. QED BY <1>1, <1>2, <2>1 DEF OpenTemporary, PathsOK, StateFile, TypeOK
<1>3. CASE FlushTemporary(p)
  <2>1. tmpPath # None /\ fd[p] = tmpPath
    BY <1>1, <1>3 DEF FlushTemporary, Advance, RunAlone, ResumeAlone
  <2>2. QED BY <1>1, <1>3, <2>1 DEF FlushTemporary, PathsOK, StateFile, TypeOK
<1>4. CASE Publish(p)
  <2>1. /\ StateFile.phase = "prepared"
        /\ SameEvidence(StateFile, draft[p])
        /\ tmpPath # None
        /\ disk[tmpPath] = draft[p]
        /\ draft[p].phase = "complete"
        /\ draft[p].denial # "none"
    BY <1>1, <1>4 DEF Publish, Advance, RunAlone, ResumeAlone, ResumeSteps
  <2>2. statePath' = tmpPath /\ disk' = disk /\ tmpPath \in Runs
    BY <1>1, <1>4, <2>1 DEF Publish, TypeOK
  <2>3. QED BY <1>4, <2>1, <2>2 DEF Replaces, StateFile
<1>5. CASE UNCHANGED fileVars BY <1>5 DEF fileVars, StateFile
<1>6. QED
  BY <1>2, <1>3, <1>4, <1>5
  DEF ResumeStep, LoadState, RereadHead, RestartUse, RetireHead, ObserveRetired, ProbeRefusal

LEMMA StateFileWrites ==
    ASSUME Typed, SInv, [Next]_vars
    PROVE  \/ StateFile' = StateFile
           \/ \E p \in Preparers : Opens(p) \/ Fills(p)
           \/ \E p \in Resumers : Replaces(p)
<1>1. CASE \E p \in Preparers : CheckAbsent(p) \/ PrepareStep(p) BY <1>1, PrepareWrites
<1>2. CASE \E p \in Resumers : LoadState(p) \/ ResumeStep(p) BY <1>2, ResumeWrites
<1>3. CASE \/ \E p \in Runs : Abandon(p)
           \/ \E k \in Keys : OtherActs(k)
           \/ UNCHANGED vars
  BY <1>3 DEF Abandon, OtherActs, vars, fileVars, StateFile
<1>4. QED BY <1>1, <1>2, <1>3 DEF Next

(* Generations only grow.                                                  *)
LEMMA GenerationGrows ==
    ASSUME Typed, [Next]_vars, NEW k \in Keys
    PROVE  /\ head[k].generation \in Nat
           /\ head'[k].generation \in Nat
           /\ head'[k].generation >= head[k].generation
<1>1. head[k].generation \in Nat BY DEF Typed, TypeOK, CoreTypeOK, Heads
<1>2. head'[k] = head[k] \/ head'[k].generation = head[k].generation + 1
  BY NextGrows DEF CoreGrows
<1>3. QED BY <1>1, <1>2

(* A prepare is past its review only if it was, or has just been reviewed  *)
(* against a key with no head.                                             *)
Late == PrepareSteps \ {"teach", "inspect", "review"}

LEMMA LateStep ==
    ASSUME Typed, SInv, [Next]_vars, NEW p \in Preparers, pc'[p] \in Late
    PROVE  /\ draft'[p].scenario = draft[p].scenario
           /\ pc[p] \in Late \/ head[Key(p)].generation = 0
<1>1. /\ p \in Runs
      /\ p \notin Resumers
      /\ TypeOK
      /\ Typed'
      /\ RunAlone(p)
  BY NextTyped, JourneyAssumption DEF Runs, Typed, SInv
<1>2. draft'[p].scenario = ScenarioOf[p]
  BY <1>1 DEF Typed, Live, Late, PrepareSteps, Ended
<1>3. Live(p) => draft[p].scenario = ScenarioOf[p] BY <1>1 DEF Typed
<1>4. CASE pc'[p] = pc[p]
  BY <1>2, <1>3, <1>4 DEF Live, Late, PrepareSteps, Ended
<1>5. CASE CheckAbsent(p) \/ PrepareStep(p)
  <2>1. CASE ReviewApprove(p)
    <3>1. pc[p] = "review" /\ pc'[p] = "confirm"
      BY <1>1, <2>1 DEF ReviewApprove, Advance, TypeOK, Late, PrepareSteps
    <3>2. Approve(Key(p), draft[p].revision, 0)
      BY <1>1, <2>1, <3>1 DEF ReviewApprove, Advance, TypeOK
    <3>3. draft[p].revision \notin reviews BY <1>1, <3>1 DEF RunAlone, PrepareAlone
    <3>4. head[Key(p)].generation = 0 BY <3>2, <3>3 DEF Approve, CanApprove
    <3>5. QED BY <1>2, <1>3, <3>1, <3>4 DEF Live, Ended
  <2>2. CASE ~ReviewApprove(p)
    <3>1. pc[p] \in Late
      BY <1>1, <1>5, <2>2
      DEF CheckAbsent, PrepareStep, TeachProposal, InspectProposal, ConfirmHead, FirstUse,
          RecheckAbsent, OpenStateFile, FlushStateFile, Advance, TypeOK, Late, PrepareSteps
    <3>2. QED BY <1>2, <1>3, <3>1 DEF Live, Late, PrepareSteps, Ended
  <2>3. QED BY <2>1, <2>2
<1>6. CASE \E q \in Runs : Abandon(q)
  <2>1. pc'[p] \in {pc[p], "failed"} BY <1>1, <1>6 DEF Abandon, TypeOK
  <2>2. QED BY <1>4, <2>1 DEF Late, PrepareSteps
<1>7. ASSUME NEW q \in Runs, RunStep(q), q # p PROVE pc'[p] = pc[p]
  <2>1. PICK ok \in BOOLEAN : \E from, to, filled : Advance(q, from, ok, to, filled)
    BY <1>7, StepIsAdvance
  <2>2. QED BY <1>1, <1>7, <2>1 DEF Advance, TypeOK
<1>8. CASE \E q \in Runs : RunStep(q)
  <2>1. RunStep(p) => CheckAbsent(p) \/ PrepareStep(p) BY <1>1 DEF RunStep
  <2>2. QED BY <1>4, <1>5, <1>7, <1>8, <2>1
<1>9. CASE (\E k \in Keys : OtherActs(k)) \/ UNCHANGED vars
  BY <1>4, <1>9 DEF OtherActs, vars
<1>10. QED BY <1>6, <1>8, <1>9 DEF Next, RunStep, Runs

-----------------------------------------------------------------------------
(* The theorems *)

(* When runs do not overlap, what a run reports is what the state file     *)
(* holds, from then on (gc1_external_consumer.py, prepare, resume, main).  *)
THEOREM ReportsAreRecorded ==
    ASSUME ~Overlap
    PROVE  Spec => []ReportedIsRecorded
<1>1. SInv => ReportedIsRecorded
  BY DEF SInv, RunAlone, Reported, SameEvidence, ReportedIsRecorded
<1>2. QED BY <1>1, SerialInductive, PTL

(* When runs do not overlap, the state file is the receipt of module       *)
(* EvidenceReceipt: recorded once, completed once and never lost, torn or  *)
(* rewritten in between, wherever a run dies (gc1_external_consumer.py,    *)
(* _write_new and _replace).                                               *)
THEOREM ReceiptIsImplemented ==
    ASSUME ~Overlap
    PROVE  Spec => ReceiptSpec
<1> DEFINE View == IF StateFile.phase = "torn" THEN Blank ELSE StateFile
<1>1. Init => Receipt!Init
  BY DEF Init, Receipt!Init, StateFile, Blank
<1>2. ASSUME Typed, IInv, SInv, [Next]_vars
      PROVE  [Receipt!Next]_View
  <2>1. CASE StateFile' = StateFile BY <2>1
  <2>2. ASSUME NEW p \in Preparers, Opens(p) PROVE View' = View
    BY <2>2 DEF Opens, Torn, Blank
  <2>3. ASSUME NEW p \in Preparers, Fills(p) PROVE Receipt!Record
    <3> DEFINE receipt == [draft[p] EXCEPT !.phase = "prepared"]
    <3>1. StateFile = Torn /\ StateFile' = receipt BY <2>3 DEF Fills
    <3>2. p \in Runs /\ draft[p] \in Receipts BY <1>2 DEF Runs, Typed, TypeOK
    <3>3. Recorded(draft[p])
      BY <1>2, <2>3, <3>2
      DEF IInv, DraftBacked, Fills, FlushStateFile, Advance, AfterFirstUse
    <3>4. /\ receipt.phase = "prepared"
          /\ receipt.head = draft[p].head
          /\ receipt.revision = draft[p].revision
          /\ receipt.firstUse = draft[p].firstUse
      BY <3>2 DEF Receipts
    <3> HIDE DEF receipt
    <3>5. View = Blank /\ View' = receipt BY <3>1, <3>4 DEF Torn, Blank
    <3>6. QED BY <3>3, <3>4, <3>5 DEF Receipt!Record, Recorded, Prepared
  <2>4. ASSUME NEW p \in Resumers, Replaces(p) PROVE Receipt!Complete
    <3>1. /\ StateFile.phase = "prepared"
          /\ SameEvidence(StateFile, draft[p])
          /\ StateFile' = draft[p]
          /\ draft[p].phase = "complete"
          /\ draft[p].denial # "none"
      BY <2>4 DEF Replaces
    <3>2. View = StateFile /\ View' = draft[p] BY <3>1
    <3>3. Completed(draft[p])
      BY <1>2, <2>4 DEF Replaces, IInv, DiskBacked
    <3>4. QED BY <3>1, <3>2, <3>3 DEF Receipt!Complete, SameEvidence, Completed
  <2>5. QED BY <1>2, <2>1, <2>2, <2>3, <2>4, StateFileWrites DEF Receipt!Next
<1>3. QED
  BY <1>1, <1>2, SerialInductive, PTL DEF Spec, ReceiptSpec, Receipt!Spec

(* When runs do not overlap, a receipt whose head has moved on is never    *)
(* completed, whatever was retired or reactivated since                    *)
(* (gc1_external_consumer.py, resume).                                     *)
THEOREM OutdatedStays ==
    ASSUME ~Overlap
    PROVE  Spec => OutdatedIsFinal
<1>1. ASSUME Typed, IInv, SInv, [Next]_vars, Outdated
      PROVE  Outdated'
  <2> DEFINE k == KeyOf[StateFile.scenario]
  <2>1. StateFile' = StateFile
    <3>1. StateFile # Blank /\ StateFile # Torn BY <1>1 DEF Outdated, Blank, Torn
    <3>2. \A p \in Resumers : ~Publish(p)
      BY <1>1 DEF Outdated, Publish, Advance, ResumeSteps
    <3>3. QED BY <1>1, <3>1, <3>2, StateFileWrites DEF Opens, Fills, Replaces
  <2>2. /\ k \in Keys
        /\ StateFile.head.generation \in Nat
    <3>1. statePath \in Runs /\ StateFile = disk[statePath]
      BY <1>1 DEF Outdated, StateFile, Blank, Typed, TypeOK
    <3>2. StateFile.scenario \in Scenarios
      BY <1>1, <3>1 DEF Outdated, IInv, DiskBacked, Recorded
    <3>3. StateFile.head.generation \in Nat
      BY <1>1, StateFileType DEF Typed, Receipts, Heads
    <3>4. QED BY <3>2, <3>3, JourneyAssumption
  <2>3. head'[k].generation > StateFile.head.generation
    <3>1. head[k].generation > StateFile.head.generation BY <1>1 DEF Outdated
    <3>2. /\ head[k].generation \in Nat
          /\ head'[k].generation \in Nat
          /\ head'[k].generation >= head[k].generation
      BY <1>1, <2>2, GenerationGrows
    <3> HIDE DEF k
    <3>3. QED BY <2>2, <3>1, <3>2
  <2>4. ASSUME NEW p \in Resumers PROVE pc'[p] \notin ResumeSteps \ {"reread"}
    <3>1. p \in Runs /\ p \notin Preparers BY JourneyAssumption DEF Runs
    <3>2. pc[p] \notin ResumeSteps \ {"reread"} BY <1>1 DEF Outdated
    <3>3. CASE pc'[p] = pc[p] BY <3>2, <3>3
    <3>4. CASE \E q \in Runs : Abandon(q)
      <4>1. pc'[p] \in {pc[p], "failed"} BY <1>1, <3>1, <3>4 DEF Abandon, Typed, TypeOK
      <4>2. QED BY <3>2, <4>1 DEF ResumeSteps
    <3>5. CASE LoadState(p) \/ ResumeStep(p)
      <4>1. ~RereadHead(p) \/ pc'[p] = "failed"
        <5>1. SUFFICES ASSUME RereadHead(p), head[Key(p)] = draft[p].head PROVE FALSE
          BY <1>1, <3>1 DEF RereadHead, Advance, Typed, TypeOK
        <5>2. SameEvidence(StateFile, draft[p])
          BY <1>1, <3>1, <5>1
          DEF SInv, RunAlone, ResumeAlone, RereadHead, ResumeSteps
        <5>3. head[k] = StateFile.head BY <5>1, <5>2 DEF SameEvidence, Key
        <5>4. head[k].generation > StateFile.head.generation BY <1>1 DEF Outdated
        <5> HIDE DEF k
        <5>5. QED BY <2>2, <5>3, <5>4
      <4>2. pc'[p] \in {"reread", "failed"}
        BY <1>1, <3>1, <3>2, <3>5, <4>1
        DEF LoadState, ResumeStep, RestartUse, RetireHead, ObserveRetired, ProbeRefusal,
            OpenTemporary, FlushTemporary, Publish, Advance, Typed, TypeOK, ResumeSteps
      <4>3. QED BY <4>2 DEF ResumeSteps
    <3>6. ASSUME NEW q \in Runs, RunStep(q), q # p PROVE pc'[p] = pc[p]
      <4>1. PICK ok \in BOOLEAN : \E from, to, filled : Advance(q, from, ok, to, filled)
        BY <3>6, StepIsAdvance
      <4>2. QED BY <1>1, <3>1, <3>6, <4>1 DEF Advance, Typed, TypeOK
    <3>7. CASE \E q \in Runs : RunStep(q)
      <4>1. RunStep(p) => LoadState(p) \/ ResumeStep(p) BY <3>1 DEF RunStep
      <4>2. QED BY <3>3, <3>5, <3>6, <3>7, <4>1
    <3>8. CASE (\E j \in Keys : OtherActs(j)) \/ UNCHANGED vars
      BY <3>3, <3>8 DEF OtherActs, vars
    <3>9. QED BY <1>1, <3>4, <3>7, <3>8 DEF Next, RunStep, Runs
  <2>5. QED BY <1>1, <2>1, <2>3, <2>4 DEF Outdated
<1>2. QED BY <1>1, SerialInductive, PTL DEF Spec, OutdatedIsFinal

(* When runs do not overlap, an approval that no receipt records is never  *)
(* adopted by a later prepare (gc1_external_consumer.py, prepare, the      *)
(* review at generation 0).                                                *)
THEOREM OrphansStay ==
    ASSUME ~Overlap
    PROVE  Spec => OrphanIsNeverRecorded
<1>1. ASSUME Typed, IInv, SInv, [Next]_vars, NEW k \in Keys, Orphaned(k)
      PROVE  Orphaned(k)'
  <2>1. head[k].generation > 0 BY <1>1 DEF Orphaned
  <2>2. head'[k].generation > 0
    <3>1. /\ head[k].generation \in Nat
          /\ head'[k].generation \in Nat
          /\ head'[k].generation >= head[k].generation
      BY <1>1, GenerationGrows
    <3>2. QED BY <2>1, <3>1
  <2>3. ~ (StateFile'.phase \in {"prepared", "complete"} /\ KeyOf[StateFile'.scenario] = k)
    <3>1. ~ (StateFile.phase \in {"prepared", "complete"} /\ KeyOf[StateFile.scenario] = k)
      BY <1>1 DEF Orphaned
    <3>2. CASE StateFile' = StateFile BY <3>1, <3>2
    <3>3. ASSUME NEW p \in Preparers, Opens(p) PROVE StateFile'.phase = "torn"
      BY <3>3 DEF Opens, Torn, Blank
    <3>4. ASSUME NEW p \in Preparers, Fills(p) PROVE KeyOf[StateFile'.scenario] # k
      <4>1. pc[p] = "flush" /\ StateFile' = [draft[p] EXCEPT !.phase = "prepared"]
        BY <3>4 DEF Fills, FlushStateFile, Advance
      <4>2. draft[p] \in Receipts BY <1>1 DEF Runs, Typed, TypeOK
      <4>3. StateFile'.scenario = draft[p].scenario BY <4>1, <4>2 DEF Receipts
      <4>4. Key(p) # k BY <1>1, <4>1 DEF Orphaned, PrepareSteps
      <4>5. QED BY <4>3, <4>4 DEF Key
    <3>5. ASSUME NEW p \in Resumers, Replaces(p) PROVE KeyOf[StateFile'.scenario] # k
      BY <3>1, <3>5 DEF Replaces, SameEvidence
    <3>6. QED BY <1>1, <3>2, <3>3, <3>4, <3>5, StateFileWrites
  <2>4. ASSUME NEW p \in Preparers, pc'[p] \in Late PROVE KeyOf[draft'[p].scenario] # k
    <3>1. /\ draft'[p].scenario = draft[p].scenario
          /\ pc[p] \in Late \/ head[Key(p)].generation = 0
      BY <1>1, <2>4, LateStep
    <3>2. pc[p] \in Late => Key(p) # k BY <1>1 DEF Orphaned, Late
    <3>3. Key(p) # k BY <2>1, <3>1, <3>2
    <3>4. QED BY <3>1, <3>3 DEF Key
  <2>5. QED BY <2>2, <2>3, <2>4 DEF Orphaned, Late, Key
<1> DEFINE A == \A k \in Keys : Orphaned(k) => Orphaned(k)'
<1>2. Typed /\ IInv /\ SInv /\ [Next]_vars => A
  BY <1>1
<1> HIDE DEF A
<1>3. Spec => [][A]_vars
  BY <1>2, SerialInductive, PTL DEF Spec
<1>4. QED BY <1>3 DEF A, OrphanIsNeverRecorded

-----------------------------------------------------------------------------
(* Runs that nobody disturbs *)

(* What the service holds, and what live runs know of it, as long as no    *)
(* run has died and no other operator has acted: a task reports the        *)
(* revision that is active, the use after the retirement never completed,  *)
(* and the head a receipt records is the head until its resume retires it. *)
PastRetire == {"observe", "probe", "stage", "stage_flush", "publish"}

HeadsKnown ==
    \A k \in Keys : head[k].generation = 0 => head[k].active = None

TasksCurrent ==
    \A k \in Keys, prompt \in Prompts, r \in Revisions :
        <<k, prompt, r>> \in tasks =>
            head[k].active = r /\ prompt # "post_retirement_use"

PrepareCurrent(p) == pc[p] \in AfterConfirm => head[Key(p)] = draft[p].head

ReceiptCurrent ==
    (StateFile.phase = "prepared" /\ \A p \in Resumers : pc[p] \notin PastRetire)
        => head[KeyOf[StateFile.scenario]] = StateFile.head

RetirementCurrent(p) ==
    pc[p] \in {"observe", "probe"} => head[Key(p)].lifecycle = "retired"

Undisturbed ==
    /\ HeadsKnown
    /\ TasksCurrent
    /\ \A p \in Preparers : PrepareCurrent(p)
    /\ ReceiptCurrent
    /\ \A p \in Resumers : RetirementCurrent(p)

UInv == ~disturbed => Undisturbed

(* What an undisturbed resume works on.                                    *)
LEMMA ResumeKnows ==
    ASSUME Typed, IInv, SInv, Undisturbed, NEW p \in Resumers, pc[p] \in ResumeSteps
    PROVE  /\ Key(p) \in Keys
           /\ draft[p].revision \in Revisions
           /\ StateFile.phase = "prepared"
           /\ StateFile.head = draft[p].head
           /\ KeyOf[StateFile.scenario] = Key(p)
           /\ draft[p].head.lifecycle = "active"
           /\ draft[p].head.active = draft[p].revision
           /\ pc[p] \notin PastRetire => head[Key(p)] = draft[p].head
<1>1. p \in Runs /\ Live(p) BY DEF Runs, Live, Ended, ResumeSteps
<1>2. /\ Key(p) \in Keys
      /\ StateFile.phase = "prepared"
      /\ SameEvidence(StateFile, draft[p])
      /\ Recorded(draft[p])
  BY <1>1, KeyType DEF SInv, RunAlone, ResumeAlone, IInv, DraftBacked
<1>3. /\ draft[p].revision \in Revisions
      /\ draft[p].head.lifecycle = "active"
      /\ draft[p].head.active = draft[p].revision
  BY <1>2 DEF Recorded, Prepared, Typed, TypeOK, CoreTypeOK
<1>4. pc[p] \notin PastRetire => head[Key(p)] = draft[p].head
  <2>1. \A q \in Resumers : q # p => pc[q] \notin PastRetire
    BY <1>1 DEF SInv, OneLive, Runs, Live, Ended, PastRetire
  <2>2. QED BY <1>2, <2>1 DEF Undisturbed, ReceiptCurrent, SameEvidence, Key
<1>5. QED BY <1>2, <1>3, <1>4 DEF SameEvidence, Key

(* No command of an undisturbed resume fails.                              *)
LEMMA ResumeSucceeds ==
    ASSUME Typed, IInv, SInv, Undisturbed, NEW p \in Resumers, ResumeStep(p)
    PROVE  /\ pc[p] = "reread" => RereadHead(p) /\ pc'[p] = "restart_use"
           /\ pc[p] = "restart_use" => RestartUse(p) /\ pc'[p] = "retire"
           /\ pc[p] = "retire" =>
                /\ Retire(Key(p), draft[p].head.generation)
                /\ head'[Key(p)].lifecycle = "retired"
                /\ pc'[p] = "observe"
           /\ pc[p] = "observe" => ObserveRetired(p) /\ pc'[p] = "probe"
           /\ pc[p] = "probe" => pc'[p] = "stage" /\ UNCHANGED coreVars
           /\ pc[p] = "stage" => OpenTemporary(p) /\ pc'[p] = "stage_flush"
           /\ pc[p] = "stage_flush" => FlushTemporary(p) /\ pc'[p] = "publish"
           /\ pc[p] = "publish" => Publish(p) /\ pc'[p] = "done"
           /\ pc[p] \in ResumeSteps
<1>1. /\ p \in Runs
      /\ TypeOK
      /\ DOMAIN pc = Runs
  BY DEF Runs, Typed, TypeOK
<1>2. pc[p] \in ResumeSteps
  BY DEF ResumeStep, RereadHead, RestartUse, RetireHead, ObserveRetired, ProbeRefusal,
         OpenTemporary, FlushTemporary, Publish, Advance, ResumeSteps
<1>3. /\ Key(p) \in Keys
      /\ draft[p].revision \in Revisions
      /\ draft[p].head.lifecycle = "active"
      /\ draft[p].head.active = draft[p].revision
      /\ pc[p] \notin PastRetire => head[Key(p)] = draft[p].head
  BY <1>2, ResumeKnows
<1>4. CASE RereadHead(p)
  <2>1. pc[p] = "reread" BY <1>4 DEF RereadHead
  <2>2. head[Key(p)] = draft[p].head BY <1>3, <2>1 DEF PastRetire
  <2>3. QED BY <1>1, <1>3, <1>4, <2>1, <2>2 DEF RereadHead, Advance, ResumeSteps
<1>5. CASE RestartUse(p)
  <2>1. pc[p] = "restart_use" BY <1>5 DEF RestartUse
  <2>2. head[Key(p)] = draft[p].head BY <1>3, <2>1 DEF PastRetire
  <2>3. Answers(Key(p), "restart_use") = {draft[p].revision}
    BY <1>3, <2>2 DEF Answers, Undisturbed, TasksCurrent, Prompts
  <2>4. pc'[p] = "retire"
    BY <1>1, <1>5, <2>1, <2>3 DEF RestartUse, Use, Advance
  <2>5. QED BY <1>5, <2>1, <2>4 DEF ResumeSteps
<1>6. CASE RetireHead(p)
  <2>1. pc[p] = "retire" BY <1>6 DEF RetireHead
  <2>2. head[Key(p)] = draft[p].head BY <1>3, <2>1 DEF PastRetire
  <2>3. CanRetire(Key(p), draft[p].head.generation)
    BY <1>3, <2>2 DEF CanRetire
  <2>4. Retire(Key(p), draft[p].head.generation) /\ pc'[p] = "observe"
    BY <1>1, <1>6, <2>1, <2>3 DEF RetireHead, Advance
  <2>5. <<Key(p), draft[p].head.generation>> \notin retirements
    <3>1. draft[p].head.generation \in Nat
      BY <1>1, <1>3, <2>2 DEF TypeOK, CoreTypeOK, Heads
    <3>2. QED BY <1>3, <2>2, <3>1 DEF IInv, RetirementsPast
  <2>6. head'[Key(p)].lifecycle = "retired"
    BY <1>1, <1>3, <2>4, <2>5 DEF Retire, MoveHead, TypeOK, CoreTypeOK
  <2>7. QED BY <2>1, <2>4, <2>6 DEF ResumeSteps
<1>7. CASE ObserveRetired(p)
  <2>1. pc[p] = "observe" BY <1>7 DEF ObserveRetired
  <2>2. head[Key(p)].lifecycle = "retired"
    BY <2>1 DEF Undisturbed, RetirementCurrent
  <2>3. QED BY <1>1, <1>7, <2>1, <2>2 DEF ObserveRetired, Advance, ResumeSteps
<1>8. CASE ProbeRefusal(p)
  <2>1. pc[p] = "probe" BY <1>8 DEF ProbeRefusal
  <2>2. head[Key(p)].lifecycle = "retired"
    BY <2>1 DEF Undisturbed, RetirementCurrent
  <2>3. Answers(Key(p), "post_retirement_use") = {}
    BY <1>3, <2>2 DEF Answers, Undisturbed, TasksCurrent, Prompts
  <2>4. QED BY <1>1, <1>8, <2>1, <2>3 DEF ProbeRefusal, Use, Advance, ResumeSteps
<1>9. CASE OpenTemporary(p) \/ FlushTemporary(p)
  BY <1>1, <1>9 DEF OpenTemporary, FlushTemporary, Advance, ResumeSteps
<1>10. CASE Publish(p)
  <2>1. pc[p] = "publish" BY <1>10 DEF Publish, Advance
  <2>2. tmpPath # None BY <1>1, <2>1 DEF SInv, RunAlone, ResumeAlone
  <2>3. QED BY <1>1, <1>10, <2>1, <2>2 DEF Publish, Advance, ResumeSteps
<1>11. QED
  BY <1>4, <1>5, <1>6, <1>7, <1>8, <1>9, <1>10 DEF ResumeStep

(* The others are not at work, so they know nothing that could change.     *)
LEMMA UndisturbedFrame ==
    ASSUME NEW p \in Runs, OnlyRun(p), HeadsKnown', TasksCurrent', ReceiptCurrent',
           p \in Preparers => PrepareCurrent(p)',
           p \in Resumers => RetirementCurrent(p)'
    PROVE  Undisturbed'
<1>1. ASSUME NEW q \in Runs, q # p
      PROVE  pc'[q] \in {"idle"} \cup Ended
  BY <1>1 DEF OnlyRun
<1>2. \A q \in Preparers : PrepareCurrent(q)'
  BY <1>1 DEF PrepareCurrent, Runs, AfterConfirm, AfterFirstUse, Ended
<1>3. \A q \in Resumers : RetirementCurrent(q)'
  BY <1>1 DEF RetirementCurrent, Runs, Ended
<1>4. QED BY <1>2, <1>3 DEF Undisturbed

(* A completed use of k reports what is active there, and so keeps the     *)
(* tasks current.                                                          *)
LEMMA UseCurrent ==
    ASSUME CoreTypeOK, TasksCurrent, NEW k \in Keys, NEW prompt \in Prompts,
           NEW r \in Revisions, Use(k, prompt, r), prompt # "post_retirement_use"
    PROVE  TasksCurrent'
<1>1. head[k].active = r BY DEF Use, Answers, TasksCurrent
<1>2. QED BY <1>1 DEF Use, TasksCurrent

LEMMA PrepareUndisturbed ==
    ASSUME Typed, IInv, SInv, Undisturbed, NEW p \in Preparers, OnlyRun(p),
           CheckAbsent(p) \/ PrepareStep(p)
    PROVE  Undisturbed'
<1>1. /\ p \in Runs
      /\ p \notin Resumers
      /\ TypeOK
      /\ CoreTypeOK
      /\ DOMAIN pc = Runs
      /\ DOMAIN draft = Runs
      /\ draft[p] \in Receipts
  BY JourneyAssumption DEF Runs, Typed, TypeOK
<1>2. HeadsKnown /\ TasksCurrent /\ PrepareCurrent(p)
  BY DEF Undisturbed
<1>3. Live(p) => Key(p) \in Keys BY <1>1, KeyType
<1>4. ReceiptCurrent'
  <2>1. \A q \in Resumers : pc[q] \notin PastRetire
    BY <1>1 DEF OnlyRun, Runs, PastRetire, Ended
  <2>2. CASE StateFile' = StateFile
    <3>1. StateFile.phase = "prepared" => UNCHANGED head
      <4> HAVE StateFile.phase = "prepared"
      <4>1. pc[p] \notin PrepareSteps \ {"flush"}
        BY <1>1 DEF SInv, RunAlone, PrepareAlone, StateFile, Blank
      <4>2. QED
        BY <4>1
        DEF CheckAbsent, PrepareStep, TeachProposal, InspectProposal, ReviewApprove,
            ConfirmHead, FirstUse, RecheckAbsent, OpenStateFile, FlushStateFile,
            Advance, PrepareSteps, coreVars
    <3>2. QED BY <2>1, <2>2, <3>1 DEF Undisturbed, ReceiptCurrent
  <2>3. CASE Opens(p)
    BY <2>3 DEF Opens, ReceiptCurrent, Torn
  <2>4. CASE Fills(p)
    <3>1. pc[p] = "flush" /\ UNCHANGED head
      BY <2>4 DEF Fills, FlushStateFile, Advance, coreVars
    <3>2. StateFile'.scenario = draft[p].scenario /\ StateFile'.head = draft[p].head
      BY <1>1, <2>4 DEF Fills, Receipts
    <3>3. QED
      BY <1>2, <3>1, <3>2 DEF ReceiptCurrent, PrepareCurrent, Key, AfterConfirm, AfterFirstUse
  <2>5. QED BY <2>2, <2>3, <2>4, PrepareWrites
<1>5. ASSUME UNCHANGED <<head, tasks>>
      PROVE  HeadsKnown' /\ TasksCurrent'
  BY <1>2, <1>5 DEF HeadsKnown, TasksCurrent
<1>6. CASE CheckAbsent(p) \/ TeachProposal(p) \/ InspectProposal(p)
  <2>1. UNCHANGED <<head, tasks>>
    BY <1>6 DEF CheckAbsent, TeachProposal, Teach, InspectProposal, coreVars
  <2>2. pc'[p] \in {"teach", "inspect", "review", "failed"}
    BY <1>1, <1>6 DEF CheckAbsent, TeachProposal, InspectProposal, Advance
  <2>3. PrepareCurrent(p)'
    BY <2>2 DEF PrepareCurrent, AfterConfirm, AfterFirstUse
  <2>4. QED BY <1>1, <1>4, <1>5, <2>1, <2>3, UndisturbedFrame
<1>7. CASE ReviewApprove(p)
  <2>1. /\ pc[p] = "review"
        /\ pc'[p] \in {"confirm", "failed"}
    BY <1>1, <1>7 DEF ReviewApprove, Advance
  <2>2. Key(p) \in Keys /\ draft[p].revision \in Revisions
    BY <1>1, <1>3, <2>1 DEF Live, Ended, Typed, AfterTeach
  <2>3. CASE UNCHANGED coreVars
    BY <1>1, <1>4, <1>5, <2>1, <2>3, UndisturbedFrame
    DEF coreVars, PrepareCurrent, AfterConfirm, AfterFirstUse
  <2>4. CASE ~UNCHANGED coreVars
    <3>1. /\ head[Key(p)].generation = 0
          /\ MoveHead(Key(p), draft[p].revision, "active")
          /\ UNCHANGED tasks
      BY <1>7, <2>4 DEF ReviewApprove, Approve, CanApprove
    <3>2. head[Key(p)].active \notin Revisions
      BY <1>2, <2>2, <3>1, CoreAssumption DEF HeadsKnown
    <3>3. HeadsKnown'
      BY <1>1, <1>2, <2>2, <3>1 DEF MoveHead, HeadsKnown, CoreTypeOK, Heads
    <3>4. TasksCurrent'
      BY <1>1, <1>2, <2>2, <3>1, <3>2 DEF MoveHead, TasksCurrent, CoreTypeOK, Heads
    <3>5. QED
      BY <1>1, <1>4, <2>1, <3>3, <3>4, UndisturbedFrame
      DEF PrepareCurrent, AfterConfirm, AfterFirstUse
  <2>5. QED BY <2>3, <2>4
<1>8. CASE ConfirmHead(p)
  <2>1. UNCHANGED <<head, tasks>> BY <1>8 DEF ConfirmHead, coreVars
  <2>2. pc'[p] \in {"first_use", "failed"}
    BY <1>1, <1>8 DEF ConfirmHead, Advance
  <2>3. pc'[p] = "first_use" => draft'[p] = [draft[p] EXCEPT !.head = head[Key(p)]]
    BY <1>1, <1>8 DEF ConfirmHead, Advance
  <2>4. PrepareCurrent(p)'
    BY <1>1, <2>1, <2>2, <2>3 DEF PrepareCurrent, Key, Receipts, AfterConfirm, AfterFirstUse
  <2>5. QED BY <1>1, <1>4, <1>5, <2>1, <2>4, UndisturbedFrame
<1>9. CASE FirstUse(p)
  <2>1. /\ pc[p] = "first_use"
        /\ pc'[p] \in {"recheck", "failed"}
        /\ pc'[p] = "recheck" => \E r \in Revisions :
                                    draft'[p] = [draft[p] EXCEPT !.firstUse = r]
    BY <1>1, <1>9 DEF FirstUse, Advance
  <2>2. UNCHANGED head BY <1>9 DEF FirstUse, Use, coreVars
  <2>3. HeadsKnown' BY <1>2, <2>2 DEF HeadsKnown
  <2>4. TasksCurrent'
    <3>1. Key(p) \in Keys BY <1>3, <2>1 DEF Live, Ended
    <3>2. CASE UNCHANGED coreVars BY <1>5, <3>2 DEF coreVars
    <3>3. CASE \E r \in Revisions : Use(Key(p), "fresh_use", r)
      BY <1>1, <1>2, <3>1, <3>3, UseCurrent DEF Prompts
    <3>4. QED BY <1>9, <3>2, <3>3 DEF FirstUse
  <2>5. PrepareCurrent(p)'
    BY <1>1, <1>2, <2>1, <2>2
    DEF PrepareCurrent, Key, Receipts, AfterConfirm, AfterFirstUse
  <2>6. QED BY <1>1, <1>4, <2>3, <2>4, <2>5, UndisturbedFrame
<1>10. CASE RecheckAbsent(p) \/ OpenStateFile(p)
  <2>1. UNCHANGED <<head, tasks>>
    BY <1>10 DEF RecheckAbsent, OpenStateFile, coreVars
  <2>2. /\ pc[p] \in AfterConfirm
        /\ pc'[p] # "failed" => draft'[p] = draft[p]
    BY <1>1, <1>10
    DEF RecheckAbsent, OpenStateFile, Advance, AfterConfirm, AfterFirstUse
  <2>3. PrepareCurrent(p)'
    BY <1>2, <2>1, <2>2 DEF PrepareCurrent, Key, AfterConfirm, AfterFirstUse
  <2>4. QED BY <1>1, <1>4, <1>5, <2>1, <2>3, UndisturbedFrame
<1>11. CASE FlushStateFile(p)
  <2>1. UNCHANGED <<head, tasks>> /\ pc'[p] = "done"
    BY <1>1, <1>11 DEF FlushStateFile, Advance, coreVars
  <2>2. PrepareCurrent(p)'
    BY <2>1 DEF PrepareCurrent, AfterConfirm, AfterFirstUse
  <2>3. QED BY <1>1, <1>4, <1>5, <2>1, <2>2, UndisturbedFrame
<1>12. QED BY <1>6, <1>7, <1>8, <1>9, <1>10, <1>11 DEF PrepareStep

LEMMA ResumeUndisturbed ==
    ASSUME Typed, IInv, SInv, Undisturbed, NEW p \in Resumers, OnlyRun(p),
           LoadState(p) \/ ResumeStep(p)
    PROVE  Undisturbed'
<1>1. /\ p \in Runs
      /\ p \notin Preparers
      /\ TypeOK
      /\ CoreTypeOK
      /\ DOMAIN pc = Runs
      /\ DOMAIN draft = Runs
      /\ draft[p] \in Receipts
  BY JourneyAssumption DEF Runs, Typed, TypeOK
<1>2. HeadsKnown /\ TasksCurrent /\ ReceiptCurrent /\ RetirementCurrent(p)
  BY DEF Undisturbed
<1>3. \A q \in Resumers : q # p => pc'[q] \notin PastRetire /\ pc[q] \notin PastRetire
  BY <1>1 DEF OnlyRun, Runs, PastRetire, Ended
<1>4. ASSUME UNCHANGED <<head, tasks>>
      PROVE  HeadsKnown' /\ TasksCurrent'
  BY <1>2, <1>4 DEF HeadsKnown, TasksCurrent
<1>5. CASE LoadState(p)
  <2>1. UNCHANGED <<head, tasks>> /\ StateFile' = StateFile
    BY <1>5 DEF LoadState, coreVars, fileVars, StateFile
  <2>2. pc[p] = "idle" /\ pc'[p] \in {"reread", "failed"}
    BY <1>1, <1>5 DEF LoadState, Advance
  <2>3. ReceiptCurrent'
    BY <1>2, <1>3, <2>1, <2>2 DEF ReceiptCurrent, PastRetire
  <2>4. RetirementCurrent(p)' BY <2>2 DEF RetirementCurrent
  <2>5. QED BY <1>1, <1>4, <2>1, <2>3, <2>4, UndisturbedFrame
<1>6. CASE ResumeStep(p)
  <2>1. /\ pc[p] \in ResumeSteps
        /\ Key(p) \in Keys
        /\ pc[p] \notin PastRetire => head[Key(p)] = draft[p].head
    BY <1>6, ResumeSucceeds, ResumeKnows
  <2>2. CASE pc[p] \in {"reread", "restart_use"}
    <3>1. /\ UNCHANGED head
          /\ StateFile' = StateFile
          /\ pc'[p] \in {"restart_use", "retire"}
          /\ TasksCurrent'
      <4>1. CASE pc[p] = "reread"
        BY <1>4, <1>6, <2>2, <4>1, ResumeSucceeds
        DEF RereadHead, coreVars, fileVars, StateFile
      <4>2. CASE pc[p] = "restart_use"
        <5>1. RestartUse(p) /\ pc'[p] = "retire" BY <1>6, <4>2, ResumeSucceeds
        <5>2. UNCHANGED head /\ StateFile' = StateFile
          BY <5>1 DEF RestartUse, Use, coreVars, fileVars, StateFile
        <5>3. TasksCurrent'
          <6>1. CASE UNCHANGED coreVars BY <1>4, <6>1 DEF coreVars
          <6>2. CASE \E r \in Revisions : Use(Key(p), "restart_use", r)
            BY <1>1, <1>2, <2>1, <6>2, UseCurrent DEF Prompts
          <6>3. QED BY <5>1, <6>1, <6>2 DEF RestartUse
        <5>4. QED BY <5>1, <5>2, <5>3
      <4>3. QED BY <2>2, <4>1, <4>2
    <3>2. HeadsKnown' BY <1>2, <3>1 DEF HeadsKnown
    <3>3. ReceiptCurrent'
      BY <1>2, <1>3, <2>2, <3>1 DEF ReceiptCurrent, PastRetire
    <3>4. RetirementCurrent(p)' BY <3>1 DEF RetirementCurrent
    <3>5. QED BY <1>1, <3>1, <3>2, <3>3, <3>4, UndisturbedFrame
  <2>3. CASE pc[p] = "retire"
    <3>1. /\ Retire(Key(p), draft[p].head.generation)
          /\ head'[Key(p)].lifecycle = "retired"
          /\ pc'[p] = "observe"
      BY <1>6, <2>3, ResumeSucceeds
    <3>2. \A k \in Keys : head'[k].active = head[k].active
                          /\ (head[k].generation \in Nat /\ head'[k].generation = 0
                                => head[k].generation = 0)
      BY <1>1, <2>1, <3>1 DEF Retire, MoveHead, coreVars, CoreTypeOK, Heads
    <3>3. UNCHANGED tasks BY <3>1 DEF Retire, coreVars
    <3>4. HeadsKnown' /\ TasksCurrent'
      BY <1>1, <1>2, <3>2, <3>3 DEF HeadsKnown, TasksCurrent, CoreTypeOK, Heads
    <3>5. ReceiptCurrent' BY <3>1 DEF ReceiptCurrent, PastRetire
    <3>6. RetirementCurrent(p)'
      <4>1. Key(p)' = Key(p)
        <5>1. RetireHead(p)
          BY <1>6, <2>3
          DEF ResumeStep, RereadHead, RestartUse, ObserveRetired, ProbeRefusal,
              OpenTemporary, FlushTemporary, Publish, Advance
        <5>2. draft'[p] = draft[p] BY <1>1, <3>1, <5>1 DEF RetireHead, Advance
        <5>3. QED BY <5>2 DEF Key
      <4>2. QED BY <3>1, <4>1 DEF RetirementCurrent
    <3>7. QED BY <1>1, <3>4, <3>5, <3>6, UndisturbedFrame
  <2>4. CASE pc[p] = "observe"
    <3>1. ObserveRetired(p) /\ pc'[p] = "probe" BY <1>6, <2>4, ResumeSucceeds
    <3>2. UNCHANGED <<head, tasks>> BY <3>1 DEF ObserveRetired, coreVars
    <3>3. draft'[p].scenario = draft[p].scenario
      BY <1>1, <3>1 DEF ObserveRetired, Advance, Receipts
    <3>4. RetirementCurrent(p)'
      BY <1>2, <2>4, <3>2, <3>3 DEF RetirementCurrent, Key
    <3>5. ReceiptCurrent' BY <3>1 DEF ReceiptCurrent, PastRetire
    <3>6. QED BY <1>1, <1>4, <3>2, <3>4, <3>5, UndisturbedFrame
  <2>5. CASE pc[p] \in {"probe", "stage", "stage_flush"}
    <3>1. UNCHANGED <<head, tasks>> /\ pc'[p] \in {"stage", "stage_flush", "publish"}
      BY <1>6, <2>5, ResumeSucceeds DEF OpenTemporary, FlushTemporary, coreVars
    <3>2. ReceiptCurrent' BY <3>1 DEF ReceiptCurrent, PastRetire
    <3>3. RetirementCurrent(p)' BY <3>1 DEF RetirementCurrent
    <3>4. QED BY <1>1, <1>4, <3>1, <3>2, <3>3, UndisturbedFrame
  <2>6. CASE pc[p] = "publish"
    <3>1. Publish(p) /\ pc'[p] = "done" BY <1>6, <2>6, ResumeSucceeds
    <3>2. UNCHANGED <<head, tasks>> BY <3>1 DEF Publish, coreVars
    <3>3. StateFile'.phase = "complete"
      <4>1. /\ tmpPath # None
            /\ disk[tmpPath].phase = "complete"
        BY <1>1, <2>6 DEF SInv, RunAlone, ResumeAlone
      <4>2. QED BY <3>1, <4>1 DEF Publish, StateFile
    <3>4. ReceiptCurrent' BY <3>3 DEF ReceiptCurrent
    <3>5. RetirementCurrent(p)' BY <3>1 DEF RetirementCurrent
    <3>6. QED BY <1>1, <1>4, <3>2, <3>4, <3>5, UndisturbedFrame
  <2>7. QED BY <2>1, <2>2, <2>3, <2>4, <2>5, <2>6 DEF ResumeSteps
<1>7. QED BY <1>5, <1>6

LEMMA UndisturbedStep ==
    ASSUME ~Overlap, Typed, IInv, SInv, UInv, [Next]_vars
    PROVE  UInv'
<1> SUFFICES ASSUME ~disturbed' PROVE Undisturbed'
  BY DEF UInv
<1>1. OneLive BY DEF SInv
<1>2. ASSUME NEW p \in Preparers, CheckAbsent(p) \/ PrepareStep(p) PROVE Undisturbed'
  <2>1. p \in Runs /\ RunStep(p) BY <1>2 DEF Runs, RunStep
  <2>2. disturbed' = disturbed BY <2>1, StepIsAdvance DEF Advance
  <2>3. QED BY <1>1, <1>2, <2>1, <2>2, StepIsAlone, PrepareUndisturbed DEF UInv
<1>3. ASSUME NEW p \in Resumers, LoadState(p) \/ ResumeStep(p) PROVE Undisturbed'
  <2>1. p \in Runs /\ RunStep(p) BY <1>3 DEF Runs, RunStep
  <2>2. disturbed' = disturbed BY <2>1, StepIsAdvance DEF Advance
  <2>3. QED BY <1>1, <1>3, <2>1, <2>2, StepIsAlone, ResumeUndisturbed DEF UInv
<1>4. CASE UNCHANGED vars
  <2>1. /\ UNCHANGED <<head, tasks, pc, draft, disturbed>>
        /\ StateFile' = StateFile
    BY <1>4 DEF vars, coreVars, fileVars, StateFile
  <2>2. Undisturbed BY <2>1 DEF UInv
  <2>3. QED
    BY <2>1, <2>2
    DEF Undisturbed, HeadsKnown, TasksCurrent, PrepareCurrent, ReceiptCurrent,
        RetirementCurrent, Key
<1>5. ~ \E k \in Keys : OtherActs(k) BY DEF OtherActs
<1>6. ~ \E p \in Runs : Abandon(p) BY DEF Abandon
<1>7. QED BY <1>2, <1>3, <1>4, <1>5, <1>6 DEF Next

LEMMA UndisturbedInductive ==
    ASSUME ~Overlap
    PROVE  Spec => [](Typed /\ IInv /\ SInv /\ UInv)
<1>1. Init => UInv
  <2> SUFFICES ASSUME Init PROVE Undisturbed
    BY DEF UInv
  <2>1. \A p \in Runs : pc[p] = "idle" BY DEF Init
  <2>2. HeadsKnown /\ TasksCurrent
    BY DEF Init, CoreInit, HeadsKnown, TasksCurrent
  <2>3. ReceiptCurrent BY DEF Init, ReceiptCurrent, StateFile, Blank
  <2>4. QED
    BY <2>1, <2>2, <2>3
    DEF Undisturbed, PrepareCurrent, RetirementCurrent, Runs, AfterConfirm, AfterFirstUse
<1>2. Typed /\ IInv /\ SInv /\ UInv /\ [Next]_vars => UInv'
  BY UndisturbedStep
<1>3. QED BY <1>1, <1>2, SerialInductive, PTL DEF Spec

(* What a step can do to a resume that has started.                        *)
LEMMA ResumeMoves ==
    ASSUME Typed, [Next]_vars, NEW p \in Resumers, pc[p] \in ResumeSteps
    PROVE  ResumeStep(p) \/ Abandon(p) \/ pc'[p] = pc[p]
<1>1. p \in Runs /\ p \notin Preparers /\ TypeOK
  BY JourneyAssumption DEF Runs, Typed
<1>2. ASSUME NEW q \in Runs, RunStep(q), q # p PROVE pc'[p] = pc[p]
  <2>1. PICK ok \in BOOLEAN : \E from, to, filled : Advance(q, from, ok, to, filled)
    BY <1>2, StepIsAdvance
  <2>2. QED BY <1>1, <1>2, <2>1 DEF Advance, TypeOK
<1>3. CASE \E q \in Runs : RunStep(q)
  <2>1. RunStep(p) => ResumeStep(p)
    BY <1>1 DEF RunStep, LoadState, Advance, ResumeSteps
  <2>2. QED BY <1>2, <1>3, <2>1
<1>4. ASSUME NEW q \in Runs, Abandon(q), q # p PROVE pc'[p] = pc[p]
  BY <1>1, <1>4 DEF Abandon, TypeOK
<1>5. CASE (\E k \in Keys : OtherActs(k)) \/ UNCHANGED vars
  BY <1>5 DEF OtherActs, vars
<1>6. QED BY <1>3, <1>4, <1>5 DEF Next, RunStep, Runs

(* A resume that has begun fails only where it was killed, a run before it *)
(* has died, or somebody else has worked on the service: no order of its   *)
(* own commands, and no earlier run that came to its end, makes one fail,  *)
(* and the probe after the retirement is refused for what it is            *)
(* (gc1_external_consumer.py, resume).                                     *)
THEOREM OnlyDisturbanceFails ==
    ASSUME ~Overlap
    PROVE  Spec => [][\A p \in Resumers :
                        pc[p] \in ResumeSteps /\ pc'[p] = "failed" => disturbed']_vars
<1> DEFINE A == \A p \in Resumers :
                  pc[p] \in ResumeSteps /\ pc'[p] = "failed" => disturbed'
<1>1. Typed /\ IInv /\ SInv /\ UInv /\ [Next]_vars => A
  <2> SUFFICES ASSUME Typed, IInv, SInv, UInv, [Next]_vars, NEW p \in Resumers,
                      pc[p] \in ResumeSteps, pc'[p] = "failed", ~disturbed'
               PROVE  FALSE
    OBVIOUS
  <2>1. ResumeStep(p)
    BY ResumeMoves DEF Abandon, ResumeSteps
  <2>2. RunStep(p) /\ p \in Runs BY <2>1 DEF RunStep, Runs
  <2>3. Undisturbed BY <2>2, StepIsAdvance DEF Advance, UInv
  <2>4. QED BY <2>1, <2>3, ResumeSucceeds DEF ResumeSteps
<1> HIDE DEF A
<1>2. Spec => [][A]_vars
  BY <1>1, UndisturbedInductive, PTL DEF Spec
<1>3. QED BY <1>2 DEF A

(* The commands of an undisturbed resume, one after the other.             *)
LEMMA ResumeOrder ==
    ASSUME Typed, IInv, SInv, UInv, [Next]_vars, NEW p \in Resumers, ~disturbed,
           ~disturbed', pc[p] \in ResumeSteps
    PROVE  /\ \/ pc'[p] = pc[p]
              \/ pc[p] = "reread" /\ pc'[p] = "restart_use"
              \/ pc[p] = "restart_use" /\ pc'[p] = "retire"
              \/ pc[p] = "retire" /\ pc'[p] = "observe"
              \/ pc[p] = "observe" /\ pc'[p] = "probe"
              \/ pc[p] = "probe" /\ pc'[p] = "stage"
              \/ pc[p] = "stage" /\ pc'[p] = "stage_flush"
              \/ pc[p] = "stage_flush" /\ pc'[p] = "publish"
              \/ pc[p] = "publish" /\ pc'[p] = "done"
           /\ ResumeStep(p) => pc'[p] # pc[p]
<1>1. Undisturbed BY DEF UInv
<1>2. ~Abandon(p) BY DEF Abandon
<1>3. ResumeStep(p) \/ pc'[p] = pc[p] BY <1>2, ResumeMoves
<1>4. CASE ResumeStep(p) BY <1>1, <1>4, ResumeSucceeds DEF ResumeSteps
<1>5. QED BY <1>3, <1>4

LEMMA DisturbedStays ==
    ASSUME Typed, [Next]_vars, disturbed
    PROVE  disturbed'
<1>1. ASSUME NEW p \in Runs, RunStep(p) PROVE disturbed'
  BY <1>1, StepIsAdvance DEF Advance
<1>2. QED
  BY <1>1 DEF Next, RunStep, Runs, Abandon, OtherActs, vars

LEMMA ResumeEnds ==
    ASSUME ~Overlap, NEW p \in Resumers
    PROVE  Spec /\ ResumeGoesOn(p)
             /\ [](pc[p] \in ResumeSteps => ENABLED <<ResumeStep(p)>>_vars)
             => (pc[p] = "reread" ~> (StateFile.phase = "complete" \/ disturbed))
<1> DEFINE Inv == Typed /\ IInv /\ SInv /\ UInv
           Ends == StateFile.phase = "complete" \/ disturbed
           P1 == pc[p] = "reread"
           P2 == pc[p] = "restart_use"
           P3 == pc[p] = "retire"
           P4 == pc[p] = "observe"
           P5 == pc[p] = "probe"
           P6 == pc[p] = "stage"
           P7 == pc[p] = "stage_flush"
           P8 == pc[p] = "publish"
           Works == pc[p] \in ResumeSteps
<1>0. ASSUME Inv, [Next]_vars, pc[p] \in ResumeSteps, ~disturbed'
      PROVE  /\ \/ pc'[p] = pc[p]
                \/ P1 /\ P2'
                \/ P2 /\ P3'
                \/ P3 /\ P4'
                \/ P4 /\ P5'
                \/ P5 /\ P6'
                \/ P6 /\ P7'
                \/ P7 /\ P8'
                \/ P8 /\ StateFile'.phase = "complete"
             /\ ResumeStep(p) => pc'[p] # pc[p]
  <2>1. ~disturbed BY <1>0, DisturbedStays
  <2>2. pc'[p] = "done" => StateFile'.phase = "complete"
    BY <1>0, NextSerial DEF SInv, RunAlone, Reported, Runs
  <2>3. QED BY <1>0, <2>1, <2>2, ResumeOrder
<1>1. Inv /\ [Next]_vars =>
         /\ P1 => P1' \/ P2' \/ Ends'
         /\ P2 => P2' \/ P3' \/ Ends'
         /\ P3 => P3' \/ P4' \/ Ends'
         /\ P4 => P4' \/ P5' \/ Ends'
         /\ P5 => P5' \/ P6' \/ Ends'
         /\ P6 => P6' \/ P7' \/ Ends'
         /\ P7 => P7' \/ P8' \/ Ends'
         /\ P8 => P8' \/ Ends'
  BY <1>0 DEF ResumeSteps
<1>2. Inv /\ [Next]_vars /\ <<ResumeStep(p)>>_vars =>
         /\ P1 => P2' \/ Ends'
         /\ P2 => P3' \/ Ends'
         /\ P3 => P4' \/ Ends'
         /\ P4 => P5' \/ Ends'
         /\ P5 => P6' \/ Ends'
         /\ P6 => P7' \/ Ends'
         /\ P7 => P8' \/ Ends'
         /\ P8 => Ends'
  BY <1>0 DEF ResumeSteps
<1>3. P1 \/ P2 \/ P3 \/ P4 \/ P5 \/ P6 \/ P7 \/ P8 => Works
  BY DEF ResumeSteps
<1> HIDE DEF Inv, Ends, P1, P2, P3, P4, P5, P6, P7, P8
<1>4. QED
  BY <1>1, <1>2, <1>3, UndisturbedInductive, PTL DEF Spec, ResumeGoesOn, Inv, Ends, P1

(* A resume always has a next step.  That is so by the shape of the steps, *)
(* each of which has the refusal beside the success; no prover here        *)
(* unfolds ENABLED, so it is a hypothesis of the theorem that follows.     *)
ResumesCanGoOn ==
    \A p \in Resumers : pc[p] \in ResumeSteps => ENABLED <<ResumeStep(p)>>_vars

(* A resume that is started while no other run is live, and that nobody    *)
(* kills or works against, completes the receipt, if runs are fair and a   *)
(* resume always has a next step (gc1_external_consumer.py, resume).       *)
THEOREM UndisturbedCompletes ==
    ASSUME ~Overlap
    PROVE  FairSpec /\ []ResumesCanGoOn => UndisturbedResumeCompletes
<1> SUFFICES ASSUME NEW p \in Resumers
             PROVE  FairSpec /\ []ResumesCanGoOn
                      => (pc[p] = "reread" ~> (StateFile.phase = "complete" \/ disturbed))
  BY DEF UndisturbedResumeCompletes
<1>1. Fairness => ResumeGoesOn(p)
  BY DEF Fairness
<1>2. ResumesCanGoOn => (pc[p] \in ResumeSteps => ENABLED <<ResumeStep(p)>>_vars)
  BY DEF ResumesCanGoOn
<1>3. QED
  BY <1>1, <1>2, ResumeEnds, PTL DEF FairSpec

-----------------------------------------------------------------------------
(* Two sentences of the documentation, without overlap *)

(* "Prepare refuses to replace an existing state file"                     *)
(* (docs/gc1-external-consumer.md:45) holds of runs that do not overlap:   *)
(* between _write_new's look at the path and its write nobody else puts a  *)
(* receipt there.  The run gc1_replace shows that overlapping prepares     *)
(* replace one.                                                            *)
THEOREM SerialPrepareKeeps ==
    ASSUME ~Overlap
    PROVE  Spec => PrepareNeverReplaces
<1> DEFINE A == \A p \in Preparers :
                  StateFile.phase = "prepared" /\ pc[p] = "open" /\ pc'[p] = "flush"
                    => StateFile' = StateFile
<1>1. SInv => A
  <2> SUFFICES ASSUME SInv, NEW p \in Preparers, pc[p] = "open", StateFile.phase = "prepared"
               PROVE  FALSE
    OBVIOUS
  <2>1. statePath = None
    BY DEF SInv, RunAlone, PrepareAlone, Runs, PrepareSteps
  <2>2. QED BY <2>1 DEF StateFile, Blank
<1> HIDE DEF A
<1>2. Spec => [][A]_vars
  BY <1>1, SerialInductive, PTL DEF Spec
<1>3. QED BY <1>2 DEF PrepareNeverReplaces, A

=============================================================================
