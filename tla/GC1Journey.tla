------------------------------ MODULE GC1Journey ------------------------------
(***************************************************************************)
(* scripts/gc1_external_consumer.py: the two-phase journey of an external  *)
(* consumer.  A run of the script is one process: a `prepare` run teaches, *)
(* reviews and uses one revision and writes the state file; a `resume` run *)
(* re-reads the head, uses the revision again, retires it, probes that a   *)
(* later use is refused, and replaces the state file by the completed      *)
(* receipt.  Every command is a step, so a run can die, and other          *)
(* operators and runs can act, between any two commands.                   *)
(*                                                                         *)
(* Files are inodes: an inode is named by the run that created it, the     *)
(* state path and its ".tmp" sibling point to inodes, and a run writes     *)
(* through the inode it opened.                                            *)
(***************************************************************************)
EXTENDS CognitionCore

CONSTANTS
    Preparers, Resumers,    \* the runs of the script
    Scenarios,              \* scenario files
    KeyOf,                  \* the stable key of a scenario
    ScenarioOf,             \* the scenario a run is started with
    Overlap                 \* may a run start while another one is live?

Runs == Preparers \cup Resumers

ASSUME JourneyAssumption ==
    /\ Preparers \cap Resumers = {}
    /\ None \notin Runs
    /\ KeyOf \in [Scenarios -> Keys]
    /\ ScenarioOf \in [Runs -> Scenarios]
    /\ Overlap \in BOOLEAN

VARIABLES
    pc,         \* the next command of a run
    draft,      \* the receipt a run has loaded or is putting together
    fd,         \* the inode a run has open for writing
    disk,       \* the content of every inode
    statePath,  \* the inode of the state file, or None
    tmpPath,    \* the inode of its ".tmp" sibling, or None
    disturbed   \* has a run died or another operator acted? (history)

fileVars == <<fd, disk, statePath, tmpPath>>
vars == <<coreVars, pc, draft, fd, disk, statePath, tmpPath, disturbed>>

PrepareSteps == {"teach", "inspect", "review", "confirm", "first_use",
                 "recheck", "open", "flush"}
ResumeSteps  == {"reread", "restart_use", "retire", "observe", "probe",
                 "stage", "stage_flush", "publish"}
Ended == {"done", "failed"}

Denials == {"none", "ineligible", "not_completed"}

Receipts == [phase       : {"absent", "torn", "prepared", "complete"},
             scenario    : Scenarios \cup {None},
             revision    : Revisions \cup {None},
             head        : Heads,
             firstUse    : Revisions \cup {None},
             restartUse  : Revisions \cup {None},
             retiredHead : Heads,
             denial      : Denials]

NoHead == [generation |-> 0, active |-> None, lifecycle |-> "absent"]

Blank == [phase       |-> "absent",
          scenario    |-> None,
          revision    |-> None,
          head        |-> NoHead,
          firstUse    |-> None,
          restartUse  |-> None,
          retiredHead |-> NoHead,
          denial      |-> "none"]

(* A file that was truncated and not yet written, or written by two runs:  *)
(* not valid JSON.                                                         *)
Torn == [Blank EXCEPT !.phase = "torn"]

TypeOK ==
    /\ CoreTypeOK
    /\ pc \in [Runs -> {"idle"} \cup PrepareSteps \cup ResumeSteps \cup Ended]
    /\ draft \in [Runs -> Receipts]
    /\ fd \in [Runs -> Runs \cup {None}]
    /\ disk \in [Runs -> Receipts]
    /\ statePath \in Runs \cup {None}
    /\ tmpPath \in Runs \cup {None}
    /\ disturbed \in BOOLEAN

Init ==
    /\ CoreInit
    /\ pc = [p \in Runs |-> "idle"]
    /\ draft = [p \in Runs |-> Blank]
    /\ fd = [p \in Runs |-> None]
    /\ disk = [p \in Runs |-> Blank]
    /\ statePath = None
    /\ tmpPath = None
    /\ disturbed = FALSE

-----------------------------------------------------------------------------

(* What reading the state path finds. *)
StateFile == IF statePath = None THEN Blank ELSE disk[statePath]

Live(p) == pc[p] \notin {"idle"} \cup Ended

MayStart == Overlap \/ \A q \in Runs : ~Live(q)

Key(p) == KeyOf[draft[p].scenario]

(* One step of run p: on to the next command with the draft filled in, or, *)
(* where the script raises JourneyError, to the end.                       *)
Advance(p, from, ok, to, filled) ==
    /\ pc[p] = from
    /\ pc' = [pc EXCEPT ![p] = IF ok THEN to ELSE "failed"]
    /\ draft' = [draft EXCEPT ![p] = IF ok THEN filled ELSE Blank]
    /\ UNCHANGED disturbed

-----------------------------------------------------------------------------
(* prepare *)

CheckAbsent(p) ==
    /\ MayStart
    /\ Advance(p, "idle", StateFile = Blank, "teach",
               [Blank EXCEPT !.scenario = ScenarioOf[p]])
    /\ UNCHANGED <<coreVars, fileVars>>

TeachProposal(p) ==
    /\ pc[p] = "teach"
    /\ \E r \in Revisions :
        /\ Teach(Key(p), r)
        /\ Advance(p, "teach", ~Selectable(r), "inspect",
                   [draft[p] EXCEPT !.revision = r])
    /\ UNCHANGED fileVars

InspectProposal(p) ==
    /\ Advance(p, "inspect", ~Selectable(draft[p].revision), "review", draft[p])
    /\ UNCHANGED <<coreVars, fileVars>>

(* Fault: the review expects whatever generation the head is at.           *)
ReviewAtCurrentGeneration(p) ==
    /\ pc[p] = "review"
    /\ Approve(Key(p), draft[p].revision, head[Key(p)].generation)
    /\ Advance(p, "review", TRUE, "confirm", draft[p])
    /\ UNCHANGED fileVars

(* The review expects the key to have no head yet: generation 0. *)
ReviewApprove(p) ==
    /\ pc[p] = "review"
    /\ \/ /\ Approve(Key(p), draft[p].revision, 0)
          /\ Advance(p, "review", TRUE, "confirm", draft[p])
       \/ /\ ~CanApprove(Key(p), draft[p].revision, 0)
          /\ Advance(p, "review", FALSE, "confirm", draft[p])
          /\ UNCHANGED coreVars
    /\ UNCHANGED fileVars

ConfirmHead(p) ==
    LET h == head[Key(p)]
    IN  /\ pc[p] = "confirm"
        /\ Advance(p, "confirm",
                   h.active = draft[p].revision /\ h.lifecycle = "active",
                   "first_use", [draft[p] EXCEPT !.head = h])
        /\ UNCHANGED <<coreVars, fileVars>>

(* Fault: the revisions a task reports are not compared with the reviewed  *)
(* one.                                                                    *)
FirstUseUnattributed(p) ==
    /\ pc[p] = "first_use"
    /\ \E r \in Revisions :
        /\ Use(Key(p), "fresh_use", r)
        /\ Advance(p, "first_use", TRUE, "recheck", [draft[p] EXCEPT !.firstUse = r])
    /\ UNCHANGED fileVars

FirstUse(p) ==
    /\ pc[p] = "first_use"
    /\ \/ \E r \in Revisions :
            /\ Use(Key(p), "fresh_use", r)
            /\ Advance(p, "first_use", r = draft[p].revision, "recheck",
                       [draft[p] EXCEPT !.firstUse = r])
       \/ /\ Answers(Key(p), "fresh_use") = {}
          /\ Advance(p, "first_use", FALSE, "recheck", draft[p])
          /\ UNCHANGED coreVars
    /\ UNCHANGED fileVars

(* _write_new looks at the path again, then opens and writes it. *)
RecheckAbsent(p) ==
    /\ Advance(p, "recheck", StateFile = Blank, "open", draft[p])
    /\ UNCHANGED <<coreVars, fileVars>>

OpenStateFile(p) ==
    LET inode == IF statePath = None THEN p ELSE statePath
    IN  /\ Advance(p, "open", TRUE, "flush", draft[p])
        /\ statePath' = inode
        /\ fd' = [fd EXCEPT ![p] = inode]
        /\ disk' = [disk EXCEPT ![inode] = Torn]
        /\ UNCHANGED <<coreVars, tmpPath>>

(* Text written over what another run wrote since this one truncated the   *)
(* file replaces it, or, being shorter, leaves a tail behind.              *)
Written(p, receipt) ==
    {receipt} \cup (IF disk[fd[p]] = Torn THEN {} ELSE {Torn})

FlushStateFile(p) ==
    LET receipt == [draft[p] EXCEPT !.phase = "prepared"]
    IN  /\ Advance(p, "flush", TRUE, "done", receipt)
        /\ \E text \in Written(p, receipt) : disk' = [disk EXCEPT ![fd[p]] = text]
        /\ UNCHANGED <<coreVars, fd, statePath, tmpPath>>

PrepareStep(p) ==
    \/ TeachProposal(p)
    \/ InspectProposal(p)
    \/ ReviewApprove(p)
    \/ ConfirmHead(p)
    \/ FirstUse(p)
    \/ RecheckAbsent(p)
    \/ OpenStateFile(p)
    \/ FlushStateFile(p)

-----------------------------------------------------------------------------
(* resume *)

LoadState(p) ==
    /\ MayStart
    /\ Advance(p, "idle",
               /\ StateFile.phase = "prepared"
               /\ StateFile.scenario = ScenarioOf[p],
               "reread", StateFile)
    /\ UNCHANGED <<coreVars, fileVars>>

(* Fault: the head is compared by its active revision alone. *)
RereadRevisionOnly(p) ==
    LET h == head[Key(p)]
    IN  /\ pc[p] = "reread"
        /\ Advance(p, "reread",
                   h.active = draft[p].revision /\ h.lifecycle = "active",
                   "restart_use", draft[p])
        /\ UNCHANGED <<coreVars, fileVars>>

(* Equal hashes are equal heads: generation, revision and lifecycle. *)
RereadHead(p) ==
    LET h == head[Key(p)]
    IN  /\ pc[p] = "reread"
        /\ Advance(p, "reread",
                   /\ h = draft[p].head
                   /\ h.active = draft[p].revision
                   /\ h.lifecycle = "active",
                   "restart_use", draft[p])
        /\ UNCHANGED <<coreVars, fileVars>>

RestartUse(p) ==
    /\ pc[p] = "restart_use"
    /\ \/ \E r \in Revisions :
            /\ Use(Key(p), "restart_use", r)
            /\ Advance(p, "restart_use", r = draft[p].revision, "retire",
                       [draft[p] EXCEPT !.restartUse = r])
       \/ /\ Answers(Key(p), "restart_use") = {}
          /\ Advance(p, "restart_use", FALSE, "retire", draft[p])
          /\ UNCHANGED coreVars
    /\ UNCHANGED fileVars

(* Fault: the retirement expects whatever generation the head is at.       *)
RetireAtCurrentGeneration(p) ==
    /\ pc[p] = "retire"
    /\ Retire(Key(p), head[Key(p)].generation)
    /\ Advance(p, "retire", TRUE, "observe", draft[p])
    /\ UNCHANGED fileVars

(* The generation expected is the one prepare recorded. *)
RetireHead(p) ==
    LET expected == draft[p].head.generation
    IN  /\ pc[p] = "retire"
        /\ \/ /\ Retire(Key(p), expected)
              /\ Advance(p, "retire", TRUE, "observe", draft[p])
           \/ /\ ~CanRetire(Key(p), expected)
              /\ Advance(p, "retire", FALSE, "observe", draft[p])
              /\ UNCHANGED coreVars
        /\ UNCHANGED fileVars

ObserveRetired(p) ==
    LET h == head[Key(p)]
    IN  /\ pc[p] = "observe"
        /\ Advance(p, "observe", h.lifecycle = "retired", "probe",
                   [draft[p] EXCEPT !.retiredHead = h])
        /\ UNCHANGED <<coreVars, fileVars>>

(* Fault: the text of the failure is not searched for a code.              *)
ProbeAnyFailure(p) ==
    /\ pc[p] = "probe"
    /\ \E text \in {"ineligible", "connection refused"} :
        Advance(p, "probe", TRUE, "stage", [draft[p] EXCEPT !.denial = text])
    /\ UNCHANGED <<coreVars, fileVars>>

(* Fault: the gate repeats the prompt of the restart use, which the service *)
(* answers from the completed task.                                        *)
ProbeWithRestartPrompt(p) ==
    /\ pc[p] = "probe"
    /\ \/ \E r \in Answers(Key(p), "restart_use") :
            Advance(p, "probe", FALSE, "stage", draft[p])
       \/ /\ Answers(Key(p), "restart_use") = {}
          /\ Advance(p, "probe", TRUE, "stage",
                     [draft[p] EXCEPT !.denial = "ineligible"])
    /\ UNCHANGED <<coreVars, fileVars>>

(* The use that must fail.  A success ends the run.  A failure carries a   *)
(* code: the attribution codes of a key with nothing to select, or         *)
(* cognition_use_not_completed, which any failed task reports.             *)
ProbeRefusal(p) ==
    /\ pc[p] = "probe"
    /\ \/ \E r \in Revisions :
            /\ Use(Key(p), "post_retirement_use", r)
            /\ Advance(p, "probe", FALSE, "stage", draft[p])
       \/ \E code \in Denials \ {"none"} :
            /\ code = "ineligible" => Answers(Key(p), "post_retirement_use") = {}
            /\ Advance(p, "probe", TRUE, "stage",
                       [draft[p] EXCEPT !.denial = code])
            /\ UNCHANGED coreVars
    /\ UNCHANGED fileVars

(* Fault: the completed receipt is written straight over the state file.   *)
OpenStateInPlace(p) ==
    /\ Advance(p, "stage", TRUE, "stage_flush", draft[p])
    /\ tmpPath' = statePath
    /\ fd' = [fd EXCEPT ![p] = statePath]
    /\ disk' = [disk EXCEPT ![statePath] = Torn]
    /\ UNCHANGED <<coreVars, statePath>>

(* _replace: write the ".tmp" sibling, then rename it over the state file. *)
OpenTemporary(p) ==
    LET inode == IF tmpPath = None THEN p ELSE tmpPath
    IN  /\ Advance(p, "stage", TRUE, "stage_flush", draft[p])
        /\ tmpPath' = inode
        /\ fd' = [fd EXCEPT ![p] = inode]
        /\ disk' = [disk EXCEPT ![inode] = Torn]
        /\ UNCHANGED <<coreVars, statePath>>

(* Fault: the sibling is renamed while its text is still in the buffer.    *)
PublishBeforeFlush(p) ==
    /\ Advance(p, "stage_flush", TRUE, "done", [draft[p] EXCEPT !.phase = "complete"])
    /\ statePath' = tmpPath
    /\ tmpPath' = None
    /\ UNCHANGED <<coreVars, fd, disk>>

FlushTemporary(p) ==
    LET receipt == [draft[p] EXCEPT !.phase = "complete"]
    IN  /\ Advance(p, "stage_flush", TRUE, "publish", receipt)
        /\ \E text \in Written(p, receipt) : disk' = [disk EXCEPT ![fd[p]] = text]
        /\ UNCHANGED <<coreVars, fd, statePath, tmpPath>>

(* Another run may have renamed the sibling away: FileNotFoundError. *)
Publish(p) ==
    /\ Advance(p, "publish", tmpPath # None, "done", draft[p])
    /\ statePath' = IF tmpPath = None THEN statePath ELSE tmpPath
    /\ tmpPath' = None
    /\ UNCHANGED <<coreVars, fd, disk>>

ResumeStep(p) ==
    \/ RereadHead(p)
    \/ RestartUse(p)
    \/ RetireHead(p)
    \/ ObserveRetired(p)
    \/ ProbeRefusal(p)
    \/ OpenTemporary(p)
    \/ FlushTemporary(p)
    \/ Publish(p)

-----------------------------------------------------------------------------

(* The process is killed, or a command it issued fails: it raises, and     *)
(* whatever its commands did so far stays.                                 *)
Abandon(p) ==
    /\ Live(p)
    /\ pc' = [pc EXCEPT ![p] = "failed"]
    /\ draft' = [draft EXCEPT ![p] = Blank]
    /\ disturbed' = TRUE
    /\ UNCHANGED <<coreVars, fileVars>>

OtherActs(k) ==
    /\ OtherOperator(k)
    /\ disturbed' = TRUE
    /\ UNCHANGED <<pc, draft, fileVars>>

Next ==
    \/ \E p \in Preparers : CheckAbsent(p) \/ PrepareStep(p)
    \/ \E p \in Resumers : LoadState(p) \/ ResumeStep(p)
    \/ \E p \in Runs : Abandon(p)
    \/ \E k \in Keys : OtherActs(k)

(* A live run executes its next command, unless it dies: the script's      *)
(* control flow is a straight line, and subprocess.run, which has no       *)
(* timeout, is assumed to return.  Nothing obliges anyone to start a run.  *)
PrepareGoesOn(p) == WF_vars(PrepareStep(p))
ResumeGoesOn(p) == WF_vars(ResumeStep(p))

Fairness ==
    /\ \A p \in Preparers : PrepareGoesOn(p)
    /\ \A p \in Resumers : ResumeGoesOn(p)

Spec == Init /\ [][Next]_vars
FairSpec == Spec /\ Fairness

-----------------------------------------------------------------------------
(* Properties *)

(* Evidence that a receipt may rest on: its revision went through review,  *)
(* the head it records was active with that revision, both uses reported   *)
(* that revision, and that very head, not a later one, was retired.        *)
Prepared(receipt) ==
    /\ receipt.revision \in approved
    /\ proposedFor[receipt.revision] = KeyOf[receipt.scenario]
    /\ receipt.head.lifecycle = "active"
    /\ receipt.head.active = receipt.revision
    /\ receipt.firstUse = receipt.revision

Completed(receipt) ==
    /\ receipt.restartUse = receipt.revision
    /\ <<KeyOf[receipt.scenario], receipt.head.generation>> \in retirements
    /\ receipt.retiredHead.lifecycle = "retired"
    /\ receipt.retiredHead.generation > receipt.head.generation

(* Whatever runs overlap, die or tear the file, and whatever other         *)
(* operators do between two commands, a state file that reads as a receipt *)
(* is backed by the governed records it names (gc1_external_consumer.py,   *)
(* prepare and resume).                                                    *)
ReceiptIsBacked ==
    /\ StateFile.phase \in {"prepared", "complete"} => Prepared(StateFile)
    /\ StateFile.phase = "complete" => Completed(StateFile)

(* A resume retires only the head it was prepared for: at the moment of    *)
(* the retirement the head is still, in every respect, the recorded one,   *)
(* although it was compared two commands earlier (RereadHead).             *)
RetiresRecordedHead ==
    [][\A p \in Resumers :
         pc[p] = "retire" /\ pc'[p] = "observe" /\ head' # head
           => head[Key(p)] = draft[p].head]_vars

(* When runs do not overlap, the state file is the receipt of module       *)
(* EvidenceReceipt: recorded once and completed once, and never lost, torn *)
(* or rewritten in between, wherever a run dies.                           *)
Receipt == INSTANCE EvidenceReceipt
           WITH receipt <- IF StateFile.phase = "torn" THEN Blank ELSE StateFile

ReceiptSpec == Receipt!Spec

(* What a run that does not overlap with others reports (main prints the   *)
(* returned receipt) is what the state file holds: a resume's receipt as   *)
(* reported, a prepare's at least with its revision and evidence.          *)
ReportedIsRecorded ==
    \A p \in Runs :
        pc[p] = "done" =>
          /\ StateFile.revision = draft[p].revision
          /\ StateFile.head = draft[p].head
          /\ p \in Resumers => StateFile = draft[p]

(* The head has moved on from a prepared receipt, and no run is past its   *)
(* check of the head.                                                      *)
Outdated ==
    /\ StateFile.phase = "prepared"
    /\ head[KeyOf[StateFile.scenario]].generation > StateFile.head.generation
    /\ \A p \in Resumers : pc[p] \notin ResumeSteps \ {"reread"}

(* An outdated receipt can never be completed: a retirement that a resume  *)
(* which died left behind is not taken for evidence of a later one, and    *)
(* reactivating the revision does not help (RereadHead compares the whole  *)
(* head, generation included, before anything else is done).               *)
OutdatedIsFinal == [][Outdated => Outdated']_vars

(* A key has a head, but no receipt records it and no prepare run of the   *)
(* key is past its review: the run died after `review`, or another         *)
(* operator approved first.                                                *)
Orphaned(k) ==
    /\ head[k].generation > 0
    /\ ~ (StateFile.phase \in {"prepared", "complete"} /\ KeyOf[StateFile.scenario] = k)
    /\ \A p \in Preparers :
         pc[p] \in PrepareSteps \ {"teach", "inspect", "review"} => Key(p) # k

(* No later prepare run adopts the orphaned approval or approves over it:  *)
(* a re-taught proposal is selectable, and the review expects generation   *)
(* 0.  What no receipt records, no receipt will ever record.               *)
OrphanIsNeverRecorded ==
    [][\A k \in Keys : Orphaned(k) => Orphaned(k)']_vars

(* When runs do not overlap, a resume that nobody disturbs completes the   *)
(* receipt: in particular its last use is a request the service has not    *)
(* already answered.  Resumes that overlap write one ".tmp" and can        *)
(* publish a torn file (_replace): nothing of the kind is claimed of them. *)
UndisturbedResumeCompletes ==
    \A p \in Resumers :
        pc[p] = "reread" ~> (StateFile.phase = "complete" \/ disturbed)

(* "Prepare refuses to replace an existing state file"                     *)
(* (docs/gc1-external-consumer.md:45; _write_new raises "refusing to       *)
(* replace existing prepare state").                                       *)
PrepareNeverReplaces ==
    [][\A p \in Preparers :
         StateFile.phase = "prepared" /\ pc[p] = "open" /\ pc'[p] = "flush"
           => StateFile' = StateFile]_vars

(* "connection errors, unrelated command failures, and idempotent replay   *)
(* of the pre-retirement request cannot satisfy the fail-closed gate"      *)
(* (docs/gc1-external-consumer.md:64): a run passes the gate only if a use *)
(* of the key could not have succeeded.                                    *)
GateSeesIneligibility ==
    [][\A p \in Resumers :
         pc[p] = "probe" /\ pc'[p] = "stage"
           => Answers(Key(p), "post_retirement_use") = {}]_vars

=============================================================================
