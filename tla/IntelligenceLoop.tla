--------------------------- MODULE IntelligenceLoop ---------------------------
(***************************************************************************)
(* The PREPARED loop that scripts/v08_intelligence_os_acceptance.py closes *)
(* over one store: the derivations and Briefs of BriefSynthesis, the       *)
(* Decision, Outcome and feedback of GovernedFeedback about one of those   *)
(* Briefs (scripts/p1e_governed_feedback_acceptance.py loads its record    *)
(* and hands its reference on), and a Case that an analyst assembles over  *)
(* the Shift and the Signal the Brief rests on.  All of them run against   *)
(* an activation that is upgraded and rolled back meanwhile, and a Case    *)
(* awaits its authorization between reading the head and the append.       *)
(*                                                                         *)
(* The resource plane that reads the store afterwards is a projection with *)
(* no state of its own and is left out.                                    *)
(***************************************************************************)
EXTENDS BriefSynthesis

CONSTANTS
    Analysts,
    Reviewed,       \* the synthesis key whose Brief an analyst reviews
    DecidedBy,      \* the analyst a Decision is of
    Proposers, Approvers, Decisions, Outcomes, DecisionOf, Eligible,
    Adjustment, Moments, Initial, Minimum, Maximum  \* of GovernedFeedback

VARIABLES
    record,         \* the Brief record an analyst has loaded
    desk,           \* where an analyst's Case is
    closure,        \* the derivation the Case is about
    head,           \* the activation head its authorization requires
    cases,          \* the Cases in the store
    subject,        \* the Brief record a recorded Decision names
    decisions, outcomes, proposals, policy, turn, draft, given

feedbackVars == <<decisions, outcomes, proposals, policy, turn, draft, given>>
caseVars == <<record, desk, closure, head, cases>>
loopVars == <<vars, feedbackVars, caseVars, subject>>

Feedback == INSTANCE GovernedFeedback WITH at <- turn, returned <- given

ASSUME LoopAssumption ==
    /\ Reviewed \in [Analysts -> SynthesisKeys]
    /\ DecidedBy \in [Decisions -> Analysts]
    /\ Feedback!FeedbackAssumption

Assembling == {"reviewed", "authorize", "append"}

(* A Case binds the revision of its Brief and is appended under the head   *)
(* of the day.                                                             *)
Cases == [brief : SynthesisKeys, closure : Derivations, revision : Nat,
          under : Nat]

LoopTypeOK ==
    /\ TypeOK
    /\ Feedback!TypeOK
    /\ record \in [Analysts -> Briefs \cup {Nothing}]
    /\ desk \in [Analysts -> {"idle", "assembled", "refused", "interrupted"}
                             \cup Assembling]
    /\ closure \in [Analysts -> Derivations \cup {Nothing}]
    /\ head \in [Analysts -> Nat]
    /\ cases \subseteq Cases
    /\ subject \in [Decisions -> Briefs \cup {Nothing}]

LoopInit ==
    /\ Init
    /\ Feedback!Init
    /\ record = [a \in Analysts |-> Nothing]
    /\ desk = [a \in Analysts |-> "idle"]
    /\ closure = [a \in Analysts |-> Nothing]
    /\ head = [a \in Analysts |-> 0]
    /\ cases = {}
    /\ subject = [d \in Decisions |-> Nothing]

-----------------------------------------------------------------------------

DeskGoTo(a, to) == desk' = [desk EXCEPT ![a] = to]

(* The exact record of the Brief is loaded, or missing.                    *)
LoadBriefRecord(a) ==
    /\ desk[a] = "idle"
    /\ \/ /\ briefs[Reviewed[a]] # Nothing
          /\ record' = [record EXCEPT ![a] = briefs[Reviewed[a]]]
          /\ DeskGoTo(a, "reviewed")
       \/ /\ briefs[Reviewed[a]] = Nothing
          /\ DeskGoTo(a, "refused")
          /\ UNCHANGED record
    /\ UNCHANGED <<vars, feedbackVars, closure, head, cases, subject>>

(* Fault: nobody looks whether the record of the Brief was there.          *)
RecordDecisionUnread(d) ==
    /\ Feedback!RecordDecision(d)
    /\ subject' = [subject EXCEPT ![d] = briefs[Reviewed[DecidedBy[d]]]]
    /\ UNCHANGED <<vars, caseVars>>

(* A Decision names the record its analyst has loaded.                     *)
RecordDecision(d) ==
    /\ record[DecidedBy[d]] # Nothing
    /\ Feedback!RecordDecision(d)
    /\ subject' = [subject EXCEPT ![d] = record[DecidedBy[d]]]
    /\ UNCHANGED <<vars, caseVars>>

FeedbackStep ==
    /\ \/ \E o \in Outcomes : Feedback!RecordOutcome(o)
       \/ \E w \in Proposers \cup Approvers : Feedback!Step(w)
    /\ UNCHANGED <<vars, caseVars, subject>>

(* Fault: the store is searched for a Shift and a Signal, not for those    *)
(* the Brief names.                                                        *)
CloseOverAnyRecords(a) ==
    /\ desk[a] = "reviewed"
    /\ \E d \in Derivations : /\ derived[d] # 0
                              /\ closure' = [closure EXCEPT ![a] = d]
    /\ head' = [head EXCEPT ![a] = installed]
    /\ DeskGoTo(a, "authorize")
    /\ UNCHANGED <<vars, feedbackVars, record, cases, subject>>

(* The closure is the Shift and the Signal of the Brief, which are there   *)
(* because the Brief is; the head is read from the record store at once.   *)
CloseCase(a) ==
    /\ desk[a] = "reviewed"
    /\ closure' = [closure EXCEPT ![a] = record[a].request.derivation]
    /\ head' = [head EXCEPT ![a] = installed]
    /\ DeskGoTo(a, "authorize")
    /\ UNCHANGED <<vars, feedbackVars, record, cases, subject>>

(* The authorization of the append, which is awaited, requires that head.  *)
AuthorizeCase(a) ==
    /\ desk[a] = "authorize"
    /\ \E to \in {"append", "refused"} : DeskGoTo(a, to)
    /\ UNCHANGED <<vars, feedbackVars, record, closure, head, cases, subject>>

CaseBy(a) ==
    [brief    |-> Reviewed[a],
     closure  |-> closure[a],
     revision |-> record[a].request.revision,
     under    |-> head[a]]

(* Fault: the append forgets the preconditions of its authorization.       *)
AppendCaseUnconditionally(a) ==
    /\ desk[a] = "append"
    /\ cases' = cases \cup {CaseBy(a)}
    /\ DeskGoTo(a, "assembled")
    /\ UNCHANGED <<vars, feedbackVars, record, closure, head, subject>>

(* (external store) The append has the preconditions of the authorization. *)
AppendCase(a) ==
    /\ desk[a] = "append"
    /\ \/ /\ installed = head[a]
          /\ cases' = cases \cup {CaseBy(a)}
          /\ DeskGoTo(a, "assembled")
       \/ /\ installed # head[a]
          /\ DeskGoTo(a, "refused")
          /\ UNCHANGED cases
    /\ UNCHANGED <<vars, feedbackVars, record, closure, head, subject>>

InterruptCase(a) ==
    /\ desk[a] \in Assembling
    /\ DeskGoTo(a, "interrupted")
    /\ UNCHANGED <<vars, feedbackVars, record, closure, head, cases, subject>>

AssembleCase(a) ==
    \/ LoadBriefRecord(a)
    \/ CloseCase(a)
    \/ AuthorizeCase(a)
    \/ AppendCase(a)
    \/ InterruptCase(a)

LoopNext ==
    \/ Next /\ UNCHANGED <<feedbackVars, caseVars, subject>>
    \/ \E a \in Analysts : AssembleCase(a)
    \/ \E d \in Decisions : RecordDecision(d)
    \/ FeedbackStep

LoopSpec == LoopInit /\ [][LoopNext]_loopVars

-----------------------------------------------------------------------------
(* Properties *)

(* The loop is closed, back from its last record to its first: what moved  *)
(* the policy is the Outcome of a Decision about a Brief that its key      *)
(* still holds as the analyst has read it, and whose Shift and Signal were *)
(* derived under the Brief's own revision.                                 *)
LoopIsClosed ==
    \A n \in 1..Len(policy) :
        LET d == DecisionOf[policy[n].outcome]
            b == subject[d]
        IN  /\ d \in decisions
            /\ b # Nothing
            /\ briefs[Reviewed[DecidedBy[d]]] = b
            /\ derived[b.request.derivation] = b.request.revision

(* A Case is about the Shift and the Signal of its Brief and binds the     *)
(* Brief's revision, which may have been superseded when the Case was      *)
(* assembled but is never one the head had yet to reach.                   *)
CaseRestsOnItsBrief ==
    \A c \in cases :
        /\ briefs[c.brief] # Nothing
        /\ c.closure = briefs[c.brief].request.derivation
        /\ c.revision = briefs[c.brief].request.revision
        /\ c.revision = derived[c.closure]
        /\ c.revision <= c.under
        /\ c.under <= installed

(* The head a Case was authorized under is the head when it is appended:   *)
(* an upgrade or a rollback during the authorization refuses the Case.     *)
CaseUnderAuthorizedHead ==
    [][\A c \in cases' \ cases : c.under = installed]_loopVars

(* The loop is a governed synthesis and a governed feedback at once.       *)
SynthesisSpec == Spec

FeedbackSpec == Feedback!Spec
=============================================================================
