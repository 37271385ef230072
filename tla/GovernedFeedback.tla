--------------------------- MODULE GovernedFeedback ---------------------------
(***************************************************************************)
(* Governed PREPARED feedback: scripts/p1e_governed_feedback_acceptance.py *)
(* with the policy of releases/v0_5_0/modules/decision_outcomes.json.  A   *)
(* Decision about a stored Brief, later an Outcome, then a proposal to     *)
(* adjust the policy from its current value, and, separately approved, the *)
(* commit of the proposal as the next revision of the policy in the        *)
(* governed store.  Proposers and approvers await authorisation, approval  *)
(* and the stores, so that the policy moves under them.                    *)
(*                                                                         *)
(* The service belongs to ace-core; its steps are marked (external) and    *)
(* follow run_positive and the pinned negative cases.  Values are in       *)
(* hundredths, as the policy declares them.                                *)
(***************************************************************************)
EXTENDS Integers, Sequences, FiniteSets

CONSTANTS
    Proposers,      \* runs of propose_feedback
    Approvers,      \* runs of commit_feedback
    Decisions,      \* intents to record a Decision
    Outcomes,       \* intents to record an Outcome
    DecisionOf,     \* the Decision an Outcome is about
    Eligible,       \* Decisions and Outcomes inside the policy's eligibility
    Adjustment,     \* the adjustment of an Outcome's value, where declared
    Moments,        \* when a proposal says it was made
    Initial,
    Minimum,
    Maximum,
    Nothing

ASSUME FeedbackAssumption ==
    /\ DecisionOf \in [Outcomes -> Decisions]
    /\ DOMAIN Adjustment \subseteq Outcomes
    /\ Adjustment \in [DOMAIN Adjustment -> Int]
    /\ Initial \in Int /\ Minimum \in Int /\ Maximum \in Int
    /\ Minimum <= Initial /\ Initial <= Maximum
    /\ Proposers \cap Approvers = {}
    /\ Nothing \notin [outcome : Outcomes, made : Moments, base : Nat,
                       prior : Int, proposed : Int]

VARIABLES
    decisions,      \* the Decisions recorded
    outcomes,       \* the Outcomes recorded
    proposals,      \* the proposals recorded
    policy,         \* the proposals committed, one for each policy revision
    at,             \* where a run is
    draft,          \* the proposal it makes or wants committed
    returned        \* the policy revision an approver was given

vars == <<decisions, outcomes, proposals, policy, at, draft, returned>>

Callers == Proposers \cup Approvers

(* `base` is the policy revision a proposal starts from, 0 for the Pack's  *)
(* initial value, and `prior` the value it had.                            *)
Proposals == [outcome : Outcomes, made : Moments, base : Nat,
              prior : Int, proposed : Int]

Working == {"authorize", "approve", "commit"}
Ended == {"proposed", "committed", "replayed", "refused", "interrupted"}

TypeOK ==
    /\ decisions \subseteq Decisions
    /\ outcomes \subseteq Outcomes
    /\ proposals \subseteq Proposals
    /\ policy \in Seq(Proposals)
    /\ at \in [Callers -> {"idle"} \cup Working \cup Ended]
    /\ draft \in [Callers -> Proposals \cup {Nothing}]
    /\ returned \in [Approvers -> Nat]

Init ==
    /\ decisions = {}
    /\ outcomes = {}
    /\ proposals = {}
    /\ policy = <<>>
    /\ at = [w \in Callers |-> "idle"]
    /\ draft = [w \in Callers |-> Nothing]
    /\ returned = [w \in Approvers |-> 0]

-----------------------------------------------------------------------------

GoTo(w, step) == at' = [at EXCEPT ![w] = step]

Bounded(v) == IF v < Minimum THEN Minimum ELSE IF v > Maximum THEN Maximum ELSE v

Current == Len(policy)

(* effective_policy, also of a fresh service: the head of the governed     *)
(* store, or the value of the Pack.                                        *)
EffectiveValue == IF policy = <<>> THEN Initial ELSE policy[Current].proposed

(* A Decision about the exact stored Brief is recorded once; the same      *)
(* intent again finds it there.  One the policy does not take (an unknown  *)
(* policy, another persona) or the authorizer denies leaves nothing.       *)
RecordDecision(d) ==
    /\ d \in Eligible
    /\ decisions' = decisions \cup {d}
    /\ UNCHANGED <<outcomes, proposals, policy, at, draft, returned>>

(* An Outcome names the record of a Decision; one outside the eligibility  *)
(* (another measure, observed before the Decision) is refused.             *)
RecordOutcome(o) ==
    /\ o \in Eligible
    /\ DecisionOf[o] \in decisions
    /\ outcomes' = outcomes \cup {o}
    /\ UNCHANGED <<decisions, proposals, policy, at, draft, returned>>

(* Fault: the policy revision a proposal starts from is off by one.        *)
ProposeFromIndex(w) ==
    /\ w \in Proposers
    /\ at[w] = "idle"
    /\ \E o \in outcomes \cap DOMAIN Adjustment, m \in Moments :
           draft' = [draft EXCEPT ![w] =
               [outcome  |-> o,
                made     |-> m,
                base     |-> Current - 1,
                prior    |-> EffectiveValue,
                proposed |-> Bounded(EffectiveValue + Adjustment[o])]]
    /\ GoTo(w, "authorize")
    /\ UNCHANGED <<decisions, outcomes, proposals, policy, returned>>

(* (external) A proposal is computed from a recorded Outcome whose value   *)
(* has a declared adjustment and from the policy as it is now.             *)
ProposeFeedback(w) ==
    /\ w \in Proposers
    /\ at[w] = "idle"
    /\ \E o \in outcomes, m \in Moments :
        \/ /\ o \in DOMAIN Adjustment
           /\ draft' = [draft EXCEPT ![w] =
                  [outcome  |-> o,
                   made     |-> m,
                   base     |-> Current,
                   prior    |-> EffectiveValue,
                   proposed |-> Bounded(EffectiveValue + Adjustment[o])]]
           /\ GoTo(w, "authorize")
        \/ /\ o \notin DOMAIN Adjustment
           /\ GoTo(w, "refused")
           /\ UNCHANGED draft
    /\ UNCHANGED <<decisions, outcomes, proposals, policy, returned>>

(* The authorizer denies, or the proposal is recorded; meanwhile the       *)
(* policy may have moved, and the proposal is born stale.                  *)
AuthorizeAction(w) ==
    /\ at[w] = "authorize"
    /\ \/ GoTo(w, "refused") /\ UNCHANGED proposals
       \/ GoTo(w, "proposed") /\ proposals' = proposals \cup {draft[w]}
    /\ UNCHANGED <<decisions, outcomes, policy, draft, returned>>

(* (external) A proposal that is the source of the head has been committed *)
(* already, and one that no longer targets the head is stale.              *)
CommitFeedback(w) ==
    /\ w \in Approvers
    /\ at[w] = "idle"
    /\ \E p \in proposals :
        \/ /\ p.base = Current
           /\ draft' = [draft EXCEPT ![w] = p]
           /\ GoTo(w, "approve")
           /\ UNCHANGED returned
        \/ /\ Current # 0
           /\ policy[Current] = p
           /\ returned' = [returned EXCEPT ![w] = Current]
           /\ draft' = [draft EXCEPT ![w] = p]
           /\ GoTo(w, "replayed")
        \/ /\ p.base # Current
           /\ Current # 0 => policy[Current] # p
           /\ GoTo(w, "refused")
           /\ UNCHANGED <<draft, returned>>
    /\ UNCHANGED <<decisions, outcomes, proposals, policy>>

(* The approval resolves to the proposal as its exact subject, or not.     *)
ResolveApproval(w) ==
    /\ at[w] = "approve"
    /\ \E step \in {"commit", "refused"} : GoTo(w, step)
    /\ UNCHANGED <<decisions, outcomes, proposals, policy, draft, returned>>

(* Fault: the store does not compare the head with the one expected.       *)
CommitUnconditionally(w) ==
    /\ at[w] = "commit"
    /\ policy' = Append(policy, draft[w])
    /\ returned' = [returned EXCEPT ![w] = Current + 1]
    /\ GoTo(w, "committed")
    /\ UNCHANGED <<decisions, outcomes, proposals, draft>>

(* Fault: an approver who lost the race is given the head.                 *)
CommitReportsHead(w) ==
    /\ at[w] = "commit"
    /\ \/ /\ draft[w].base = Current
          /\ policy' = Append(policy, draft[w])
          /\ returned' = [returned EXCEPT ![w] = Current + 1]
       \/ /\ draft[w].base # Current
          /\ returned' = [returned EXCEPT ![w] = Current]
          /\ UNCHANGED policy
    /\ GoTo(w, "committed")
    /\ UNCHANGED <<decisions, outcomes, proposals, draft>>

(* commit: a compare-and-swap on the revision the proposal starts from.    *)
Commit(w) ==
    /\ at[w] = "commit"
    /\ \/ /\ draft[w].base = Current
          /\ policy' = Append(policy, draft[w])
          /\ returned' = [returned EXCEPT ![w] = Current + 1]
          /\ GoTo(w, "committed")
       \/ /\ draft[w].base # Current
          /\ GoTo(w, "refused")
          /\ UNCHANGED <<policy, returned>>
    /\ UNCHANGED <<decisions, outcomes, proposals, draft>>

Interrupt(w) ==
    /\ at[w] \in Working
    /\ GoTo(w, "interrupted")
    /\ UNCHANGED <<decisions, outcomes, proposals, policy, draft, returned>>

Step(w) ==
    \/ ProposeFeedback(w)
    \/ AuthorizeAction(w)
    \/ CommitFeedback(w)
    \/ ResolveApproval(w)
    \/ Commit(w)
    \/ Interrupt(w)

Next ==
    \/ \E d \in Decisions : RecordDecision(d)
    \/ \E o \in Outcomes : RecordOutcome(o)
    \/ \E w \in Callers : Step(w)

Spec == Init /\ [][Next]_vars

-----------------------------------------------------------------------------
(* Properties *)

(* No committed adjustment is lost and no proposal is committed twice,     *)
(* however many approvers commit proposals made from the same value: every *)
(* policy revision starts from the one before it and from its value, so a  *)
(* stale proposal (the pinned stale_feedback_proposal) never overwrites    *)
(* what another approver has just committed.                               *)
NoUpdateLost ==
    \A n \in 1..Current :
        /\ policy[n].base = n - 1
        /\ policy[n].prior = IF n = 1 THEN Initial ELSE policy[n - 1].proposed
        /\ policy[n].proposed = Bounded(policy[n].prior
                                        + Adjustment[policy[n].outcome])

(* Every revision rests on records that are all still there: the proposal  *)
(* an approver saw, its Outcome and that Outcome's Decision, each inside   *)
(* the eligibility; and what an approver was given is the revision of the  *)
(* very proposal, committed now or replayed.                               *)
RevisionsAreEvidenced ==
    /\ \A n \in 1..Current :
          /\ policy[n] \in proposals
          /\ policy[n].outcome \in outcomes \cap Eligible
          /\ DecisionOf[policy[n].outcome] \in decisions \cap Eligible
    /\ \A w \in Approvers : returned[w] # 0 =>
          /\ returned[w] \in 1..Current
          /\ policy[returned[w]] = draft[w]

(* The effective value is a calibration: bounded, and moved by exactly one *)
(* declared adjustment at a time, from the value everybody reads.          *)
Calibrated ==
    INSTANCE Calibration WITH
        value <- EffectiveValue,
        Deltas <- {Adjustment[o] : o \in DOMAIN Adjustment}

CalibrationSpec == Calibrated!Spec
=============================================================================
