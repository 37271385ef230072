----------------------- MODULE GovernedFeedback_proofs -----------------------
(***************************************************************************)
(* Proofs about GovernedFeedback, for any runs, decisions, outcomes,       *)
(* adjustments and bounds of the policy.                                   *)
(*                                                                         *)
(* A proposal stays true of the past: it was computed from the revision it *)
(* names and from the value that revision had, and revisions are only      *)
(* appended (Computed, ComputedForGood).  The commit compares the revision *)
(* it names with the head, so that the past it was computed from is the    *)
(* present when it becomes the next revision.                              *)
(***************************************************************************)
EXTENDS GovernedFeedback, TLAPS

(* The value of a policy revision, of the Pack where there is none.        *)
ValueAt(n) == IF n = 0 THEN Initial ELSE policy[n].proposed

Computed(p) ==
    /\ p.base <= Current
    /\ p.prior = ValueAt(p.base)
    /\ p.outcome \in outcomes \cap DOMAIN Adjustment
    /\ p.proposed = Bounded(p.prior + Adjustment[p.outcome])

RecordsOK ==
    /\ decisions \subseteq Eligible
    /\ \A o \in outcomes : o \in Eligible /\ DecisionOf[o] \in decisions

ProposalsOK == \A p \in proposals : Computed(p)

DraftsOK ==
    \A w \in Callers :
        /\ at[w] = "authorize" => draft[w] \in Proposals /\ Computed(draft[w])
        /\ at[w] \in {"approve", "commit"} => draft[w] \in proposals

PolicyOK ==
    \A n \in 1..Current : policy[n] \in proposals /\ policy[n].base = n - 1

ReturnedOK ==
    \A w \in Approvers : returned[w] # 0 =>
        /\ at[w] \in {"committed", "replayed"}
        /\ returned[w] \in 1..Current
        /\ policy[returned[w]] = draft[w]

IInv == /\ TypeOK
        /\ RecordsOK
        /\ ProposalsOK
        /\ DraftsOK
        /\ PolicyOK
        /\ ReturnedOK

-----------------------------------------------------------------------------
(* Values *)

LEMMA BoundedIsInt ==
    ASSUME NEW v \in Int
    PROVE  Bounded(v) \in Int
BY FeedbackAssumption DEF Bounded

LEMMA ValueIsInt ==
    ASSUME TypeOK
    PROVE  /\ \A n \in 0..Current : ValueAt(n) \in Int
           /\ EffectiveValue = ValueAt(Current)
<1>1. policy \in Seq(Proposals) /\ Current \in Nat
  BY DEF TypeOK, Current
<1>2. \A n \in 1..Current : policy[n] \in Proposals
  BY <1>1 DEF Current
<1>3. \A n \in 1..Current : policy[n].proposed \in Int
  BY <1>2 DEF Proposals
<1>4. policy = <<>> <=> Current = 0
  BY <1>1 DEF Current
<1>5. QED
  BY <1>1, <1>3, <1>4, FeedbackAssumption DEF ValueAt, EffectiveValue

(* A proposal computed from the policy as it is now.                       *)
LEMMA ProposalIsComputed ==
    ASSUME TypeOK, NEW o \in outcomes, o \in DOMAIN Adjustment, NEW m \in Moments
    PROVE  LET p == [outcome  |-> o,
                     made     |-> m,
                     base     |-> Current,
                     prior    |-> EffectiveValue,
                     proposed |-> Bounded(EffectiveValue + Adjustment[o])]
           IN  p \in Proposals /\ Computed(p)
<1>1. Current \in Nat
  BY DEF TypeOK, Current
<1>2. EffectiveValue \in Int /\ EffectiveValue = ValueAt(Current)
  BY <1>1, ValueIsInt
<1>3. EffectiveValue + Adjustment[o] \in Int
  BY <1>2, FeedbackAssumption
<1>4. Bounded(EffectiveValue + Adjustment[o]) \in Int
  BY <1>3, BoundedIsInt
<1>5. o \in Outcomes
  BY DEF TypeOK
<1>6. QED
  BY <1>1, <1>2, <1>4, <1>5 DEF Proposals, Computed

(* Nothing is taken back: outcomes are only added and revisions appended.  *)
OnlyAdded ==
    /\ outcomes \subseteq outcomes'
    /\ proposals \subseteq proposals'
    /\ Current' >= Current
    /\ \A n \in 1..Current : policy'[n] = policy[n]

LEMMA ComputedForGood ==
    ASSUME TypeOK, OnlyAdded, Current' \in Nat, NEW p \in Proposals, Computed(p)
    PROVE  Computed(p)'
<1>1. p.base \in Nat /\ Current \in Nat
  BY DEF Proposals, TypeOK, Current
<1>2. p.base <= Current'
  BY <1>1 DEF Computed, OnlyAdded
<1>3. ValueAt(p.base)' = ValueAt(p.base)
  BY <1>1 DEF Computed, OnlyAdded, ValueAt
<1>4. QED
  BY <1>2, <1>3 DEF Computed, OnlyAdded, Bounded

(* The successful branch of a commit makes the draft the next revision.    *)
LEMMA CommitAppends ==
    ASSUME IInv, NEW w \in Callers, at[w] = "commit",
           policy' = Append(policy, draft[w])
    PROVE  /\ draft[w] \in proposals /\ draft[w] \in Proposals
           /\ policy' \in Seq(Proposals)
           /\ Current' = Current + 1 /\ Current \in Nat
           /\ policy'[Current + 1] = draft[w]
           /\ \A n \in 1..Current : policy'[n] = policy[n]
<1>1. draft[w] \in proposals /\ draft[w] \in Proposals
  BY DEF IInv, DraftsOK, TypeOK
<1>2. policy \in Seq(Proposals)
  BY DEF IInv, TypeOK
<1>3. QED
  BY <1>1, <1>2 DEF Current

-----------------------------------------------------------------------------
(* Types *)

LEMMA TypeInit == Init => TypeOK
BY DEF Init, TypeOK, Callers

LEMMA TypeStep ==
    ASSUME IInv, [Next]_vars
    PROVE  TypeOK'
<1> USE DEF IInv, TypeOK
<1>1. ASSUME NEW d \in Decisions, RecordDecision(d) PROVE TypeOK'
  BY <1>1 DEF RecordDecision
<1>2. ASSUME NEW o \in Outcomes, RecordOutcome(o) PROVE TypeOK'
  BY <1>2 DEF RecordOutcome
<1>3. ASSUME NEW w \in Callers, ProposeFeedback(w) PROVE TypeOK'
  <2>1. CASE draft' = draft
    BY <1>3, <2>1 DEF ProposeFeedback, GoTo, Ended, Working
  <2>2. CASE draft' # draft
    <3>1. PICK o \in outcomes, m \in Moments :
              /\ o \in DOMAIN Adjustment
              /\ draft' = [draft EXCEPT ![w] =
                     [outcome  |-> o,
                      made     |-> m,
                      base     |-> Current,
                      prior    |-> EffectiveValue,
                      proposed |-> Bounded(EffectiveValue + Adjustment[o])]]
              /\ GoTo(w, "authorize")
      BY <1>3, <2>2 DEF ProposeFeedback
    <3>2. draft' \in [Callers -> Proposals \cup {Nothing}]
      BY <3>1, ProposalIsComputed
    <3>3. QED
      BY <1>3, <3>1, <3>2 DEF ProposeFeedback, GoTo, Working
  <2>3. QED
    BY <2>1, <2>2
<1>4. ASSUME NEW w \in Callers, AuthorizeAction(w) PROVE TypeOK'
  <2>1. draft[w] \in Proposals
    BY <1>4 DEF AuthorizeAction, DraftsOK
  <2>2. QED
    BY <1>4, <2>1 DEF AuthorizeAction, GoTo, Ended
<1>5. ASSUME NEW w \in Callers, CommitFeedback(w) PROVE TypeOK'
  <2>1. Current \in Nat
    BY DEF Current
  <2>2. QED
    BY <1>5, <2>1 DEF CommitFeedback, GoTo, Working, Ended
<1>6. ASSUME NEW w \in Callers, ResolveApproval(w) PROVE TypeOK'
  BY <1>6 DEF ResolveApproval, GoTo, Working, Ended
<1>7. ASSUME NEW w \in Callers, Commit(w) PROVE TypeOK'
  <2>1. CASE policy' = Append(policy, draft[w])
    <3>1. policy' \in Seq(Proposals) /\ Current + 1 \in Nat
      BY <1>7, <2>1, CommitAppends DEF Commit
    <3>2. returned' \in [Approvers -> Nat]
      BY <1>7, <3>1 DEF Commit
    <3>3. QED
      BY <1>7, <3>1, <3>2 DEF Commit, GoTo, Ended
  <2>2. CASE UNCHANGED <<policy, returned>>
    BY <1>7, <2>2 DEF Commit, GoTo, Ended
  <2>3. QED
    BY <1>7, <2>1, <2>2 DEF Commit
<1>8. ASSUME NEW w \in Callers, Interrupt(w) PROVE TypeOK'
  BY <1>8 DEF Interrupt, GoTo, Ended
<1>9. CASE UNCHANGED vars
  BY <1>9 DEF vars
<1>10. QED
  BY <1>1, <1>2, <1>3, <1>4, <1>5, <1>6, <1>7, <1>8, <1>9 DEF Next, Step

-----------------------------------------------------------------------------
(* The invariant *)

LEMMA InvInit == Init => IInv
<1> SUFFICES ASSUME Init PROVE IInv
  OBVIOUS
<1>1. TypeOK
  BY TypeInit
<1>2. Current = 0
  BY DEF Init, Current
<1>3. QED
  BY <1>1, <1>2 DEF Init, IInv, RecordsOK, ProposalsOK, DraftsOK, PolicyOK, ReturnedOK

(* Every step only adds. *)
LEMMA StepsOnlyAdd ==
    ASSUME IInv, [Next]_vars
    PROVE  OnlyAdded
<1>1. Current \in Nat
  BY DEF IInv, TypeOK, Current
<1>2. ASSUME UNCHANGED policy, outcomes \subseteq outcomes',
             proposals \subseteq proposals'
      PROVE  OnlyAdded
  BY <1>1, <1>2 DEF OnlyAdded, Current
<1>3. ASSUME NEW w \in Callers, Commit(w), policy' # policy PROVE OnlyAdded
  <2>1. at[w] = "commit" /\ policy' = Append(policy, draft[w])
    BY <1>3 DEF Commit
  <2>2. Current' = Current + 1 /\ \A n \in 1..Current : policy'[n] = policy[n]
    BY <2>1, CommitAppends
  <2>3. UNCHANGED <<outcomes, proposals>>
    BY <1>3 DEF Commit
  <2>4. QED
    BY <1>1, <2>2, <2>3 DEF OnlyAdded
<1>4. ASSUME NEW w \in Callers, Step(w), ~Commit(w)
      PROVE  /\ UNCHANGED <<policy, outcomes>>
             /\ proposals \subseteq proposals'
  BY <1>4 DEF Step, ProposeFeedback, AuthorizeAction, CommitFeedback,
              ResolveApproval, Interrupt
<1>5. ASSUME NEW w \in Callers, Commit(w)
      PROVE  UNCHANGED <<outcomes, proposals>>
  BY <1>5 DEF Commit
<1>6. QED
  BY <1>2, <1>3, <1>4, <1>5 DEF Next, RecordDecision, RecordOutcome, vars

LEMMA ComputedStays ==
    ASSUME IInv, [Next]_vars, NEW p \in Proposals, Computed(p)
    PROVE  Computed(p)'
<1>1. OnlyAdded
  BY StepsOnlyAdd
<1>2. TypeOK /\ Current' \in Nat
  BY TypeStep DEF TypeOK, IInv, Current
<1>3. QED
  BY <1>1, <1>2, ComputedForGood

LEMMA RecordsStep ==
    ASSUME IInv, [Next]_vars
    PROVE  RecordsOK'
<1> USE DEF IInv, RecordsOK
<1>1. ASSUME NEW d \in Decisions, RecordDecision(d) PROVE RecordsOK'
  BY <1>1 DEF RecordDecision
<1>2. ASSUME NEW o \in Outcomes, RecordOutcome(o) PROVE RecordsOK'
  BY <1>2 DEF RecordOutcome
<1>3. ASSUME NEW w \in Callers, Step(w) PROVE UNCHANGED <<decisions, outcomes>>
  BY <1>3 DEF Step, ProposeFeedback, AuthorizeAction, CommitFeedback,
              ResolveApproval, Commit, Interrupt
<1>4. QED
  BY <1>1, <1>2, <1>3 DEF Next, vars

LEMMA ProposalsStep ==
    ASSUME IInv, [Next]_vars
    PROVE  ProposalsOK'
<1> SUFFICES ASSUME NEW p \in proposals' PROVE Computed(p)'
  BY DEF ProposalsOK
<1>1. CASE p \in proposals
  <2>1. p \in Proposals /\ Computed(p)
    BY <1>1 DEF IInv, TypeOK, ProposalsOK
  <2>2. QED
    BY <2>1, ComputedStays
<1>2. CASE p \notin proposals
  <2>1. PICK w \in Callers : AuthorizeAction(w) /\ p = draft[w]
    BY <1>2 DEF Next, Step, RecordDecision, RecordOutcome, ProposeFeedback,
                AuthorizeAction, CommitFeedback, ResolveApproval, Commit,
                Interrupt, vars
  <2>2. p \in Proposals /\ Computed(p)
    BY <2>1 DEF AuthorizeAction, IInv, DraftsOK
  <2>3. QED
    BY <2>2, ComputedStays
<1>3. QED
  BY <1>1, <1>2

LEMMA DraftsStep ==
    ASSUME IInv, [Next]_vars
    PROVE  DraftsOK'
<1> SUFFICES ASSUME NEW v \in Callers, NEW p, p = draft'[v]
             PROVE  /\ at'[v] = "authorize" => p \in Proposals /\ Computed(p)'
                    /\ at'[v] \in {"approve", "commit"} => p \in proposals'
  BY DEF DraftsOK, Computed
<1>1. /\ at \in [Callers -> {"idle"} \cup Working \cup Ended]
      /\ draft \in [Callers -> Proposals \cup {Nothing}]
      /\ proposals \subseteq proposals'
  BY StepsOnlyAdd DEF IInv, TypeOK, OnlyAdded
<1>2. /\ at[v] = "authorize" => draft[v] \in Proposals /\ Computed(draft[v])
      /\ at[v] \in {"approve", "commit"} => draft[v] \in proposals
  BY DEF IInv, DraftsOK
<1>3. CASE at'[v] = at[v] /\ draft'[v] = draft[v]
  <2>1. at[v] = "authorize" => p \in Proposals /\ Computed(p)
    BY <1>2, <1>3
  <2>2. at[v] = "authorize" => Computed(p)'
    BY <2>1, ComputedStays
  <2>3. QED
    BY <1>1, <1>2, <1>3, <2>1, <2>2
<1>4. CASE ~(at'[v] = at[v] /\ draft'[v] = draft[v])
  <2>1. Step(v)
    BY <1>1, <1>4 DEF Next, Step, RecordDecision, RecordOutcome,
                ProposeFeedback, AuthorizeAction, CommitFeedback,
                ResolveApproval, Commit, Interrupt, GoTo, vars
  <2>2. CASE ProposeFeedback(v)
    <3>1. CASE at'[v] = "refused"
      BY <3>1
    <3>2. CASE at'[v] # "refused"
      <4>1. PICK o \in outcomes, m \in Moments :
                /\ o \in DOMAIN Adjustment
                /\ draft' = [draft EXCEPT ![v] =
                       [outcome  |-> o,
                        made     |-> m,
                        base     |-> Current,
                        prior    |-> EffectiveValue,
                        proposed |-> Bounded(EffectiveValue + Adjustment[o])]]
                /\ GoTo(v, "authorize")
        BY <1>1, <2>2, <3>2 DEF ProposeFeedback, GoTo
      <4>2. p \in Proposals /\ Computed(p)
        BY <1>1, <4>1, ProposalIsComputed DEF IInv
      <4>3. Computed(p)'
        BY <4>2, ComputedStays
      <4>4. QED
        BY <1>1, <4>1, <4>2, <4>3 DEF GoTo
    <3>3. QED
      BY <3>1, <3>2
  <2>3. CASE CommitFeedback(v)
    BY <1>1, <2>3 DEF CommitFeedback, GoTo
  <2>4. CASE ResolveApproval(v)
    BY <1>1, <1>2, <2>4 DEF ResolveApproval, GoTo
  <2>5. CASE AuthorizeAction(v) \/ Commit(v) \/ Interrupt(v)
    BY <1>1, <2>5 DEF AuthorizeAction, Commit, Interrupt, GoTo
  <2>6. QED
    BY <2>1, <2>2, <2>3, <2>4, <2>5 DEF Step
<1>5. QED
  BY <1>3, <1>4

(* The only step that writes the policy, and what it finds.                *)
LEMMA PolicyChange ==
    ASSUME IInv, [Next]_vars, policy' # policy
    PROVE  \E w \in Callers :
               /\ at[w] = "commit"
               /\ draft[w].base = Current
               /\ policy' = Append(policy, draft[w])
               /\ returned' = [returned EXCEPT ![w] = Current + 1]
               /\ at' = [at EXCEPT ![w] = "committed"]
               /\ UNCHANGED <<proposals, draft>>
BY DEF Next, Step, RecordDecision, RecordOutcome, ProposeFeedback,
       AuthorizeAction, CommitFeedback, ResolveApproval, Commit, Interrupt,
       GoTo, vars

LEMMA PolicyStep ==
    ASSUME IInv, [Next]_vars
    PROVE  PolicyOK'
<1>1. /\ proposals \subseteq proposals' /\ Current \in Nat
      /\ \A n \in 1..Current : policy[n] \in proposals /\ policy[n].base = n - 1
  BY StepsOnlyAdd DEF OnlyAdded, IInv, PolicyOK, TypeOK, Current
<1>2. CASE policy' = policy
  BY <1>1, <1>2 DEF PolicyOK, Current
<1>3. CASE policy' # policy
  <2>1. PICK w \in Callers : /\ at[w] = "commit"
                          /\ draft[w].base = Current
                          /\ policy' = Append(policy, draft[w])
    BY <1>3, PolicyChange
  <2>2. /\ draft[w] \in proposals
        /\ Current' = Current + 1
        /\ policy'[Current + 1] = draft[w]
        /\ \A n \in 1..Current : policy'[n] = policy[n]
    BY <2>1, CommitAppends
  <2>3. ASSUME NEW n \in 1..Current'
        PROVE  policy'[n] \in proposals' /\ policy'[n].base = n - 1
    <3>1. CASE n \in 1..Current
      BY <1>1, <2>2, <3>1
    <3>2. CASE n = Current + 1
      BY <1>1, <2>1, <2>2, <3>2
    <3>3. QED
      BY <1>1, <2>2, <3>1, <3>2
  <2>4. QED
    BY <2>3 DEF PolicyOK
<1>4. QED
  BY <1>2, <1>3

LEMMA ReturnedStep ==
    ASSUME IInv, [Next]_vars
    PROVE  ReturnedOK'
<1> SUFFICES ASSUME NEW v \in Approvers, returned'[v] # 0
             PROVE  /\ at'[v] \in {"committed", "replayed"}
                    /\ returned'[v] \in 1..Current'
                    /\ policy'[returned'[v]] = draft'[v]
  BY DEF ReturnedOK
<1>1. /\ v \in Callers
      /\ at \in [Callers -> {"idle"} \cup Working \cup Ended]
      /\ draft \in [Callers -> Proposals \cup {Nothing}]
      /\ returned \in [Approvers -> Nat]
      /\ Current \in Nat /\ Current' \in Nat /\ Current' >= Current
      /\ \A n \in 1..Current : policy'[n] = policy[n]
  BY StepsOnlyAdd, TypeStep DEF IInv, TypeOK, OnlyAdded, Callers, Current
<1>2. returned[v] # 0 => /\ at[v] \in {"committed", "replayed"}
                         /\ returned[v] \in 1..Current
                         /\ policy[returned[v]] = draft[v]
  BY DEF IInv, ReturnedOK
<1>3. CASE at'[v] = at[v] /\ draft'[v] = draft[v] /\ returned'[v] = returned[v]
  BY <1>1, <1>2, <1>3
<1>4. CASE ~(at'[v] = at[v] /\ draft'[v] = draft[v] /\ returned'[v] = returned[v])
  <2>1. Step(v)
    BY <1>1, <1>4 DEF Next, Step, RecordDecision, RecordOutcome,
                ProposeFeedback, AuthorizeAction, CommitFeedback,
                ResolveApproval, Commit, Interrupt, GoTo, vars
  <2>2. returned[v] = 0
    BY <1>1, <1>2, <2>1 DEF Step, ProposeFeedback, AuthorizeAction,
                CommitFeedback, ResolveApproval, Commit, Interrupt, Working
  <2>3. CASE CommitFeedback(v)
    <3>1. /\ Current # 0
          /\ returned'[v] = Current
          /\ draft'[v] = policy[Current]
          /\ at'[v] = "replayed"
          /\ policy' = policy
      BY <1>1, <2>2, <2>3 DEF CommitFeedback, GoTo
    <3>2. QED
      BY <1>1, <3>1
  <2>4. CASE Commit(v)
    <3>1. /\ at[v] = "commit"
          /\ policy' = Append(policy, draft[v])
          /\ returned'[v] = Current + 1
          /\ at'[v] = "committed"
          /\ draft' = draft
      BY <1>1, <2>2, <2>4 DEF Commit, GoTo
    <3>2. Current' = Current + 1 /\ policy'[Current + 1] = draft[v]
      BY <1>1, <3>1, CommitAppends
    <3>3. QED
      BY <1>1, <3>1, <3>2
  <2>5. CASE UNCHANGED returned
    BY <2>2, <2>5
  <2>6. QED
    BY <2>1, <2>3, <2>4, <2>5 DEF Step, ProposeFeedback, AuthorizeAction,
                ResolveApproval, Interrupt
<1>5. QED
  BY <1>3, <1>4

THEOREM FeedbackInvariant == Spec => []IInv
<1>1. IInv /\ [Next]_vars => IInv'
  BY TypeStep, RecordsStep, ProposalsStep, DraftsStep, PolicyStep,
     ReturnedStep DEF IInv
<1>2. QED
  BY InvInit, <1>1, PTL DEF Spec

-----------------------------------------------------------------------------
(* The properties *)

(* Every variable has its type, whatever interleaving.                     *)
THEOREM TypeCorrect == Spec => []TypeOK
<1>1. IInv => TypeOK
  BY DEF IInv
<1>2. QED
  BY FeedbackInvariant, <1>1, PTL

LEMMA RevisionIsComputed ==
    ASSUME IInv, NEW n \in 1..Current
    PROVE  /\ policy[n] \in proposals
           /\ policy[n].base = n - 1
           /\ policy[n].prior = ValueAt(n - 1)
           /\ policy[n].outcome \in outcomes \cap DOMAIN Adjustment
           /\ policy[n].proposed = Bounded(policy[n].prior
                                           + Adjustment[policy[n].outcome])
<1>1. policy[n] \in proposals /\ policy[n].base = n - 1
  BY DEF IInv, PolicyOK
<1>2. Computed(policy[n])
  BY <1>1 DEF IInv, ProposalsOK
<1>3. QED
  BY <1>1, <1>2 DEF Computed

(* No committed adjustment is lost, however approvers interleave.          *)
THEOREM NothingIsLost == Spec => []NoUpdateLost
<1>1. ASSUME IInv, NEW n \in 1..Current
      PROVE  ValueAt(n - 1) = IF n = 1 THEN Initial ELSE policy[n - 1].proposed
  BY <1>1 DEF ValueAt, Current, IInv, TypeOK
<1>2. IInv => NoUpdateLost
  BY <1>1, RevisionIsComputed DEF NoUpdateLost
<1>3. QED
  BY FeedbackInvariant, <1>2, PTL

(* Every policy revision rests on records that are still there, and what   *)
(* an approver was given is the revision of its own proposal.              *)
THEOREM RevisionsEvidenced == Spec => []RevisionsAreEvidenced
<1>1. ASSUME IInv, NEW n \in 1..Current
      PROVE  /\ policy[n] \in proposals
             /\ policy[n].outcome \in outcomes \cap Eligible
             /\ DecisionOf[policy[n].outcome] \in decisions \cap Eligible
  BY <1>1, RevisionIsComputed DEF IInv, RecordsOK
<1>2. IInv => RevisionsAreEvidenced
  BY <1>1 DEF RevisionsAreEvidenced, IInv, ReturnedOK
<1>3. QED
  BY FeedbackInvariant, <1>2, PTL

(* The effective value implements the bounded calibration.                 *)
THEOREM FeedbackCalibrates == Spec => CalibrationSpec
<1>1. Init => Calibrated!Init
  BY DEF Init, Calibrated!Init, EffectiveValue
<1>2. ASSUME IInv, [Next]_vars, EffectiveValue' # EffectiveValue
      PROVE  Calibrated!Next
  <2>1. policy' # policy
    BY <1>2 DEF EffectiveValue, Current
  <2>2. PICK w \in Callers : /\ at[w] = "commit"
                          /\ draft[w].base = Current
                          /\ policy' = Append(policy, draft[w])
    BY <1>2, <2>1, PolicyChange
  <2>3. /\ draft[w] \in proposals
        /\ Current \in Nat /\ Current' = Current + 1
        /\ policy'[Current + 1] = draft[w]
    BY <1>2, <2>2, CommitAppends
  <2>4. /\ draft[w].prior = ValueAt(Current)
        /\ draft[w].outcome \in DOMAIN Adjustment
        /\ draft[w].proposed = Bounded(draft[w].prior + Adjustment[draft[w].outcome])
    BY <1>2, <2>2, <2>3 DEF IInv, ProposalsOK, Computed
  <2>5. EffectiveValue = ValueAt(Current)
    BY <1>2, ValueIsInt DEF IInv
  <2>6. EffectiveValue' = draft[w].proposed
    BY <2>3 DEF EffectiveValue, Current
  <2>7. Calibrated!Adjust(Adjustment[draft[w].outcome])
    BY <2>4, <2>5, <2>6 DEF Calibrated!Adjust, Calibrated!Bounded, Bounded
  <2>8. QED
    BY <2>4, <2>7 DEF Calibrated!Next
<1>3. IInv /\ [Next]_vars => [Calibrated!Next]_EffectiveValue
  BY <1>2
<1>4. QED
  BY <1>1, <1>3, FeedbackInvariant, PTL DEF Spec, CalibrationSpec, Calibrated!Spec

(* A proposal moves the policy at most once, whoever approves it and       *)
(* however often it is submitted; another proposal for the same Outcome    *)
(* may move it again.                                                      *)
THEOREM ProposalsCommitOnce ==
    Spec => [](\A i, j \in 1..Current : policy[i] = policy[j] => i = j)
<1>1. ASSUME IInv, NEW i \in 1..Current, NEW j \in 1..Current, policy[i] = policy[j]
      PROVE  i = j
  <2>1. policy[i].base = i - 1 /\ policy[j].base = j - 1
    BY <1>1, RevisionIsComputed
  <2>2. Current \in Nat
    BY <1>1 DEF IInv, TypeOK, Current
  <2>3. QED
    BY <1>1, <2>1, <2>2
<1>2. IInv => \A i, j \in 1..Current : policy[i] = policy[j] => i = j
  BY <1>1
<1>3. QED
  BY <1>2, FeedbackInvariant, PTL

(* Two approvers are given the same policy revision only if both submitted *)
(* the same proposal: nobody is told of another's commit as their own.     *)
THEOREM ApproversAreToldTheirOwn ==
    Spec => [](\A v, w \in Approvers :
                  returned[v] # 0 /\ returned[w] # 0
                  => (returned[v] = returned[w] <=> draft[v] = draft[w]))
<1>1. ASSUME IInv, NEW v \in Approvers, NEW w \in Approvers,
             returned[v] # 0, returned[w] # 0
      PROVE  returned[v] = returned[w] <=> draft[v] = draft[w]
  <2>1. /\ returned[v] \in 1..Current /\ policy[returned[v]] = draft[v]
        /\ returned[w] \in 1..Current /\ policy[returned[w]] = draft[w]
    BY <1>1 DEF IInv, ReturnedOK
  <2>2. /\ policy[returned[v]].base = returned[v] - 1
        /\ policy[returned[w]].base = returned[w] - 1
    BY <1>1, <2>1, RevisionIsComputed
  <2>3. Current \in Nat
    BY <1>1 DEF IInv, TypeOK, Current
  <2>4. QED
    BY <2>1, <2>2, <2>3
<1>2. IInv => \A v, w \in Approvers :
                 returned[v] # 0 /\ returned[w] # 0
                 => (returned[v] = returned[w] <=> draft[v] = draft[w])
  BY <1>1
<1>3. QED
  BY <1>2, FeedbackInvariant, PTL

(* A proposal that was overtaken: others have committed since, and not it. *)
Stale(p) ==
    /\ p.base < Current
    /\ \A n \in 1..Current : policy[n] # p

(* An overtaken proposal is never committed, whether it was recorded       *)
(* already, waits for its authorisation or has its approval: revisions are *)
(* only appended and each is compared with the head when it is committed   *)
(* (the pinned stale_feedback_proposal, and the race it does not show).    *)
THEOREM StaleIsFinal ==
    Spec => [][/\ \A p \in Proposals : Stale(p) => Stale(p)'
               /\ \A n \in 1..Current : policy'[n] = policy[n]]_vars
<1> DEFINE A == /\ \A p \in Proposals : Stale(p) => Stale(p)'
                /\ \A n \in 1..Current : policy'[n] = policy[n]
<1>1. IInv /\ [Next]_vars => A
  <2> SUFFICES ASSUME IInv, [Next]_vars PROVE A
    OBVIOUS
  <2>1. Current \in Nat
    BY DEF IInv, TypeOK, Current
  <2>2. CASE policy' = policy
    BY <2>2 DEF Stale, Current
  <2>3. CASE policy' # policy
    <3>1. PICK w \in Callers : /\ at[w] = "commit"
                               /\ draft[w].base = Current
                               /\ policy' = Append(policy, draft[w])
      BY <2>3, PolicyChange DEF vars
    <3>2. /\ draft[w] \in Proposals
          /\ Current' = Current + 1
          /\ policy'[Current + 1] = draft[w]
          /\ \A n \in 1..Current : policy'[n] = policy[n]
      BY <3>1, CommitAppends
    <3>3. ASSUME NEW p \in Proposals, Stale(p) PROVE Stale(p)'
      <4>1. p.base \in Nat /\ p.base < Current
        BY <3>3 DEF Stale, Proposals
      <4>2. p # draft[w]
        BY <2>1, <3>1, <4>1
      <4>3. \A n \in 1..Current' : policy'[n] # p
        BY <2>1, <3>2, <3>3, <4>2 DEF Stale
      <4>4. QED
        BY <2>1, <3>2, <4>1, <4>3 DEF Stale
    <3>4. QED
      BY <3>2, <3>3
  <2>4. QED
    BY <2>2, <2>3
<1> HIDE DEF A
<1>2. Spec => [][A]_vars
  BY <1>1, FeedbackInvariant, PTL DEF Spec
<1>3. QED
  BY <1>2 DEF A

=============================================================================
