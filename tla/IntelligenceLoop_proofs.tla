------------------------ MODULE IntelligenceLoop_proofs ------------------------
(***************************************************************************)
(* Proofs about IntelligenceLoop, for any analysts, runs, requests, Packs, *)
(* outcomes, adjustments and administrators.  The loop implements both the *)
(* synthesis and the feedback it is composed of, so that the invariants    *)
(* proved of each hold here; what is left to show is where they meet: a    *)
(* Brief an analyst has loaded stays what its key holds (AnalystOK), a     *)
(* Decision names a loaded record (DecisionOK), and the head only moves on *)
(* from the one a Brief was appended under (BriefUnder).                   *)
(***************************************************************************)
EXTENDS IntelligenceLoop, BriefSynthesis_proofs

Proved == INSTANCE GovernedFeedback_proofs WITH at <- turn, returned <- given

Closed == {"authorize", "append"}

BriefUnder(k) == briefs[k] # Nothing => briefs[k].under <= installed

AnalystOK(a) ==
    /\ record[a] # Nothing => briefs[Reviewed[a]] = record[a]
    /\ desk[a] \in Assembling => record[a] # Nothing
    /\ desk[a] \in Closed =>
         /\ closure[a] = record[a].request.derivation
         /\ record[a].request.revision <= head[a]
         /\ head[a] <= installed

DecisionOK(d) ==
    d \in decisions => /\ subject[d] # Nothing
                       /\ subject[d] = record[DecidedBy[d]]

CaseTypes ==
    /\ record \in [Analysts -> Briefs \cup {Nothing}]
    /\ desk \in [Analysts -> {"idle", "assembled", "refused", "interrupted"}
                             \cup Assembling]
    /\ closure \in [Analysts -> Derivations \cup {Nothing}]
    /\ head \in [Analysts -> Nat]
    /\ cases \subseteq Cases
    /\ subject \in [Decisions -> Briefs \cup {Nothing}]

LoopInv ==
    /\ IInv
    /\ CaseTypes
    /\ \A k \in SynthesisKeys : BriefUnder(k)
    /\ \A a \in Analysts : AnalystOK(a)
    /\ \A d \in Decisions : DecisionOK(d)
    /\ CaseRestsOnItsBrief

-----------------------------------------------------------------------------
(* The two systems the loop is composed of *)

LEMMA SynthesisSteps ==
    ASSUME [LoopNext]_loopVars
    PROVE  [Next]_vars
<1>1. ASSUME NEW a \in Analysts, AssembleCase(a) PROVE UNCHANGED vars
  BY <1>1 DEF AssembleCase, LoadBriefRecord, CloseCase, AuthorizeCase,
              AppendCase, InterruptCase
<1>2. ASSUME NEW d \in Decisions, RecordDecision(d) PROVE UNCHANGED vars
  BY <1>2 DEF RecordDecision
<1>3. QED
  BY <1>1, <1>2 DEF LoopNext, FeedbackStep, loopVars

LEMMA FeedbackSteps ==
    ASSUME [LoopNext]_loopVars
    PROVE  [Feedback!Next]_feedbackVars
<1>1. ASSUME NEW a \in Analysts, AssembleCase(a) PROVE UNCHANGED feedbackVars
  BY <1>1 DEF AssembleCase, LoadBriefRecord, CloseCase, AuthorizeCase,
              AppendCase, InterruptCase
<1>2. ASSUME NEW d \in Decisions, RecordDecision(d) PROVE Feedback!Next
  BY <1>2 DEF RecordDecision, Feedback!Next
<1>3. ASSUME FeedbackStep PROVE Feedback!Next
  BY <1>3 DEF FeedbackStep, Feedback!Next, Feedback!Callers
<1>4. QED
  BY <1>1, <1>2, <1>3 DEF LoopNext, loopVars

(* The loop implements governed synthesis.                                 *)
THEOREM LoopImplementsSynthesis == LoopSpec => SynthesisSpec
<1>1. LoopInit => Init
  BY DEF LoopInit
<1>2. QED
  BY <1>1, SynthesisSteps, PTL DEF LoopSpec, SynthesisSpec, Spec

(* The loop implements governed feedback.                                  *)
THEOREM LoopImplementsFeedback == LoopSpec => FeedbackSpec
<1>1. LoopInit => Feedback!Init
  BY DEF LoopInit
<1>2. [LoopNext]_loopVars => [Feedback!Next]_(Feedback!vars)
  BY FeedbackSteps DEF feedbackVars, Feedback!vars
<1>3. QED
  BY <1>1, <1>2, PTL DEF LoopSpec, FeedbackSpec, Feedback!Spec

LEMMA ProvedAssumption == Proved!FeedbackAssumption
BY LoopAssumption DEF Feedback!FeedbackAssumption, Proved!FeedbackAssumption

LEMMA SameSpec == Feedback!Spec => Proved!Spec
<1>1. Feedback!Init => Proved!Init
  BY DEF Feedback!Init, Proved!Init, Feedback!Callers, Proved!Callers
<1>2. [Feedback!Next]_(Feedback!vars) => [Proved!Next]_(Proved!vars)
  BY DEF Feedback!Next, Proved!Next, Feedback!vars, Proved!vars,
         Feedback!Callers, Proved!Callers, Feedback!Step, Proved!Step,
         Feedback!RecordDecision, Proved!RecordDecision,
         Feedback!RecordOutcome, Proved!RecordOutcome,
         Feedback!ProposeFeedback, Proved!ProposeFeedback,
         Feedback!AuthorizeAction, Proved!AuthorizeAction,
         Feedback!CommitFeedback, Proved!CommitFeedback,
         Feedback!ResolveApproval, Proved!ResolveApproval,
         Feedback!Commit, Proved!Commit, Feedback!Interrupt, Proved!Interrupt,
         Feedback!GoTo, Proved!GoTo, Feedback!Current, Proved!Current,
         Feedback!EffectiveValue, Proved!EffectiveValue,
         Feedback!Bounded, Proved!Bounded,
         Feedback!Working, Proved!Working
<1>3. QED
  BY <1>1, <1>2, PTL DEF Feedback!Spec, Proved!Spec

(* What is proved of governed feedback holds of the loop.                  *)
LEMMA LoopIsEvidenced ==
    LoopSpec => [](Feedback!TypeOK /\ Feedback!RevisionsAreEvidenced)
<1>1. /\ Proved!Spec => []Proved!TypeOK
      /\ Proved!Spec => []Proved!RevisionsAreEvidenced
  BY ProvedAssumption, Proved!TypeCorrect, Proved!RevisionsEvidenced
<1>2. Proved!TypeOK => Feedback!TypeOK
  BY DEF Proved!TypeOK, Feedback!TypeOK, Proved!Callers, Feedback!Callers,
         Proved!Proposals, Feedback!Proposals, Proved!Working,
         Feedback!Working, Proved!Ended, Feedback!Ended
<1>3. Proved!RevisionsAreEvidenced => Feedback!RevisionsAreEvidenced
  BY DEF Proved!RevisionsAreEvidenced, Feedback!RevisionsAreEvidenced,
         Proved!Current, Feedback!Current
<1>4. QED
  BY <1>1, <1>2, <1>3, LoopImplementsFeedback, SameSpec, PTL DEF FeedbackSpec

-----------------------------------------------------------------------------
(* Where they meet *)

LEMMA HeadMovesOn ==
    ASSUME IInv, [Next]_vars
    PROVE  /\ installed \in Nat /\ installed' \in Nat /\ installed <= installed'
           /\ Kept
<1>1. /\ LineageTypeOK /\ Current \in Nat /\ Kept
  BY StepsKeep DEF IInv, TypeOK, Kept
<1>2. installed \in 1..Current
  BY <1>1 DEF LineageTypeOK, Current
<1>3. installed' = installed \/ installed' = Current
  <2>1. ASSUME NEW w \in Runs, Step(w) PROVE installed' = installed
    BY <2>1, RunTypes DEF IInv, lineageVars
  <2>2. ASSUME LineageNext PROVE installed' = installed \/ installed' = Current
    BY <2>2 DEF LineageNext, Upgrade, Rollback, Commit, SetGovernedStateHead,
                PrepareActivationRevision
  <2>3. QED
    BY <2>1, <2>2 DEF Next, AdmitDerivation, vars, lineageVars
<1>4. QED
  BY <1>1, <1>2, <1>3

LEMMA RecordTypes ==
    ASSUME LoopInv, NEW a \in Analysts, record[a] # Nothing
    PROVE  /\ Reviewed[a] \in SynthesisKeys
           /\ briefs[Reviewed[a]] = record[a]
           /\ record[a] \in Briefs
           /\ record[a].request \in Requests
           /\ record[a].request.derivation \in Derivations
           /\ record[a].request.revision \in Nat
           /\ derived[record[a].request.derivation] = record[a].request.revision
           /\ record[a].request.revision <= installed
<1>1. Reviewed[a] \in SynthesisKeys
  BY LoopAssumption
<1>2. briefs[Reviewed[a]] = record[a] /\ record[a] \in Briefs
  BY DEF LoopInv, AnalystOK, CaseTypes
<1>3. /\ record[a].under <= installed
      /\ record[a].under = record[a].request.revision
      /\ derived[record[a].request.derivation] = record[a].request.revision
  BY <1>1, <1>2 DEF LoopInv, BriefUnder, IInv, BriefsOK, BriefOK
<1>4. record[a].request \in Requests
  BY <1>2 DEF Briefs
<1>5. QED
  BY <1>1, <1>2, <1>3, <1>4 DEF Requests

LEMMA CaseTypesStep ==
    ASSUME LoopInv, [LoopNext]_loopVars
    PROVE  CaseTypes'
<1>0. CaseTypes /\ TypeOK
  BY DEF LoopInv, IInv
<1>1. ASSUME NEW a \in Analysts, AssembleCase(a) PROVE CaseTypes'
  <2>1. CASE LoadBriefRecord(a)
    <3>1. briefs[Reviewed[a]] \in Briefs \cup {Nothing}
      BY <1>0, LoopAssumption DEF TypeOK
    <3>2. QED
      BY <1>0, <2>1, <3>1 DEF LoadBriefRecord, DeskGoTo, CaseTypes, Assembling
  <2>2. CASE CloseCase(a)
    <3>1. record[a].request.derivation \in Derivations
      BY <2>2, RecordTypes DEF CloseCase, LoopInv, AnalystOK, Assembling
    <3>2. installed \in Nat
      BY <1>0 DEF TypeOK, LineageTypeOK
    <3>3. QED
      BY <1>0, <2>2, <3>1, <3>2 DEF CloseCase, DeskGoTo, CaseTypes, Assembling
  <2>3. CASE AuthorizeCase(a) \/ InterruptCase(a)
    BY <1>0, <2>3 DEF AuthorizeCase, InterruptCase, DeskGoTo, CaseTypes, Assembling
  <2>4. CASE AppendCase(a)
    <3>1. desk[a] = "append"
      BY <2>4 DEF AppendCase
    <3>2. record[a] # Nothing /\ closure[a] = record[a].request.derivation
      BY <3>1 DEF LoopInv, AnalystOK, Assembling, Closed
    <3>3. CaseBy(a) \in Cases
      BY <1>0, <3>2, RecordTypes DEF CaseBy, Cases, CaseTypes
    <3>4. QED
      BY <1>0, <2>4, <3>3 DEF AppendCase, DeskGoTo, CaseTypes, Assembling
  <2>5. QED
    BY <1>1, <2>1, <2>2, <2>3, <2>4 DEF AssembleCase
<1>2. ASSUME NEW d \in Decisions, RecordDecision(d) PROVE CaseTypes'
  <2>1. record[DecidedBy[d]] \in Briefs \cup {Nothing}
    BY <1>0, LoopAssumption DEF CaseTypes
  <2>2. QED
    BY <1>0, <1>2, <2>1 DEF RecordDecision, CaseTypes, caseVars
<1>3. CASE UNCHANGED <<caseVars, subject>>
  BY <1>0, <1>3 DEF CaseTypes, caseVars
<1>4. QED
  BY <1>1, <1>2, <1>3 DEF LoopNext, FeedbackStep, loopVars

LEMMA BriefUnderStep ==
    ASSUME LoopInv, [LoopNext]_loopVars, NEW k \in SynthesisKeys
    PROVE  BriefUnder(k)'
<1>1. /\ IInv /\ BriefUnder(k) /\ installed \in Nat /\ installed' \in Nat
      /\ installed <= installed' /\ [Next]_vars
  BY SynthesisSteps, HeadMovesOn DEF LoopInv
<1>2. CASE briefs'[k] = briefs[k]
  <2>1. briefs[k] # Nothing => briefs[k].under \in Nat
    BY <1>1 DEF IInv, TypeOK, Briefs
  <2>2. QED
    BY <1>1, <1>2, <2>1 DEF BriefUnder
<1>3. CASE briefs'[k] # briefs[k]
  <2>1. PICK w \in Runs : Step(w)
    BY <1>1, <1>3 DEF Next, AdmitDerivation, vars, synthesisVars
  <2>2. briefs' = [briefs EXCEPT ![Request(w).synthesis] = BriefBy(w)]
    BY <1>1, <1>3, <2>1, BriefWrites DEF IInv
  <2>3. briefs'[k].under = installed
    BY <1>1, <1>3, <2>2 DEF IInv, TypeOK, BriefBy
  <2>4. QED
    BY <1>1, <2>3 DEF BriefUnder
<1>4. QED
  BY <1>2, <1>3

LEMMA AnalystsStep ==
    ASSUME LoopInv, [LoopNext]_loopVars, NEW a \in Analysts
    PROVE  AnalystOK(a)'
<1>0. /\ IInv /\ CaseTypes /\ AnalystOK(a) /\ Reviewed[a] \in SynthesisKeys
      /\ installed \in Nat /\ installed' \in Nat /\ installed <= installed'
      /\ head[a] \in Nat /\ Nothing \notin Briefs
  BY SynthesisSteps, HeadMovesOn, LoopAssumption, SynthesisAssumption
  DEF LoopInv, CaseTypes, Briefs
<1>1. record[a] # Nothing => briefs'[Reviewed[a]] = record[a]
  BY <1>0, SynthesisSteps, HeadMovesOn DEF AnalystOK, Kept
<1>2. CASE ~AssembleCase(a)
  <2>1. ASSUME NEW o \in Analysts, AssembleCase(o), o # a
        PROVE  /\ record'[a] = record[a] /\ desk'[a] = desk[a]
               /\ closure'[a] = closure[a] /\ head'[a] = head[a]
    BY <1>0, <2>1 DEF AssembleCase, LoadBriefRecord, CloseCase, AuthorizeCase,
                      AppendCase, InterruptCase, DeskGoTo, CaseTypes
  <2>2. /\ record'[a] = record[a] /\ desk'[a] = desk[a]
        /\ closure'[a] = closure[a] /\ head'[a] = head[a]
    BY <1>2, <2>1 DEF LoopNext, RecordDecision, FeedbackStep, caseVars, loopVars
  <2>3. QED
    BY <1>0, <1>1, <2>2 DEF AnalystOK
<1>3. CASE LoadBriefRecord(a)
  <2>1. /\ UNCHANGED <<briefs, installed>>
        /\ \/ desk'[a] = "refused" /\ record' = record
           \/ desk'[a] = "reviewed" /\ record'[a] = briefs[Reviewed[a]]
              /\ briefs[Reviewed[a]] # Nothing
    BY <1>0, <1>3 DEF LoadBriefRecord, DeskGoTo, CaseTypes, vars, lineageVars,
                      synthesisVars
  <2>2. QED
    BY <1>0, <1>1, <2>1 DEF AnalystOK, Assembling, Closed
<1>4. CASE CloseCase(a)
  <2>1. /\ record' = record /\ desk'[a] = "authorize" /\ record[a] # Nothing
        /\ closure'[a] = record[a].request.derivation /\ head'[a] = installed
    BY <1>0, <1>4 DEF CloseCase, DeskGoTo, CaseTypes, AnalystOK, Assembling
  <2>2. record[a].request.revision <= installed
    BY <2>1, RecordTypes
  <2>3. QED
    BY <1>0, <1>1, <2>1, <2>2 DEF AnalystOK
<1>5. CASE AuthorizeCase(a) \/ AppendCase(a) \/ InterruptCase(a)
  <2>1. /\ UNCHANGED <<record, closure, head>>
        /\ \/ desk[a] = "authorize" /\ desk'[a] = "append"
           \/ desk'[a] \in {"refused", "assembled", "interrupted"}
    BY <1>0, <1>5 DEF AuthorizeCase, AppendCase, InterruptCase, DeskGoTo, CaseTypes
  <2>2. QED
    BY <1>0, <1>1, <2>1 DEF AnalystOK, Assembling, Closed
<1>6. QED
  BY <1>2, <1>3, <1>4, <1>5 DEF AssembleCase

LEMMA DecisionsStep ==
    ASSUME LoopInv, [LoopNext]_loopVars, NEW d \in Decisions
    PROVE  DecisionOK(d)'
<1>0. CaseTypes /\ DecisionOK(d) /\ DecidedBy[d] \in Analysts
  BY LoopAssumption DEF LoopInv
<1>1. CASE UNCHANGED <<decisions, subject, record>>
  BY <1>0, <1>1 DEF DecisionOK
<1>2. ASSUME NEW a \in Analysts, AssembleCase(a) PROVE DecisionOK(d)'
  <2>1. UNCHANGED <<decisions, subject>>
    BY <1>2 DEF AssembleCase, LoadBriefRecord, CloseCase, AuthorizeCase,
                AppendCase, InterruptCase, feedbackVars
  <2>2. CASE UNCHANGED record
    BY <1>1, <2>1, <2>2
  <2>3. CASE desk[a] = "idle" /\ record' = [record EXCEPT ![a] = briefs[Reviewed[a]]]
             /\ briefs[Reviewed[a]] # Nothing
    <3>1. record[a] # Nothing => record'[a] = record[a]
      BY <1>0, <2>3 DEF LoopInv, AnalystOK, CaseTypes
    <3>2. record[DecidedBy[d]] # Nothing => record'[DecidedBy[d]] = record[DecidedBy[d]]
      BY <1>0, <2>3, <3>1 DEF CaseTypes
    <3>3. QED
      BY <1>0, <2>1, <3>2 DEF DecisionOK
  <2>4. QED
    BY <1>2, <2>2, <2>3 DEF AssembleCase, LoadBriefRecord, CloseCase,
                            AuthorizeCase, AppendCase, InterruptCase
<1>3. ASSUME NEW e \in Decisions, RecordDecision(e) PROVE DecisionOK(d)'
  <2>1. /\ decisions' = decisions \cup {e} /\ record' = record
        /\ record[DecidedBy[e]] # Nothing
        /\ subject' = [subject EXCEPT ![e] = record[DecidedBy[e]]]
    BY <1>3 DEF RecordDecision, Feedback!RecordDecision, caseVars
  <2>2. QED
    BY <1>0, <2>1 DEF DecisionOK, CaseTypes
<1>4. ASSUME FeedbackStep PROVE UNCHANGED <<decisions, subject, record>>
  BY <1>4 DEF FeedbackStep, caseVars, Feedback!RecordOutcome, Feedback!Step,
     Feedback!ProposeFeedback, Feedback!AuthorizeAction, Feedback!CommitFeedback,
     Feedback!ResolveApproval, Feedback!Commit, Feedback!Interrupt
<1>5. QED
  BY <1>1, <1>2, <1>3, <1>4 DEF LoopNext, loopVars, feedbackVars, caseVars

(* What a step adds to the Cases.                                          *)
LEMMA CaseWrites ==
    ASSUME LoopInv, [LoopNext]_loopVars, NEW c \in cases', c \notin cases
    PROVE  \E a \in Analysts :
              /\ c = CaseBy(a)
              /\ record[a] # Nothing
              /\ closure[a] = record[a].request.derivation
              /\ record[a].request.revision <= head[a]
              /\ head[a] = installed
              /\ UNCHANGED vars
<1>1. PICK a \in Analysts : AssembleCase(a)
  BY DEF LoopNext, RecordDecision, FeedbackStep, loopVars, caseVars
<1>2. /\ desk[a] = "append" /\ installed = head[a] /\ UNCHANGED vars
      /\ cases' = cases \cup {CaseBy(a)}
  BY <1>1 DEF AssembleCase, LoadBriefRecord, CloseCase, AuthorizeCase,
              AppendCase, InterruptCase
<1>3. AnalystOK(a)
  BY DEF LoopInv
<1>4. QED
  BY <1>2, <1>3 DEF AnalystOK, Closed, Assembling

LEMMA CasesStep ==
    ASSUME LoopInv, [LoopNext]_loopVars
    PROVE  CaseRestsOnItsBrief'
<1> SUFFICES ASSUME NEW c \in cases'
             PROVE  /\ briefs'[c.brief] # Nothing
                    /\ c.closure = briefs'[c.brief].request.derivation
                    /\ c.revision = briefs'[c.brief].request.revision
                    /\ c.revision = derived'[c.closure]
                    /\ c.revision <= c.under
                    /\ c.under <= installed'
  BY DEF CaseRestsOnItsBrief
<1>0. /\ IInv /\ Kept /\ CaseTypes /\ CaseRestsOnItsBrief
      /\ installed \in Nat /\ installed' \in Nat /\ installed <= installed'
  BY SynthesisSteps, HeadMovesOn DEF LoopInv
<1>1. CASE c \in cases
  <2>1. c.brief \in SynthesisKeys /\ c.closure \in Derivations /\ c.under \in Nat
    BY <1>0, <1>1 DEF CaseTypes, Cases
  <2>2. /\ briefs[c.brief] # Nothing
        /\ c.closure = briefs[c.brief].request.derivation
        /\ c.revision = briefs[c.brief].request.revision
        /\ c.revision = derived[c.closure]
        /\ c.revision <= c.under /\ c.under <= installed
    BY <1>0, <1>1 DEF CaseRestsOnItsBrief
  <2>3. briefs'[c.brief] = briefs[c.brief]
    BY <1>0, <2>1, <2>2 DEF Kept
  <2>4. c.revision # 0
    <3>1. c.revision \in 1..Current
      BY <1>0, <2>1, <2>2 DEF IInv, BriefsOK, BriefOK
    <3>2. QED
      BY <1>0, <3>1 DEF Kept
  <2>5. derived'[c.closure] = derived[c.closure]
    BY <1>0, <2>1, <2>2, <2>4 DEF Kept
  <2>6. c.under <= installed'
    BY <1>0, <2>1, <2>2
  <2>7. c.revision = derived'[c.closure]
    BY <2>2, <2>5
  <2>8. /\ briefs'[c.brief] # Nothing
        /\ c.closure = briefs'[c.brief].request.derivation
        /\ c.revision = briefs'[c.brief].request.revision
    BY <2>2, <2>3
  <2>9. QED
    BY <2>2, <2>6, <2>7, <2>8
<1>2. CASE c \notin cases
  <2>1. PICK a \in Analysts : /\ c = CaseBy(a)
                              /\ record[a] # Nothing
                              /\ closure[a] = record[a].request.derivation
                              /\ record[a].request.revision <= head[a]
                              /\ head[a] = installed
                              /\ UNCHANGED vars
    BY <1>2, CaseWrites
  <2>2. /\ briefs' = briefs /\ derived' = derived /\ installed' = installed
    BY <2>1 DEF vars, synthesisVars, lineageVars
  <2>3. QED
    BY <1>0, <2>1, <2>2, RecordTypes DEF CaseBy
<1>3. QED
  BY <1>1, <1>2

LEMMA LoopInvInit == LoopInit => LoopInv
<1> SUFFICES ASSUME LoopInit PROVE LoopInv
  OBVIOUS
<1>1. IInv
  BY InvInit DEF LoopInit
<1>2. CaseTypes
  BY DEF LoopInit, CaseTypes
<1>3. \A k \in SynthesisKeys : BriefUnder(k)
  BY DEF LoopInit, Init, BriefUnder
<1>4. \A a \in Analysts : AnalystOK(a)
  BY DEF LoopInit, AnalystOK, Assembling, Closed
<1>5. \A d \in Decisions : DecisionOK(d)
  BY DEF LoopInit, DecisionOK, Feedback!Init
<1>6. CaseRestsOnItsBrief
  BY DEF LoopInit, CaseRestsOnItsBrief
<1>7. QED
  BY <1>1, <1>2, <1>3, <1>4, <1>5, <1>6 DEF LoopInv

THEOREM LoopInvariance == LoopSpec => []LoopInv
<1>1. ASSUME LoopInv, [LoopNext]_loopVars PROVE LoopInv'
  <2>1. IInv'
    BY <1>1, SynthesisSteps, TypeStep, RunsStep, AttemptsStep, BriefsStep
    DEF LoopInv, IInv
  <2>2. QED
    BY <1>1, <2>1, CaseTypesStep, BriefUnderStep, AnalystsStep, DecisionsStep,
       CasesStep DEF LoopInv
<1>2. QED
  BY LoopInvInit, <1>1, PTL DEF LoopSpec

-----------------------------------------------------------------------------
(* The properties *)

(* Every variable has its type, whatever interleaving.                     *)
THEOREM LoopTypes == LoopSpec => []LoopTypeOK
<1>1. LoopInv /\ Feedback!TypeOK => LoopTypeOK
  BY DEF LoopInv, IInv, CaseTypes, LoopTypeOK
<1>2. QED
  BY LoopInvariance, LoopIsEvidenced, <1>1, PTL

(* What moved the policy leads back to a Brief its key still holds.        *)
THEOREM LoopCloses == LoopSpec => []LoopIsClosed
<1>1. ASSUME LoopInv, Feedback!TypeOK, Feedback!RevisionsAreEvidenced
      PROVE  LoopIsClosed
  <2> SUFFICES ASSUME NEW n \in 1..Len(policy)
               PROVE  LET d == DecisionOf[policy[n].outcome]
                          b == subject[d]
                      IN  /\ d \in decisions
                          /\ b # Nothing
                          /\ briefs[Reviewed[DecidedBy[d]]] = b
                          /\ derived[b.request.derivation] = b.request.revision
    BY DEF LoopIsClosed
  <2> DEFINE d == DecisionOf[policy[n].outcome]
  <2>1. d \in decisions
    BY <1>1 DEF Feedback!RevisionsAreEvidenced, Feedback!Current
  <2>2. d \in Decisions
    BY <1>1, <2>1 DEF Feedback!TypeOK
  <2>3. DecidedBy[d] \in Analysts
    BY <2>2, LoopAssumption
  <2>4. subject[d] # Nothing /\ subject[d] = record[DecidedBy[d]]
    BY <1>1, <2>1, <2>2 DEF LoopInv, DecisionOK
  <2>5. QED
    BY <1>1, <2>1, <2>3, <2>4, RecordTypes
<1>2. QED
  BY LoopInvariance, LoopIsEvidenced, <1>1, PTL

(* A Case is about its Brief's own closure and never precedes the Brief.   *)
THEOREM CasesRest == LoopSpec => []CaseRestsOnItsBrief
<1>1. LoopInv => CaseRestsOnItsBrief
  BY DEF LoopInv
<1>2. QED
  BY LoopInvariance, <1>1, PTL

(* The head a Case was authorized under is the head when it is appended.   *)
THEOREM CasesUnderHead == LoopSpec => CaseUnderAuthorizedHead
<1>1. LoopInv /\ [LoopNext]_loopVars
         => [\A c \in cases' \ cases : c.under = installed]_loopVars
  BY CaseWrites DEF CaseBy
<1>2. QED
  BY LoopInvariance, <1>1, PTL DEF LoopSpec, CaseUnderAuthorizedHead

(* A replay in the loop needs the exact Pack of its Brief and nothing else.*)
THEOREM LoopReplays == LoopSpec => []ReplaySurvivesRollback
  BY LoopImplementsSynthesis, ReplaysSurvive, PTL DEF SynthesisSpec

(* A Brief of the loop rests for good on its own revision.                 *)
THEOREM LoopBriefsRest == LoopSpec => []BriefRestsOnItsRevision
  BY LoopImplementsSynthesis, BriefsRest, PTL DEF SynthesisSpec

(* A Brief of the loop has cost one call, made for its own request.        *)
THEOREM LoopBriefsCostOneCall == LoopSpec => []BriefFromOneCall
  BY LoopImplementsSynthesis, BriefsCostOneCall, PTL DEF SynthesisSpec

(* No adjustment of the policy is lost in the loop either.                 *)
THEOREM LoopLosesNothing == LoopSpec => []Feedback!NoUpdateLost
<1>1. Proved!Spec => []Proved!NoUpdateLost
  BY ProvedAssumption, Proved!NothingIsLost
<1>2. Proved!NoUpdateLost => Feedback!NoUpdateLost
  BY DEF Proved!NoUpdateLost, Feedback!NoUpdateLost, Proved!Current,
         Feedback!Current, Proved!Bounded, Feedback!Bounded
<1>3. QED
  BY <1>1, <1>2, LoopImplementsFeedback, SameSpec, PTL DEF FeedbackSpec

-----------------------------------------------------------------------------
(* From a policy revision back to the call that it rests on *)

(* What a Brief of the loop has cost and rests on.                         *)
Accounted(b) ==
    LET r == b.request IN
        /\ r.revision \in 1..Current
        /\ lineage[r.revision].pack = b.pack
        /\ b.under = r.revision
        /\ derived[r.derivation] = r.revision
        /\ \E w \in Runs :
              /\ Request(w) = r
              /\ calls[w] = 1
              /\ \A v \in Runs \ {w} : Request(v).attempt = r.attempt => calls[v] = 0

(* A policy revision can be traced through the whole of the loop: to its   *)
(* Outcome, to the Decision of that Outcome, to the Brief it names, which  *)
(* its key still holds, to the Shift and the Signal of that Brief, to the  *)
(* revision and the Pack both were made under, and to the one call of the  *)
(* one provider that drafted it.  Neither system says so much by itself:   *)
(* feedback knows no Brief, and synthesis no Decision.                     *)
THEOREM PolicyIsTraceable ==
    LoopSpec => [](\A n \in 1..Len(policy) :
                      LET d == DecisionOf[policy[n].outcome]
                      IN  /\ policy[n].outcome \in outcomes
                          /\ d \in decisions
                          /\ subject[d] = briefs[Reviewed[DecidedBy[d]]]
                          /\ subject[d] # Nothing
                          /\ Accounted(subject[d]))
<1> DEFINE Traced(n) == LET d == DecisionOf[policy[n].outcome]
                        IN  /\ policy[n].outcome \in outcomes
                            /\ d \in decisions
                            /\ subject[d] = briefs[Reviewed[DecidedBy[d]]]
                            /\ subject[d] # Nothing
                            /\ Accounted(subject[d])
<1>1. ASSUME BriefRestsOnItsRevision, BriefFromOneCall,
             NEW k \in SynthesisKeys, briefs[k] # Nothing
      PROVE  Accounted(briefs[k])
  <2>1. PICK w \in Runs : /\ calls[w] = 1
                          /\ Request(w) = briefs[k].request
                          /\ \A v \in Runs \ {w} :
                                Request(v).attempt = Request(w).attempt => calls[v] = 0
    BY <1>1 DEF BriefFromOneCall
  <2>2. QED
    BY <1>1, <2>1 DEF BriefRestsOnItsRevision, Accounted
<1>2. ASSUME Feedback!TypeOK, Feedback!RevisionsAreEvidenced, LoopIsClosed,
             BriefRestsOnItsRevision, BriefFromOneCall, NEW n \in 1..Len(policy)
      PROVE  Traced(n)
  <2> DEFINE d == DecisionOf[policy[n].outcome]
             k == Reviewed[DecidedBy[d]]
  <2>1. policy[n].outcome \in outcomes /\ d \in decisions
    BY <1>2 DEF Feedback!RevisionsAreEvidenced, Feedback!Current
  <2>2. subject[d] # Nothing /\ briefs[k] = subject[d]
    BY <1>2 DEF LoopIsClosed
  <2>3. k \in SynthesisKeys
    BY <1>2, <2>1, LoopAssumption DEF Feedback!TypeOK
  <2>4. Accounted(briefs[k])
    BY <1>1, <1>2, <2>2, <2>3
  <2>5. Accounted(subject[d])
    BY <2>2, <2>4
  <2>6. QED
    BY <2>1, <2>2, <2>5
<1>3. Feedback!TypeOK /\ Feedback!RevisionsAreEvidenced /\ LoopIsClosed
        /\ BriefRestsOnItsRevision /\ BriefFromOneCall
        => \A n \in 1..Len(policy) : Traced(n)
  BY <1>2
<1>4. QED
  BY LoopIsEvidenced, LoopCloses, LoopBriefsRest, LoopBriefsCostOneCall, <1>3, PTL
=============================================================================
