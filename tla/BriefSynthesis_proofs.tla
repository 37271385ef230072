------------------------- MODULE BriefSynthesis_proofs -------------------------
(***************************************************************************)
(* Proofs about BriefSynthesis, for any runs, requests, keys, Packs,       *)
(* archives, providers and administrators.                                 *)
(*                                                                         *)
(* The stores only grow (Kept): a revision, a derivation, a Brief and the  *)
(* result of an attempt stay what they are.  So whatever a run has checked *)
(* stays true (RunOK), and a Brief inherits it (BriefOK).  An attempt has  *)
(* one run that may call a provider (AttemptOK), the one it was accepted   *)
(* for, which is where a Brief costs one call.                             *)
(***************************************************************************)
EXTENDS BriefSynthesis, TLAPS

Bound == {"context", "accept", "execute", "answer", "assemble", "append"}
Informed == Bound \ {"context"}
Calling == {"execute", "answer"}

(* What holds of a run, wherever it is.                                    *)
RunOK(w) ==
    /\ existing[w] =>
         /\ at[w] \in {"historical", "replayed", "refused", "interrupted"}
         /\ Existing(w) # Nothing
         /\ Existing(w).request = Request(w)
         /\ calls[w] = 0
         /\ at[w] = "refused" => ~ResolvesExactPack(w, Existing(w).pack)
         /\ at[w] = "replayed" => ResolvesExactPack(w, Existing(w).pack)
    /\ at[w] = "historical" => existing[w]
    /\ at[w] \in Bound =>
         /\ Request(w).revision \in 1..Current
         /\ Request(w).pack = lineage[Request(w).revision].pack
         /\ Request(w).pack = ServicePack[w]
    /\ at[w] \in Informed =>
         /\ derived[Request(w).derivation] = Request(w).revision
         /\ Request(w).attention = Request(w).derivation
         /\ Request(w).derivation \notin Prebuilt
    /\ at[w] \in {"idle", "current", "context", "accept", "execute"} => calls[w] = 0
    /\ at[w] \in Calling =>
         Reasoned(w) = [request |-> Request(w), draft |-> Nothing]
    /\ at[w] = "answer" => calls[w] = 1 /\ Provider[w] \in Drafts
    /\ at[w] \in {"assemble", "append"} =>
         /\ Reasoned(w) # Nothing
         /\ Reasoned(w).request = Request(w)
         /\ Reasoned(w).draft # Nothing
    /\ at[w] = "append" => Reasoned(w).draft = "exact"
    /\ returned[w] # Nothing => returned[w] = Existing(w)

(* An attempt nobody has accepted has cost nothing; an accepted one has an *)
(* owner, and no other run calls a provider for it.                        *)
Silent(v) == calls[v] = 0 /\ at[v] \notin Calling

Owns(w, t) ==
    /\ Request(w) = reasoning[t].request
    /\ Request(w).attempt = t
    /\ reasoning[t].draft # Nothing => calls[w] = 1
    /\ \A v \in Runs \ {w} : Request(v).attempt = t => Silent(v)

AttemptOK(t) ==
    IF reasoning[t] = Nothing
    THEN \A v \in Runs : Request(v).attempt = t => Silent(v)
    ELSE \E w \in Runs : Owns(w, t)

BriefOK(k) ==
    briefs[k] # Nothing =>
        LET r == briefs[k].request IN
            /\ BriefOf(k, briefs[k])
            /\ derived[r.derivation] = r.revision
            /\ r.revision \in 1..Current
            /\ lineage[r.revision].pack = r.pack
            /\ briefs[k].under = r.revision
            /\ reasoning[r.attempt] # Nothing
            /\ reasoning[r.attempt].request = r
            /\ reasoning[r.attempt].draft # Nothing

RunsOK == \A w \in Runs : RunOK(w)
AttemptsOK == \A t \in AttemptKeys : AttemptOK(t)
BriefsOK == \A k \in SynthesisKeys : BriefOK(k)

IInv == TypeOK /\ RunsOK /\ AttemptsOK /\ BriefsOK

-----------------------------------------------------------------------------
(* The lineage *)

(* A commit appends the prepared revision or changes nothing.              *)
LEMMA LineageAppends ==
    ASSUME LineageTypeOK, NEW a \in Administrators, Commit(a)
    PROVE  \/ UNCHANGED lineage
           \/ /\ lineage' = Append(lineage, proposal[a].revision)
              /\ lineage' \in Seq(Revisions)
              /\ Current \in Nat /\ Current' = Current + 1
              /\ \A n \in 1..Current : lineage'[n] = lineage[n]
<1>1. proposal[a].revision \in Revisions /\ lineage \in Seq(Revisions)
  BY DEF LineageTypeOK, Proposals
<1>2. QED
  BY <1>1 DEF Commit, Current

LEMMA LineageTypes ==
    ASSUME LineageTypeOK, LineageNext
    PROVE  LineageTypeOK'
<1>1. /\ lineage \in Seq(Revisions) /\ Current \in Nat
      /\ \A n \in 1..Current : lineage[n] \in Revisions
  BY DEF LineageTypeOK, Current
<1>2. NoProposal \in Proposals
  BY LineageAssumption DEF NoProposal, First, Proposals, Revisions
<1>3. ASSUME NEW a \in Administrators, NEW revision \in Revisions,
             PrepareActivationRevision(a, revision)
      PROVE  LineageTypeOK'
  <2>1. [prior |-> Current, revision |-> revision] \in Proposals
    BY <1>1 DEF Proposals
  <2>2. QED
    BY <1>3, <2>1 DEF PrepareActivationRevision, LineageTypeOK
<1>4. ASSUME NEW a \in Administrators, Upgrade(a) PROVE LineageTypeOK'
  BY <1>3, <1>4 DEF Upgrade, Revisions
<1>5. ASSUME NEW a \in Administrators, Rollback(a) PROVE LineageTypeOK'
  <2>1. PICK n \in 1..Current - 1 :
            PrepareActivationRevision(a, [pack |-> lineage[n].pack, restores |-> n])
    BY <1>5 DEF Rollback
  <2>2. [pack |-> lineage[n].pack, restores |-> n] \in Revisions
    BY <1>1 DEF Revisions
  <2>3. QED
    BY <1>3, <2>1, <2>2
<1>6. ASSUME NEW a \in Administrators, Commit(a) PROVE LineageTypeOK'
  <2>1. proposal' \in [Administrators -> Proposals]
    BY <1>2, <1>6 DEF Commit, LineageTypeOK
  <2>2. installed \in 1..Current /\ installed' = installed
    BY <1>6 DEF LineageTypeOK, Commit, Current
  <2>3. CASE UNCHANGED lineage
    BY <2>1, <2>2, <2>3 DEF LineageTypeOK, Current
  <2>4. CASE lineage' \in Seq(Revisions) /\ Current' = Current + 1
    <3>1. installed' \in 1..Current'
      BY <1>1, <2>2, <2>4
    <3>2. QED
      BY <2>1, <2>4, <3>1 DEF LineageTypeOK, Current
  <2>5. QED
    BY <1>6, <2>3, <2>4, LineageAppends
<1>7. CASE SetGovernedStateHead
  BY <1>7 DEF SetGovernedStateHead, LineageTypeOK, Current
<1>8. QED
  BY <1>4, <1>5, <1>6, <1>7 DEF LineageNext

-----------------------------------------------------------------------------
(* Types *)

LEMMA RequestTypes ==
    ASSUME NEW w \in Runs
    PROVE  /\ Request(w) \in Requests
           /\ Request(w).synthesis \in SynthesisKeys
           /\ Request(w).attempt \in AttemptKeys
           /\ Request(w).derivation \in Derivations
           /\ Request(w).revision \in Nat
           /\ ServicePack[w] \in Packs
BY SynthesisAssumption DEF Request, Requests

LEMMA TypeInit == Init => TypeOK
<1> SUFFICES ASSUME Init PROVE TypeOK
  OBVIOUS
<1>1. First \in Revisions /\ NoProposal \in Proposals
  BY LineageAssumption DEF First, NoProposal, Revisions, Proposals
<1>2. LineageTypeOK
  BY <1>1 DEF Init, LineageInit, LineageTypeOK
<1>3. QED
  BY <1>2 DEF Init, TypeOK

(* A run's step, unfolded; only these write what a run owns.               *)
LEMMA RunTypes ==
    ASSUME TypeOK, NEW w \in Runs, Step(w)
    PROVE  /\ at' \in [Runs -> {"idle"} \cup Working \cup Ended]
           /\ existing' \in [Runs -> BOOLEAN]
           /\ calls' \in [Runs -> Nat]
           /\ UNCHANGED <<lineageVars, derived>>
<1>1. /\ at \in [Runs -> {"idle"} \cup Working \cup Ended]
      /\ existing \in [Runs -> BOOLEAN]
      /\ calls \in [Runs -> Nat]
  BY DEF TypeOK
<1>2. UNCHANGED <<lineageVars, derived>>
  BY DEF Step, Synthesize, LoadExact, LoadHead, LoadContext, Accept, Execute,
         Answer, Assemble, AppendBrief, Interrupt, Decide
<1>3. calls' \in [Runs -> Nat]
  BY <1>1 DEF Step, Synthesize, LoadExact, LoadHead, LoadContext, Accept,
         Execute, Answer, Assemble, AppendBrief, Interrupt, Decide
<1>4. existing' \in [Runs -> BOOLEAN]
  BY <1>1 DEF Step, Synthesize, LoadExact, LoadHead, LoadContext, Accept,
         Execute, Answer, Assemble, AppendBrief, Interrupt, Decide
<1>5. at' \in [Runs -> {"idle"} \cup Working \cup Ended]
  BY <1>1 DEF Step, Synthesize, LoadExact, LoadHead, LoadContext, Accept,
         Execute, Answer, Assemble, AppendBrief, Interrupt, Decide, GoTo,
         Working, Ended
<1>6. QED
  BY <1>2, <1>3, <1>4, <1>5

(* What a run may write into the record store.                             *)
LEMMA ReasoningWrites ==
    ASSUME IInv, NEW w \in Runs, Step(w), reasoning' # reasoning
    PROVE  \/ /\ Accept(w) /\ Reasoned(w) = Nothing
              /\ reasoning' = [reasoning EXCEPT ![Request(w).attempt] =
                                  [request |-> Request(w), draft |-> Nothing]]
           \/ /\ Answer(w) /\ Provider[w] \in Drafts /\ Provider[w] # Nothing
              /\ Reasoned(w) = [request |-> Request(w), draft |-> Nothing]
              /\ reasoning' = [reasoning EXCEPT ![Request(w).attempt] =
                                  [request |-> Request(w), draft |-> Provider[w]]]
<1>1. RunOK(w)
  BY DEF IInv, RunsOK
<1>2. Accept(w) \/ Answer(w)
  BY DEF Step, Synthesize, LoadExact, LoadHead, LoadContext, Execute,
         Assemble, AppendBrief, Interrupt, Decide
<1>3. CASE Accept(w)
  BY <1>3 DEF Accept, Reason, Request
<1>4. CASE Answer(w)
  <2>1. at[w] = "answer"
    BY <1>4 DEF Answer
  <2>2. Provider[w] \in Drafts /\ Provider[w] # Nothing
    BY <1>1, <2>1, SynthesisAssumption DEF RunOK
  <2>3. QED
    BY <1>1, <1>4, <2>1, <2>2 DEF Answer, Reason, Request, RunOK, Calling
<1>5. QED
  BY <1>2, <1>3, <1>4

BriefBy(w) == [request |-> Request(w), pack |-> ServicePack[w],
               draft |-> Reasoned(w).draft, under |-> installed]

LEMMA BriefWrites ==
    ASSUME TypeOK, NEW w \in Runs, Step(w), briefs' # briefs
    PROVE  /\ AppendBrief(w) /\ at[w] = "append"
           /\ Existing(w) = Nothing
           /\ installed = Request(w).revision
           /\ briefs' = [briefs EXCEPT ![Request(w).synthesis] = BriefBy(w)]
           /\ returned' = [returned EXCEPT ![w] = BriefBy(w)]
BY DEF Step, Synthesize, LoadExact, LoadHead, LoadContext, Accept, Execute,
       Answer, Assemble, AppendBrief, Interrupt, Decide, BriefBy

LEMMA BriefByTypes ==
    ASSUME IInv, NEW w \in Runs, at[w] = "append"
    PROVE  BriefBy(w) \in Briefs
<1>1. RunOK(w)
  BY DEF IInv, RunsOK
<1>2. Reasoned(w).draft = "exact"
  BY <1>1 DEF RunOK
<1>3. installed \in Nat
  BY DEF IInv, TypeOK, LineageTypeOK
<1>4. QED
  BY <1>2, <1>3, RequestTypes DEF BriefBy, Briefs, Drafts

LEMMA TypeStep ==
    ASSUME IInv, [Next]_vars
    PROVE  TypeOK'
<1>0. TypeOK
  BY DEF IInv
<1>1. ASSUME NEW w \in Runs, Step(w) PROVE TypeOK'
  <2>1. LineageTypeOK' /\ derived' \in [Derivations -> Nat]
    BY <1>0, <1>1, RunTypes DEF TypeOK, LineageTypeOK, lineageVars
  <2>2. reasoning' \in [AttemptKeys -> Attempts \cup {Nothing}]
    <3>1. CASE reasoning' = reasoning
      BY <1>0, <3>1 DEF TypeOK
    <3>2. CASE reasoning' # reasoning
      <4>1. \A draft \in Drafts \cup {Nothing} :
               [request |-> Request(w), draft |-> draft] \in Attempts
        BY RequestTypes DEF Attempts
      <4>2. PICK draft \in Drafts \cup {Nothing} :
               reasoning' = [reasoning EXCEPT ![Request(w).attempt] =
                               [request |-> Request(w), draft |-> draft]]
        BY <1>1, <3>2, ReasoningWrites
      <4>3. QED
        BY <1>0, <4>1, <4>2 DEF TypeOK
    <3>3. QED
      BY <3>1, <3>2
  <2>3. briefs' \in [SynthesisKeys -> Briefs \cup {Nothing}]
    BY <1>0, <1>1, BriefWrites, BriefByTypes DEF TypeOK
  <2>4. returned' \in [Runs -> Briefs \cup {Nothing}]
    <3>1. CASE briefs' # briefs
      BY <1>0, <1>1, <3>1, BriefWrites, BriefByTypes DEF TypeOK
    <3>2. CASE returned' = returned
      BY <1>0, <3>2 DEF TypeOK
    <3>3. CASE LoadExact(w)
      <4>1. Existing(w) \in Briefs \cup {Nothing}
        BY <1>0, RequestTypes DEF TypeOK, Existing, Request
      <4>2. QED
        BY <1>0, <3>3, <4>1 DEF LoadExact, TypeOK
    <3>4. CASE AppendBrief(w) /\ briefs' = briefs /\ returned' # returned
      <4>1. /\ at[w] = "append"
            /\ returned' = [returned EXCEPT ![w] = BriefBy(w)]
        BY <3>4 DEF AppendBrief, BriefBy
      <4>2. QED
        BY <1>0, <4>1, BriefByTypes DEF TypeOK
    <3>5. QED
      BY <1>1, <3>1, <3>2, <3>3, <3>4
      DEF Step, Synthesize, LoadHead, LoadContext, Accept, Execute, Answer,
          Assemble, Interrupt, Decide
  <2>5. QED
    BY <1>0, <1>1, <2>1, <2>2, <2>3, <2>4, RunTypes DEF TypeOK
<1>2. ASSUME NEW d \in Derivations, AdmitDerivation(d) PROVE TypeOK'
  <2>1. derived' \in [Derivations -> Nat]
    BY <1>0, <1>2 DEF AdmitDerivation, TypeOK
  <2>2. QED
    BY <1>0, <1>2, <2>1 DEF AdmitDerivation, TypeOK, LineageTypeOK, lineageVars
<1>3. CASE LineageNext /\ UNCHANGED synthesisVars
  BY <1>0, <1>3, LineageTypes DEF TypeOK, synthesisVars
<1>4. CASE UNCHANGED vars
  BY <1>0, <1>4 DEF TypeOK, LineageTypeOK, vars, lineageVars, synthesisVars
<1>5. QED
  BY <1>1, <1>2, <1>3, <1>4 DEF Next

-----------------------------------------------------------------------------
(* What the stores hold stays. *)

Kept ==
    /\ Current \in Nat /\ Current' \in Nat /\ Current' >= Current
    /\ \A n \in 1..Current : lineage'[n] = lineage[n]
    /\ \A d \in Derivations : derived[d] # 0 => derived'[d] = derived[d]
    /\ \A k \in SynthesisKeys : briefs[k] # Nothing => briefs'[k] = briefs[k]
    /\ \A t \in AttemptKeys : reasoning[t] # Nothing =>
         /\ reasoning'[t] # Nothing
         /\ reasoning'[t].request = reasoning[t].request
         /\ reasoning[t].draft # Nothing => reasoning'[t] = reasoning[t]

LEMMA LineageKept ==
    ASSUME LineageTypeOK, LineageNext
    PROVE  /\ Current \in Nat /\ Current' \in Nat /\ Current' >= Current
           /\ \A n \in 1..Current : lineage'[n] = lineage[n]
<1>1. Current \in Nat
  BY DEF LineageTypeOK, Current
<1>2. CASE UNCHANGED lineage
  BY <1>1, <1>2 DEF Current
<1>3. CASE \E a \in Administrators : Commit(a)
  BY <1>1, <1>2, <1>3, LineageAppends
<1>4. QED
  BY <1>2, <1>3 DEF LineageNext, Upgrade, Rollback, PrepareActivationRevision,
                    SetGovernedStateHead

LEMMA StepsKeep ==
    ASSUME IInv, [Next]_vars
    PROVE  Kept
<1>1. TypeOK /\ Current \in Nat
  BY DEF IInv, TypeOK, LineageTypeOK, Current
<1>2. CASE UNCHANGED vars
  BY <1>1, <1>2 DEF Kept, vars, lineageVars, synthesisVars, Current
<1>3. CASE LineageNext /\ UNCHANGED synthesisVars
  BY <1>1, <1>3, LineageKept DEF Kept, synthesisVars, TypeOK
<1>4. ASSUME NEW d \in Derivations, AdmitDerivation(d) PROVE Kept
  BY <1>1, <1>4 DEF AdmitDerivation, Kept, lineageVars, Current, TypeOK
<1>5. ASSUME NEW w \in Runs, Step(w) PROVE Kept
  <2>1. UNCHANGED <<lineage, derived>>
    BY <1>1, <1>5, RunTypes DEF lineageVars
  <2>2. ASSUME NEW k \in SynthesisKeys, briefs[k] # Nothing
        PROVE  briefs'[k] = briefs[k]
    BY <1>1, <1>5, <2>2, BriefWrites DEF Existing, Request, TypeOK
  <2>3. ASSUME NEW t \in AttemptKeys, reasoning[t] # Nothing
        PROVE  /\ reasoning'[t] # Nothing
               /\ reasoning'[t].request = reasoning[t].request
               /\ reasoning[t].draft # Nothing => reasoning'[t] = reasoning[t]
    <3>1. CASE reasoning'[t] = reasoning[t]
      BY <2>3, <3>1
    <3>2. CASE reasoning'[t] # reasoning[t]
      <4>1. /\ Provider[w] \in Drafts
            /\ Reasoned(w) = [request |-> Request(w), draft |-> Nothing]
            /\ reasoning' = [reasoning EXCEPT ![Request(w).attempt] =
                                [request |-> Request(w), draft |-> Provider[w]]]
            /\ t = Request(w).attempt
        BY <1>1, <1>5, <2>3, <3>2, ReasoningWrites
        DEF Reasoned, Request, TypeOK
      <4>2. [request |-> Request(w), draft |-> Provider[w]] # Nothing
        BY <4>1, RequestTypes, SynthesisAssumption
      <4>3. QED
        BY <1>1, <4>1, <4>2 DEF Reasoned, Request, TypeOK
    <3>3. QED
      BY <3>1, <3>2
  <2>4. QED
    BY <1>1, <2>1, <2>2, <2>3 DEF Kept, Current
<1>6. QED
  BY <1>2, <1>3, <1>4, <1>5 DEF Next

-----------------------------------------------------------------------------
(* Attempts *)

(* A step that writes no attempt and lets nobody call keeps the owners.    *)
LEMMA AttemptFrame ==
    ASSUME NEW t \in AttemptKeys, AttemptOK(t), reasoning'[t] = reasoning[t],
           \A v \in Runs : Request(v).attempt = t =>
               /\ calls'[v] = calls[v]
               /\ at'[v] \in Calling => at[v] \in Calling
    PROVE  AttemptOK(t)'
<1>1. \A v \in Runs : Request(v).attempt = t /\ Silent(v) => Silent(v)'
  BY DEF Silent
<1>2. ASSUME NEW w \in Runs, Owns(w, t) PROVE Owns(w, t)'
  BY <1>1, <1>2 DEF Owns, Request
<1>3. QED
  BY <1>1, <1>2 DEF AttemptOK, Request

LEMMA AttemptsStep ==
    ASSUME IInv, [Next]_vars
    PROVE  AttemptsOK'
<1> SUFFICES ASSUME NEW t \in AttemptKeys PROVE AttemptOK(t)'
  BY DEF AttemptsOK
<1>1. TypeOK /\ AttemptOK(t)
  BY DEF IInv, AttemptsOK
<1>2. CASE UNCHANGED <<reasoning, calls, at>>
  BY <1>1, <1>2, AttemptFrame
<1>3. ASSUME NEW w \in Runs, Step(w) PROVE AttemptOK(t)'
  <2>1. RunOK(w)
    BY DEF IInv, RunsOK
  <2>2. \A v \in Runs \ {w} : calls'[v] = calls[v] /\ at'[v] = at[v]
    BY <1>1, <1>3 DEF TypeOK, Step, Synthesize, LoadExact, LoadHead,
       LoadContext, Accept, Execute, Answer, Assemble, AppendBrief, Interrupt,
       Decide, GoTo
  <2>3. CASE t # Request(w).attempt
    <3>1. reasoning'[t] = reasoning[t]
      BY <1>1, <1>3, <2>3, ReasoningWrites DEF TypeOK
    <3>2. QED
      BY <1>1, <2>2, <2>3, <3>1, AttemptFrame
  <2>4. CASE t = Request(w).attempt /\ UNCHANGED reasoning /\ calls'[w] = calls[w]
             /\ (at'[w] \in Calling => at[w] \in Calling)
    BY <1>1, <2>2, <2>4, AttemptFrame
  <2>5. CASE t = Request(w).attempt /\ Accept(w) /\ Reasoned(w) = Nothing
    <3>1. /\ calls' = calls
          /\ reasoning'[t] = [request |-> Request(w), draft |-> Nothing]
      BY <1>1, <2>5 DEF Accept, Reason, Request, TypeOK
    <3>2. \A v \in Runs : Request(v).attempt = t => Silent(v)
      BY <1>1, <2>5 DEF AttemptOK, Reasoned, Request
    <3>3. \A v \in Runs \ {w} : Request(v).attempt = t => Silent(v)'
      BY <2>2, <3>2 DEF Silent
    <3>4. reasoning'[t] # Nothing
      BY <3>1, RequestTypes, SynthesisAssumption
    <3>5. Owns(w, t)'
      BY <2>5, <3>1, <3>3 DEF Owns, Request
    <3>6. QED
      BY <3>4, <3>5 DEF AttemptOK
  <2>6. ASSUME t = Request(w).attempt, at[w] \in Calling
        PROVE  /\ reasoning[t] = [request |-> Request(w), draft |-> Nothing]
               /\ reasoning[t] # Nothing
               /\ \A v \in Runs \ {w} : Request(v).attempt = t => Silent(v)
    <3>1. reasoning[t] = [request |-> Request(w), draft |-> Nothing]
      BY <2>1, <2>6 DEF RunOK, Reasoned, Request
    <3>2. reasoning[t] # Nothing
      BY <3>1, RequestTypes, SynthesisAssumption
    <3>3. PICK u \in Runs : Owns(u, t)
      BY <1>1, <3>2 DEF AttemptOK
    <3>4. u = w
      BY <2>6, <3>3 DEF Owns, Silent
    <3>5. QED
      BY <3>1, <3>2, <3>3, <3>4 DEF Owns
  <2>7. CASE t = Request(w).attempt /\ Execute(w)
    <3>1. at[w] \in Calling /\ reasoning' = reasoning
      BY <2>7 DEF Execute, Calling
    <3>2. \A v \in Runs \ {w} : Request(v).attempt = t => Silent(v)'
      BY <2>2, <2>6, <2>7, <3>1 DEF Silent
    <3>3. Owns(w, t)'
      BY <2>6, <2>7, <3>1, <3>2 DEF Owns, Request
    <3>4. QED
      BY <2>6, <2>7, <3>1, <3>3 DEF AttemptOK
  <2>8. CASE t = Request(w).attempt /\ Answer(w)
    <3>1. /\ at[w] \in Calling /\ calls[w] = 1 /\ calls' = calls
          /\ reasoning'[t] = [request |-> Request(w), draft |-> Provider[w]]
          /\ Provider[w] \in Drafts
      BY <1>1, <2>1, <2>8 DEF Answer, Reason, Calling, TypeOK, RunOK, Request
    <3>2. \A v \in Runs \ {w} : Request(v).attempt = t => Silent(v)'
      BY <2>2, <2>6, <2>8, <3>1 DEF Silent
    <3>3. reasoning'[t] # Nothing
      BY <3>1, RequestTypes, SynthesisAssumption
    <3>4. Owns(w, t)'
      BY <2>8, <3>1, <3>2 DEF Owns, Request
    <3>5. QED
      BY <3>3, <3>4 DEF AttemptOK
  <2>9. QED
    BY <1>1, <1>3, <2>3, <2>4, <2>5, <2>7, <2>8
    DEF Step, Synthesize, LoadExact, LoadHead, LoadContext, Accept, Assemble,
        AppendBrief, Interrupt, Decide, GoTo, Calling, TypeOK
<1>4. QED
  BY <1>2, <1>3 DEF Next, AdmitDerivation, vars, synthesisVars

-----------------------------------------------------------------------------
(* Runs *)

(* Nobody else answers for an attempt while its owner calls.               *)
LEMMA CallingAlone ==
    ASSUME IInv, [Next]_vars, NEW v \in Runs, at[v] \in Calling,
           at'[v] = at[v]
    PROVE  Reasoned(v)' = Reasoned(v)
<1> DEFINE t == Request(v).attempt
<1>1. /\ TypeOK /\ t \in AttemptKeys /\ AttemptOK(t)
      /\ Reasoned(v) = [request |-> Request(v), draft |-> Nothing]
  BY RequestTypes DEF IInv, AttemptsOK, RunsOK, RunOK
<1>2. Reasoned(v) # Nothing /\ Reasoned(v) = reasoning[t]
  BY <1>1, RequestTypes, SynthesisAssumption DEF Reasoned, Request
<1>3. ASSUME NEW w \in Runs, Step(w), reasoning'[t] # reasoning[t] PROVE FALSE
  <2>1. /\ t = Request(w).attempt /\ Reasoned(w) = reasoning[t]
        /\ Answer(w)
    BY <1>1, <1>2, <1>3, ReasoningWrites DEF TypeOK, Reasoned, Request
  <2>2. at[w] \in Calling /\ at'[w] # at[w]
    BY <1>1, <2>1 DEF Answer, Calling, GoTo, TypeOK
  <2>3. PICK u \in Runs : Owns(u, t)
    BY <1>1, <1>2 DEF AttemptOK
  <2>4. u = w /\ u = v
    BY <2>1, <2>2, <2>3 DEF Owns, Silent
  <2>5. QED
    BY <2>2, <2>4
<1>4. reasoning'[t] = reasoning[t]
  BY <1>3 DEF Next, AdmitDerivation, vars, synthesisVars
<1>5. QED
  BY <1>2, <1>4 DEF Reasoned, Request

(* A run that does not move keeps what it knows.                           *)
LEMMA RunFrame ==
    ASSUME IInv, [Next]_vars, NEW v \in Runs,
           at'[v] = at[v], existing'[v] = existing[v],
           calls'[v] = calls[v], returned'[v] = returned[v]
    PROVE  RunOK(v)'
<1>1. TypeOK /\ RunOK(v) /\ Kept
  BY StepsKeep DEF IInv, RunsOK
<1>2. Request(v)' = Request(v)
  BY DEF Request
<1>3. Existing(v) # Nothing => Existing(v)' = Existing(v)
  BY <1>1, RequestTypes DEF Kept, Existing, Request
<1>4. existing'[v] =>
         /\ at'[v] \in {"historical", "replayed", "refused", "interrupted"}
         /\ Existing(v)' # Nothing
         /\ Existing(v)'.request = Request(v)
         /\ calls'[v] = 0
         /\ at'[v] = "refused" => ~ResolvesExactPack(v, Existing(v)'.pack)
         /\ at'[v] = "replayed" => ResolvesExactPack(v, Existing(v)'.pack)
  BY <1>1, <1>3 DEF RunOK
<1>5. at'[v] \in Bound =>
         /\ Request(v).revision \in 1..Current'
         /\ Request(v).pack = lineage'[Request(v).revision].pack
         /\ Request(v).pack = ServicePack[v]
  BY <1>1, RequestTypes DEF RunOK, Kept
<1>6. at'[v] \in Informed =>
         /\ derived'[Request(v).derivation] = Request(v).revision
         /\ Request(v).attention = Request(v).derivation
         /\ Request(v).derivation \notin Prebuilt
  <2>1. at[v] \in Informed => Request(v).revision # 0
    BY <1>1, RequestTypes DEF RunOK, Kept, Informed
  <2>2. QED
    BY <1>1, <2>1, RequestTypes DEF RunOK, Kept
<1>7. at'[v] \in Calling =>
         Reasoned(v)' = [request |-> Request(v), draft |-> Nothing]
  BY <1>1, CallingAlone DEF RunOK
<1>8. at'[v] \in {"assemble", "append"} => Reasoned(v)' = Reasoned(v)
  BY <1>1, RequestTypes DEF RunOK, Kept, Reasoned, Request
<1>9. returned'[v] # Nothing => returned'[v] = Existing(v)'
  BY <1>1, <1>3 DEF RunOK
<1>10. QED
  BY <1>1, <1>2, <1>4, <1>5, <1>6, <1>7, <1>8, <1>9 DEF RunOK, ResolvesExactPack

LEMMA RunsStep ==
    ASSUME IInv, [Next]_vars
    PROVE  RunsOK'
<1> SUFFICES ASSUME NEW v \in Runs PROVE RunOK(v)'
  BY DEF RunsOK
<1>1. TypeOK /\ RunOK(v)
  BY DEF IInv, RunsOK
<1>2. CASE ~Step(v)
  <2>1. /\ at'[v] = at[v] /\ existing'[v] = existing[v]
        /\ calls'[v] = calls[v] /\ returned'[v] = returned[v]
    <3>1. ASSUME NEW w \in Runs, Step(w), w # v
          PROVE  /\ at'[v] = at[v] /\ existing'[v] = existing[v]
                 /\ calls'[v] = calls[v] /\ returned'[v] = returned[v]
      BY <1>1, <3>1 DEF TypeOK, Step, Synthesize, LoadExact, LoadHead,
         LoadContext, Accept, Execute, Answer, Assemble, AppendBrief,
         Interrupt, Decide, GoTo
    <3>2. QED
      BY <1>2, <3>1 DEF Next, AdmitDerivation, vars, synthesisVars
  <2>2. QED
    BY <2>1, RunFrame
<1>3. CASE Step(v)
  <2>0. /\ UNCHANGED <<lineage, derived>>
        /\ Current' = Current
        /\ Request(v)' = Request(v)
        /\ Existing(v) # Nothing => Existing(v)' = Existing(v)
    BY <1>1, <1>3, RunTypes, StepsKeep, RequestTypes
    DEF lineageVars, Current, Request, Existing, Kept
  <2> DEFINE Steady == /\ existing' = existing /\ returned' = returned
                       /\ briefs' = briefs
  <2>1. CASE Synthesize(v)
    <3>1. /\ at[v] = "idle" /\ ~existing[v] /\ calls'[v] = 0
          /\ UNCHANGED <<reasoning, briefs, returned>>
      BY <1>1, <2>1 DEF Synthesize, RunOK, TypeOK
    <3>2. \/ at'[v] \in {"current", "conflict"} /\ ~existing'[v]
          \/ /\ at'[v] = "historical" /\ existing'[v]
             /\ Existing(v) # Nothing /\ Existing(v).request = Request(v)
      BY <1>1, <2>1, <3>1 DEF Synthesize, GoTo, TypeOK
    <3>3. returned'[v] # Nothing => returned'[v] = Existing(v)'
      BY <1>1, <3>1 DEF RunOK, Existing
    <3>4. QED
      BY <2>0, <3>1, <3>2, <3>3 DEF RunOK, Bound, Informed, Calling
  <2>2. CASE LoadExact(v)
    <3>1. /\ existing[v] /\ existing'[v] /\ calls'[v] = 0
          /\ Existing(v) # Nothing /\ Existing(v).request = Request(v)
          /\ Existing(v)' = Existing(v)
      BY <1>1, <2>0, <2>2 DEF LoadExact, RunOK
    <3>2. lineage[Request(v).revision].pack = Existing(v).pack
      <4>1. BriefOK(Request(v).synthesis) /\ Existing(v) = briefs[Request(v).synthesis]
        BY RequestTypes DEF IInv, BriefsOK, Existing, Request
      <4>2. QED
        BY <3>1, <4>1 DEF BriefOK, BriefOf
    <3>3. \/ /\ at'[v] = "replayed" /\ ResolvesExactPack(v, Existing(v).pack)
             /\ returned'[v] = Existing(v)
          \/ /\ at'[v] = "refused" /\ ~ResolvesExactPack(v, Existing(v).pack)
             /\ returned'[v] = returned[v]
      BY <1>1, <2>2, <3>2 DEF LoadExact, GoTo, TypeOK
    <3>4. returned'[v] # Nothing => returned'[v] = Existing(v)
      BY <1>1, <3>3 DEF RunOK
    <3>5. QED
      BY <2>0, <3>1, <3>3, <3>4
      DEF RunOK, Bound, Informed, Calling, ResolvesExactPack
  <2>3. CASE at[v] \notin {"idle", "historical"} /\ Steady /\ at[v] \in Working
             /\ at'[v] \in {"refused", "interrupted"}
    <3>1. ~existing[v]
      BY <1>1, <2>3 DEF RunOK, Working
    <3>2. returned'[v] # Nothing => returned'[v] = Existing(v)'
      BY <1>1, <2>3 DEF RunOK, Existing
    <3>3. QED
      BY <2>3, <3>1, <3>2 DEF RunOK, Bound, Informed, Calling
  <2>4. CASE Interrupt(v) /\ at[v] = "historical"
    <3>1. /\ at'[v] = "interrupted" /\ Existing(v)' = Existing(v)
          /\ calls' = calls /\ Steady
      BY <1>1, <2>4 DEF Interrupt, GoTo, TypeOK, Existing
    <3>2. QED
      BY <1>1, <2>0, <2>4, <3>1
      DEF RunOK, Bound, Informed, Calling, ResolvesExactPack
  <2>5. ASSUME at[v] \in Working, at[v] # "historical"
        PROVE  /\ ~existing[v]
               /\ Steady => (returned'[v] # Nothing => returned'[v] = Existing(v)')
    <3>1. ~existing[v]
      BY <1>1, <2>5 DEF RunOK, Working
    <3>2. Steady => (returned'[v] # Nothing => returned'[v] = Existing(v)')
      BY <1>1 DEF RunOK, Existing
    <3>3. QED
      BY <3>1, <3>2
  <2>6. CASE LoadHead(v) /\ at'[v] # "refused"
    <3>1. /\ at[v] = "current" /\ at'[v] = "context" /\ Steady
          /\ Request(v).revision = Current
          /\ Request(v).pack = lineage[Current].pack
          /\ Request(v).pack = ServicePack[v]
          /\ calls'[v] = 0
      BY <1>1, <2>6 DEF LoadHead, Decide, GoTo, TypeOK, RunOK
    <3>2. Current \in 1..Current
      BY <1>1 DEF TypeOK, LineageTypeOK, Current
    <3>3. QED
      BY <2>0, <2>5, <3>1, <3>2 DEF RunOK, Bound, Informed, Calling, Working
  <2>7. CASE LoadContext(v) /\ at'[v] # "refused"
    <3>1. /\ at[v] = "context" /\ at'[v] = "accept" /\ Steady
          /\ derived[Request(v).derivation] = Request(v).revision
          /\ Request(v).attention = Request(v).derivation
          /\ Request(v).derivation \notin Prebuilt
          /\ calls'[v] = 0
      BY <1>1, <2>7 DEF LoadContext, Decide, GoTo, TypeOK, RunOK
    <3>2. QED
      BY <1>1, <2>0, <2>5, <3>1 DEF RunOK, Bound, Informed, Calling, Working
  <2>8. CASE Accept(v) /\ at'[v] # "refused"
    <3>1. at[v] = "accept" /\ Steady /\ calls'[v] = 0
      BY <1>1, <2>8 DEF Accept, RunOK
    <3>2. \/ /\ at'[v] = "execute"
             /\ Reasoned(v)' = [request |-> Request(v), draft |-> Nothing]
          \/ /\ at'[v] = "assemble"
             /\ Reasoned(v)' = Reasoned(v)
             /\ Reasoned(v) # Nothing
             /\ Reasoned(v).request = Request(v)
             /\ Reasoned(v).draft # Nothing
      BY <1>1, <2>8, RequestTypes
      DEF Accept, GoTo, Reason, Reasoned, Request, TypeOK
    <3>3. QED
      BY <1>1, <2>0, <2>5, <3>1, <3>2 DEF RunOK, Bound, Informed, Calling, Working
  <2>9. CASE Execute(v) /\ at'[v] # "refused"
    <3>1. /\ at[v] = "execute" /\ at'[v] = "answer" /\ Steady
          /\ calls[v] = 0 /\ calls'[v] = calls[v] + 1
          /\ Reasoned(v)' = Reasoned(v)
          /\ Provider[v] # "forbidden"
      BY <1>1, <2>9 DEF Execute, GoTo, TypeOK, RunOK, Reasoned
    <3>2. Provider[v] \in Drafts
      BY <3>1, SynthesisAssumption
    <3>3. QED
      BY <1>1, <2>0, <2>5, <3>1, <3>2 DEF RunOK, Bound, Informed, Calling, Working
  <2>10. CASE Answer(v)
    <3>1. /\ at[v] = "answer" /\ at'[v] = "assemble" /\ Steady
          /\ Reasoned(v)' = [request |-> Request(v), draft |-> Provider[v]]
          /\ Provider[v] \in Drafts
      BY <1>1, <2>10, RequestTypes
      DEF Answer, GoTo, Reason, Reasoned, Request, TypeOK, RunOK
    <3>2. /\ Reasoned(v)' # Nothing /\ Provider[v] # Nothing
      BY <3>1, RequestTypes, SynthesisAssumption
    <3>3. QED
      BY <1>1, <2>0, <2>5, <3>1, <3>2 DEF RunOK, Bound, Informed, Calling, Working
  <2>11. CASE Assemble(v) /\ at'[v] # "refused"
    <3>1. /\ at[v] = "assemble" /\ at'[v] = "append" /\ Steady
          /\ Reasoned(v)' = Reasoned(v) /\ Reasoned(v).draft = "exact"
      BY <1>1, <2>11 DEF Assemble, Decide, GoTo, TypeOK, Reasoned
    <3>2. QED
      BY <1>1, <2>0, <2>5, <3>1 DEF RunOK, Bound, Informed, Calling, Working
  <2>12. CASE AppendBrief(v) /\ at'[v] # "refused"
    <3>1. /\ at[v] = "append" /\ at'[v] = "synthesized"
          /\ existing' = existing
          /\ briefs' = [briefs EXCEPT ![Request(v).synthesis] = BriefBy(v)]
          /\ returned' = [returned EXCEPT ![v] = BriefBy(v)]
      BY <1>1, <2>12 DEF AppendBrief, GoTo, TypeOK, BriefBy
    <3>2. returned'[v] = Existing(v)'
      BY <1>1, <3>1, RequestTypes DEF Existing, Request, TypeOK
    <3>3. QED
      BY <2>5, <3>1, <3>2 DEF RunOK, Bound, Informed, Calling, Working
  <2>13. QED
    BY <1>1, <1>3, <2>1, <2>2, <2>3, <2>4, <2>6, <2>7, <2>8, <2>9, <2>10,
       <2>11, <2>12
    DEF Step, LoadHead, LoadContext, Accept, Execute, Assemble, AppendBrief,
        Interrupt, Decide, GoTo, Working, TypeOK
<1>4. QED
  BY <1>2, <1>3

-----------------------------------------------------------------------------
(* Briefs *)

LEMMA BriefsStep ==
    ASSUME IInv, [Next]_vars
    PROVE  BriefsOK'
<1> SUFFICES ASSUME NEW k \in SynthesisKeys, briefs'[k] # Nothing
             PROVE  BriefOK(k)'
  BY DEF BriefsOK, BriefOK
<1>1. TypeOK /\ BriefOK(k) /\ Kept
  BY StepsKeep DEF IInv, BriefsOK
<1>2. CASE briefs[k] # Nothing
  <2> DEFINE r == briefs[k].request
  <2>1. briefs'[k] = briefs[k] /\ briefs[k] \in Briefs
    BY <1>1, <1>2 DEF Kept, TypeOK
  <2>2. /\ r.derivation \in Derivations /\ r.attempt \in AttemptKeys
        /\ r.revision \in 1..Current
    BY <1>1, <1>2, <2>1 DEF BriefOK, Briefs, Requests
  <2>3. /\ derived'[r.derivation] = r.revision
        /\ r.revision \in 1..Current'
        /\ lineage'[r.revision].pack = r.pack
    BY <1>1, <1>2, <2>2 DEF BriefOK, Kept
  <2>4. reasoning'[r.attempt] = reasoning[r.attempt]
    BY <1>1, <1>2, <2>2 DEF BriefOK, Kept
  <2>5. QED
    BY <1>1, <1>2, <2>1, <2>3, <2>4 DEF BriefOK, BriefOf
<1>3. CASE briefs[k] = Nothing
  <2>1. PICK w \in Runs : Step(w)
    BY <1>3 DEF Next, AdmitDerivation, vars, synthesisVars
  <2>2. /\ at[w] = "append"
        /\ installed = Request(w).revision
        /\ briefs' = [briefs EXCEPT ![Request(w).synthesis] = BriefBy(w)]
        /\ AppendBrief(w)
    BY <1>1, <1>3, <2>1, BriefWrites
  <2>3. k = Request(w).synthesis /\ briefs'[k] = BriefBy(w)
    BY <1>1, <1>3, <2>2 DEF TypeOK
  <2>4. BriefBy(w) \in Briefs
    BY <2>2, BriefByTypes
  <2>5. RunOK(w)
    BY DEF IInv, RunsOK
  <2>6. UNCHANGED <<lineage, derived, reasoning>> /\ Current' = Current
    BY <2>2 DEF AppendBrief, lineageVars, Current
  <2>7. BriefOf(k, BriefBy(w))
    BY <2>2, <2>3, <2>4, <2>5 DEF BriefOf, BriefBy, RunOK, Bound, Informed
  <2>8. /\ reasoning[Request(w).attempt] # Nothing
        /\ reasoning[Request(w).attempt].request = Request(w)
        /\ reasoning[Request(w).attempt].draft # Nothing
    BY <2>2, <2>5 DEF RunOK, Reasoned, Request
  <2>9. /\ derived[Request(w).derivation] = Request(w).revision
        /\ Request(w).revision \in 1..Current
        /\ lineage[Request(w).revision].pack = Request(w).pack
    BY <2>2, <2>5 DEF RunOK, Bound, Informed
  <2>10. QED
    BY <2>2, <2>3, <2>6, <2>7, <2>8, <2>9 DEF BriefOK, BriefOf, BriefBy
<1>4. QED
  BY <1>2, <1>3

LEMMA InvInit == Init => IInv
<1> SUFFICES ASSUME Init PROVE IInv
  OBVIOUS
<1>1. TypeOK
  BY TypeInit
<1>2. RunsOK
  BY DEF Init, RunsOK, RunOK, Bound, Informed, Calling
<1>3. AttemptsOK
  BY DEF Init, AttemptsOK, AttemptOK, Silent, Calling
<1>4. BriefsOK
  BY DEF Init, BriefsOK, BriefOK
<1>5. QED
  BY <1>1, <1>2, <1>3, <1>4 DEF IInv

THEOREM SynthesisInvariant == Spec => []IInv
<1>1. IInv /\ [Next]_vars => IInv'
  BY TypeStep, RunsStep, AttemptsStep, BriefsStep DEF IInv
<1>2. QED
  BY InvInit, <1>1, PTL DEF Spec

-----------------------------------------------------------------------------
(* The properties *)

(* Every variable has its type, whatever interleaving.                     *)
THEOREM TypeCorrect == Spec => []TypeOK
<1>1. IInv => TypeOK
  BY DEF IInv
<1>2. QED
  BY SynthesisInvariant, <1>1, PTL

(* A Brief rests for good on the derivation, the Pack and the head of its  *)
(* own activation revision.                                                *)
THEOREM BriefsRest == Spec => []BriefRestsOnItsRevision
<1>1. IInv => BriefRestsOnItsRevision
  BY DEF IInv, BriefsOK, BriefOK, BriefOf, BriefRestsOnItsRevision
<1>2. QED
  BY SynthesisInvariant, <1>1, PTL

(* A replay needs the exact Pack of the Brief and nothing else.            *)
THEOREM ReplaysSurvive == Spec => []ReplaySurvivesRollback
<1>1. IInv => ReplaySurvivesRollback
  BY DEF IInv, RunsOK, RunOK, ResolvesExactPack, ReplaySurvivesRollback
<1>2. QED
  BY SynthesisInvariant, <1>1, PTL

(* A Brief has cost one call of one provider, made for its own request.    *)
THEOREM BriefsCostOneCall == Spec => []BriefFromOneCall
<1>1. ASSUME IInv, NEW k \in SynthesisKeys, briefs[k] # Nothing
      PROVE  \E w \in Runs :
                 /\ calls[w] = 1
                 /\ Request(w) = briefs[k].request
                 /\ \A v \in Runs \ {w} :
                       Request(v).attempt = Request(w).attempt => calls[v] = 0
  <2> DEFINE r == briefs[k].request
  <2>1. /\ reasoning[r.attempt] # Nothing
        /\ reasoning[r.attempt].request = r
        /\ reasoning[r.attempt].draft # Nothing
        /\ r \in Requests
    BY <1>1 DEF IInv, BriefsOK, BriefOK, BriefOf, Briefs
  <2>2. r.attempt \in AttemptKeys
    BY <2>1 DEF Requests
  <2>3. PICK w \in Runs : Owns(w, r.attempt)
    BY <1>1, <2>1, <2>2 DEF IInv, AttemptsOK, AttemptOK
  <2>4. QED
    BY <2>1, <2>3 DEF Owns, Silent
<1>2. IInv => BriefFromOneCall
  BY <1>1 DEF BriefFromOneCall, IInv, RunsOK, RunOK
<1>3. QED
  BY SynthesisInvariant, <1>2, PTL

(* Brief synthesis implements the append-only ledger.                      *)
THEOREM BriefsAreALedger == Spec => LedgerSpec
<1>1. Init => Ledger!Init
  BY DEF Init, Ledger!Init
<1>2. ASSUME IInv, [Next]_vars, briefs' # briefs
      PROVE  Ledger!Next
  <2>1. PICK w \in Runs : Step(w)
    BY <1>2 DEF Next, AdmitDerivation, vars, synthesisVars
  <2>2. /\ Request(w).synthesis \in SynthesisKeys
        /\ briefs[Request(w).synthesis] = Nothing
        /\ briefs' = [briefs EXCEPT ![Request(w).synthesis] = BriefBy(w)]
        /\ BriefBy(w) \in Briefs
    BY <1>2, <2>1, BriefWrites, BriefByTypes, RequestTypes
    DEF IInv, Existing, Request
  <2>3. briefs'[Request(w).synthesis] = BriefBy(w) /\ BriefBy(w) # Nothing
    BY <1>2, <2>2, SynthesisAssumption DEF IInv, TypeOK, Briefs
  <2>4. BriefOf(Request(w).synthesis, BriefBy(w))
    BY <1>2, <2>2, <2>3, BriefsStep DEF BriefsOK, BriefOK, BriefOf
  <2>5. Ledger!Admit(Request(w).synthesis)
    BY <2>2, <2>3, <2>4 DEF Ledger!Admit
  <2>6. QED
    BY <2>2, <2>5 DEF Ledger!Next
<1>3. IInv /\ [Next]_vars => [Ledger!Next]_briefs
  BY <1>2
<1>4. QED
  BY <1>1, <1>3, SynthesisInvariant, PTL DEF Spec, LedgerSpec, Ledger!Spec

-----------------------------------------------------------------------------
(* Attempts that nobody will answer *)

(* An attempt was accepted, has no result, and no run is on its way to one.*)
Abandoned(t) ==
    /\ reasoning[t] # Nothing
    /\ reasoning[t].draft = Nothing
    /\ \A w \in Runs : Request(w).attempt = t => at[w] \notin Calling

(* Only the run that accepts an attempt ever gets to call for it.          *)
LEMMA CallingBegins ==
    ASSUME IInv, NEW w \in Runs, Step(w)
    PROVE  /\ at'[w] \in Calling => at[w] \in Calling \/ Reasoned(w) = Nothing
           /\ \A v \in Runs \ {w} : at'[v] = at[v]
<1>1. at \in [Runs -> {"idle"} \cup Working \cup Ended]
  BY DEF IInv, TypeOK
<1>2. QED
  BY <1>1 DEF Step, Synthesize, LoadExact, LoadHead, LoadContext, Accept,
     Execute, Answer, Assemble, AppendBrief, Interrupt, Decide, GoTo, Calling

LEMMA AbandonedStays ==
    ASSUME IInv, [Next]_vars, NEW t \in AttemptKeys, Abandoned(t)
    PROVE  Abandoned(t)' /\ reasoning'[t] = reasoning[t]
<1>1. ASSUME NEW v \in Runs, Step(v)
      PROVE  Abandoned(t)' /\ reasoning'[t] = reasoning[t]
  <2>1. Request(v).attempt = t => Reasoned(v) # Nothing /\ at[v] \notin Calling
    BY DEF Abandoned, Reasoned, Request
  <2>2. reasoning'[t] = reasoning[t]
    <3>1. CASE reasoning' = reasoning
      BY <3>1
    <3>2. CASE reasoning' # reasoning
      <4>1. Request(v).attempt # t
        BY <1>1, <2>1, <3>2, ReasoningWrites DEF Answer, Calling
      <4>2. reasoning \in [AttemptKeys -> Attempts \cup {Nothing}]
        BY DEF IInv, TypeOK
      <4>3. QED
        BY <1>1, <3>2, <4>1, <4>2, ReasoningWrites
    <3>3. QED
      BY <3>1, <3>2
  <2>3. ASSUME NEW w \in Runs, Request(w).attempt = t PROVE at'[w] \notin Calling
    <3>1. CASE w = v
      BY <1>1, <2>1, <2>3, <3>1, CallingBegins
    <3>2. CASE w # v
      BY <1>1, <2>3, <3>2, CallingBegins DEF Abandoned
    <3>3. QED
      BY <3>1, <3>2
  <2>4. QED
    BY <2>2, <2>3 DEF Abandoned, Request
<1>2. ASSUME UNCHANGED <<at, reasoning>>
      PROVE  Abandoned(t)' /\ reasoning'[t] = reasoning[t]
  BY <1>2 DEF Abandoned, Request
<1>3. QED
  BY <1>1, <1>2 DEF Next, AdmitDerivation, synthesisVars, vars

(* An attempt whose run dies between its acceptance and the provider's     *)
(* answer stays without a result for good, whichever run comes back to its *)
(* key: a retry has to name another attempt.                               *)
THEOREM AbandonedIsFinal ==
    Spec => [][\A t \in AttemptKeys :
                  Abandoned(t) => Abandoned(t)' /\ reasoning'[t] = reasoning[t]]_vars
<1>1. IInv /\ [Next]_vars
         => [\A t \in AttemptKeys :
                Abandoned(t) => Abandoned(t)' /\ reasoning'[t] = reasoning[t]]_vars
  BY AbandonedStays
<1>2. QED
  BY <1>1, SynthesisInvariant, PTL DEF Spec

(* And no Brief rests on such an attempt: what an append would be made of  *)
(* has always been answered.                                               *)
THEOREM NoBriefFromAbandoned ==
    Spec => [](\A k \in SynthesisKeys :
                  briefs[k] # Nothing => ~Abandoned(briefs[k].request.attempt))
<1>1. IInv => \A k \in SynthesisKeys :
                 briefs[k] # Nothing => ~Abandoned(briefs[k].request.attempt)
  BY DEF IInv, BriefsOK, BriefOK, Abandoned
<1>2. QED
  BY <1>1, SynthesisInvariant, PTL

-----------------------------------------------------------------------------
(* Rollbacks *)

(* A revision that restores an older one of a lineage, as its n-th.        *)
Restores(revisions, revision, n) ==
    revision.restores # 0 =>
        /\ revision.restores + 1 < n
        /\ revision.pack = revisions[revision.restores].pack

RestoresOK ==
    /\ \A n \in 1..Current : Restores(lineage, lineage[n], n)
    /\ \A a \in Administrators :
          /\ proposal[a].prior <= Current
          /\ Restores(lineage, proposal[a].revision, proposal[a].prior + 1)

(* What is restored stays what it is while the lineage grows.              *)
LEMMA RestoresStays ==
    ASSUME LineageTypeOK, LineageNext, NEW revision \in Revisions, NEW n \in Nat,
           n <= Current + 1, Restores(lineage, revision, n)
    PROVE  Restores(lineage', revision, n)
<1>1. CASE revision.restores = 0
  BY <1>1 DEF Restores
<1>2. CASE revision.restores # 0
  <2>1. /\ Current \in Nat
        /\ \A m \in 1..Current : lineage'[m] = lineage[m]
    BY LineageKept
  <2>2. revision.restores \in 1..Current
    BY <1>2, <2>1 DEF Restores, Revisions
  <2>3. QED BY <1>2, <2>1, <2>2 DEF Restores
<1>3. QED BY <1>1, <1>2

LEMMA RestoresNext == TypeOK /\ RestoresOK /\ [Next]_vars => RestoresOK'
<1> SUFFICES ASSUME TypeOK, RestoresOK, [Next]_vars PROVE RestoresOK'
  OBVIOUS
<1>1. /\ LineageTypeOK
      /\ lineage \in Seq(Revisions)
      /\ Current \in Nat
      /\ \A n \in 1..Current : lineage[n] \in Revisions
      /\ proposal \in [Administrators -> Proposals]
      /\ \A a \in Administrators : /\ proposal[a].prior \in Nat
                                   /\ proposal[a].revision \in Revisions
  BY DEF TypeOK, LineageTypeOK, Proposals, Current
<1>2. CASE UNCHANGED <<lineage, proposal>>
  BY <1>2 DEF RestoresOK, Restores, Current
<1>3. CASE LineageNext
  <2>1. /\ Current' \in Nat /\ Current' >= Current
        /\ \A n \in 1..Current : lineage'[n] = lineage[n]
    BY <1>1, <1>3, LineageKept
  <2>2. \A n \in 1..Current : Restores(lineage', lineage'[n], n)
    BY <1>1, <1>3, <2>1, RestoresStays DEF RestoresOK
  <2>3. \A a \in Administrators :
          /\ proposal[a].prior <= Current'
          /\ Restores(lineage', proposal[a].revision, proposal[a].prior + 1)
    BY <1>1, <1>3, <2>1, RestoresStays DEF RestoresOK
  <2>4. NoProposal.prior = 0 /\ NoProposal.revision.restores = 0
    BY DEF NoProposal, First
  <2>5. ASSUME NEW a \in Administrators, NEW revision \in Revisions,
               PrepareActivationRevision(a, revision), Restores(lineage, revision, Current + 1)
        PROVE  RestoresOK'
    <3>1. /\ lineage' = lineage /\ Current' = Current
          /\ proposal' = [proposal EXCEPT ![a] = [prior |-> Current, revision |-> revision]]
      BY <2>5 DEF PrepareActivationRevision, Current
    <3>2. Restores(lineage', revision, Current + 1)
      BY <1>1, <1>3, <2>5, RestoresStays
    <3>3. ASSUME NEW b \in Administrators
          PROVE  /\ proposal'[b].prior <= Current'
                 /\ Restores(lineage', proposal'[b].revision, proposal'[b].prior + 1)
      BY <1>1, <2>3, <3>1, <3>2
    <3>4. QED BY <2>2, <3>1, <3>3 DEF RestoresOK
  <2>6. ASSUME NEW a \in Administrators, Upgrade(a) PROVE RestoresOK'
    BY <2>5, <2>6 DEF Upgrade, Restores, Revisions
  <2>7. ASSUME NEW a \in Administrators, Rollback(a) PROVE RestoresOK'
    <3>1. PICK n \in 1..Current - 1 :
            PrepareActivationRevision(a, [pack |-> lineage[n].pack, restores |-> n])
      BY <2>7 DEF Rollback
    <3>2. /\ [pack |-> lineage[n].pack, restores |-> n] \in Revisions
          /\ Restores(lineage, [pack |-> lineage[n].pack, restores |-> n], Current + 1)
      BY <1>1, <3>1 DEF Restores, Revisions
    <3>3. QED BY <2>5, <3>1, <3>2
  <2>8. ASSUME NEW a \in Administrators, Commit(a) PROVE RestoresOK'
    <3>1. ASSUME NEW b \in Administrators
          PROVE  /\ proposal'[b].prior <= Current'
                 /\ Restores(lineage', proposal'[b].revision, proposal'[b].prior + 1)
      <4>1. proposal' = [proposal EXCEPT ![a] = NoProposal]
        BY <2>8 DEF Commit
      <4>2. proposal'[b] = NoProposal \/ proposal'[b] = proposal[b]
        BY <1>1, <4>1
      <4>3. QED BY <2>1, <2>3, <2>4, <4>2 DEF Restores
    <3>2. ASSUME NEW n \in 1..Current' PROVE Restores(lineage', lineage'[n], n)
      <4>1. CASE n \in 1..Current
        BY <2>2, <4>1
      <4>2. CASE n \notin 1..Current
        <5>1. /\ Current = proposal[a].prior
              /\ lineage' = Append(lineage, proposal[a].revision)
          BY <2>8, <4>2 DEF Commit, Current
        <5>2. n = Current + 1 /\ lineage'[n] = proposal[a].revision
          BY <1>1, <4>2, <5>1 DEF Current
        <5>3. QED BY <2>3, <5>1, <5>2
      <4>3. QED BY <4>1, <4>2
    <3>3. QED BY <3>1, <3>2 DEF RestoresOK
  <2>9. QED BY <1>2, <1>3, <2>6, <2>7, <2>8 DEF LineageNext, SetGovernedStateHead
<1>4. QED
  BY <1>2, <1>3, RunTypes DEF Next, AdmitDerivation, lineageVars, vars

(* A rollback restores exactly the revision it names, one that is older    *)
(* than the revision it replaces, although others may commit between its   *)
(* preparation and its commit: the acceptance asserts it of one lineage    *)
(* ("rollback did not restore exact revision-1 spec", line 1262).          *)
THEOREM RollbacksRestore ==
    Spec => [](\A n \in 1..Current : Restores(lineage, lineage[n], n))
<1>1. Init => RestoresOK
  <2> SUFFICES ASSUME Init PROVE RestoresOK
    OBVIOUS
  <2>1. /\ Current = 1
        /\ lineage[1].restores = 0
        /\ \A a \in Administrators : /\ proposal[a].prior = 0
                                     /\ proposal[a].revision.restores = 0
    BY DEF Init, LineageInit, Current, First, NoProposal
  <2>2. QED BY <2>1 DEF RestoresOK, Restores
<1>2. RestoresOK => \A n \in 1..Current : Restores(lineage, lineage[n], n)
  BY DEF RestoresOK
<1>3. QED
  BY <1>1, <1>2, RestoresNext, TypeCorrect, PTL DEF Spec

=============================================================================
