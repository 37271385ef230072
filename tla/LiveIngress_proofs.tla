-------------------------- MODULE LiveIngress_proofs --------------------------
(***************************************************************************)
(* Proofs about LiveIngress, for any runs, requests, operators and bounds. *)
(*                                                                         *)
(* The heads only grow.  A run notes a head before its capture (heads),    *)
(* the capture happens under some later head (under), and a confirmation   *)
(* compares the noted head with one later still.  If the two ends agree,   *)
(* so does what lies between them: that is the inductive invariant RunOK,  *)
(* and from it follows what an append may rely on.                         *)
(***************************************************************************)
EXTENDS LiveIngress, TLAPS

Captured == {"captured", "recheck", "append"}

(* A request that every resolver asked has found in its exact scope.       *)
Scoped(w) == Governed # {"activation"} => RequestOf[w] \in InScope

(* What holds of a run, wherever it is. *)
RunOK(w) ==
    /\ draft[w].request = RequestOf[w]
    /\ \A g \in Governed : draft[w].heads[g] <= head[g]
    /\ pc[w] \in Captured =>
         /\ \A g \in Governed : /\ draft[w].heads[g] <= draft[w].under[g]
                                /\ draft[w].under[g] <= head[g]
         /\ draft[w].started <= draft[w].observed
         /\ draft[w].observed <= draft[w].captured
         /\ draft[w].captured <= now
    /\ pc[w] \in {"recheck", "append"} => draft[w].captured < Expiry
    /\ pc[w] \notin {"recheck", "append"} => confirmed[w] = {}
    /\ \A g \in confirmed[w] : draft[w].under[g] = draft[w].heads[g]
    /\ pc[w] = "append" => confirmed[w] = Governed
    /\ pc[w] \in {"retrieve"} \cup Captured => calls[w] = 1
    /\ pc[w] \in {"idle", "resolve"} => calls[w] = 0
    /\ \A g \in Governed \ {"activation"} :
         draft[w].heads[g] # 0 => RequestOf[w] \in InScope
    /\ pc[w] \in {"retrieve"} \cup Captured => RequestOf[w] \in Adaptable /\ Scoped(w)
    /\ pc[w] = "append" => draft[w].faithful

(* What holds of the record store and of those who were answered from it.  *)
StoreOK ==
    /\ \A k \in Keys : ledger[k] # Nothing =>
         /\ KeyOf[ledger[k].request] = k
         /\ ledger[k].under = ledger[k].heads
         /\ ledger[k].started <= ledger[k].observed
         /\ ledger[k].observed <= ledger[k].captured
         /\ ledger[k].captured < Expiry
    /\ \A w \in Workers : returned[w] # Nothing =>
         /\ pc[w] \in {"admitted", "replayed"}
         /\ returned[w] = ledger[Key(w)]
         /\ returned[w].request = RequestOf[w]
         /\ calls[w] = (IF pc[w] = "admitted" THEN 1 ELSE 0)

RunsOK == \A w \in Workers : RunOK(w)

(* What holds of the activation's history. *)
HistoryOK ==
    /\ HistoryIsLinear
    /\ \A r \in revisions : r.sequence <= head["activation"]

-----------------------------------------------------------------------------
(* Type correctness *)

LEMMA DraftFacts ==
    ASSUME NEW d \in Drafts
    PROVE  /\ \A n \in Nat : [d EXCEPT !.started = n] \in Drafts
           /\ \A n \in Nat : [d EXCEPT !.rechecked = n] \in Drafts
           /\ \A g \in Governed, n \in Nat : [d EXCEPT !.heads[g] = n] \in Drafts
           /\ \A u \in [Governed -> Nat], n, m \in Nat, b \in BOOLEAN :
                [d EXCEPT !.under = u, !.observed = n, !.captured = m,
                          !.faithful = b] \in Drafts
  BY DEF Drafts

LEMMA StartIsDraft == \A r \in Requests : Start(r) \in Drafts
  BY DEF Start, Drafts, Unresolved

LEMMA NothingIsNoDraft == Nothing \notin Drafts
  BY IngressAssumption DEF Drafts

LEMMA TypeInit == Init => TypeOK
<1> SUFFICES ASSUME Init PROVE TypeOK
  OBVIOUS
<1>1. GovernedTypeOK
  <2> USE DEF Init, GovernedInit
  <2>1. /\ head \in [Governed -> Nat \ {0}]
        /\ installed \in [Governed -> Nat \ {0}]
    OBVIOUS
  <2>2. revisions \subseteq Revisions
    BY DEF Revisions
  <2>3. revoked \in BOOLEAN /\ prior \in [Operators -> Nat]
    OBVIOUS
  <2>4. QED
    BY <2>1, <2>2, <2>3 DEF GovernedTypeOK
<1>2. draft \in [Workers -> Drafts]
  BY StartIsDraft, IngressAssumption DEF Init
<1>3. QED
  BY <1>1, <1>2 DEF Init, TypeOK, Working, Ended

(* Whatever a run's step does to its control and its draft, it fills the   *)
(* draft with a draft.                                                     *)
LEMMA TypeControl ==
    ASSUME TypeOK, NEW w \in Workers
    PROVE  /\ \A step \in {"idle"} \cup Working \cup Ended, d \in Drafts :
                Keep(w, step, d) =>
                  /\ pc' \in [Workers -> {"idle"} \cup Working \cup Ended]
                  /\ draft' \in [Workers -> Drafts]
                  /\ confirmed' \in [Workers -> SUBSET Governed]
           /\ \A step \in Ended :
                End(w, step) =>
                  /\ pc' \in [Workers -> {"idle"} \cup Working \cup Ended]
                  /\ draft' \in [Workers -> Drafts]
                  /\ confirmed' \in [Workers -> SUBSET Governed]
<1>1. RequestOf[w] \in Requests
  BY IngressAssumption
<1>2. QED
  BY <1>1, StartIsDraft DEF TypeOK, Keep, End, GoTo, Fill

LEMMA TypeGoverned ==
    ASSUME TypeOK, GovernedNext, UNCHANGED ingressVars
    PROVE  TypeOK'
<1>1. ASSUME NEW o \in Operators, PrepareRevision(o) PROVE GovernedTypeOK'
  BY <1>1, GovernedAssumption DEF PrepareRevision, TypeOK, GovernedTypeOK
<1>2. ASSUME NEW o \in Operators, Commit(o) PROVE GovernedTypeOK'
  BY <1>2, GovernedAssumption DEF Commit, TypeOK, GovernedTypeOK, Revisions
<1>3. ASSUME NEW g \in Governed, AdvanceHead(g) PROVE GovernedTypeOK'
  BY <1>3 DEF AdvanceHead, TypeOK, GovernedTypeOK
<1>4. ASSUME InstallCurrentHeads \/ \E g \in Governed : InstallHead(g)
      PROVE  GovernedTypeOK'
  BY <1>4 DEF InstallCurrentHeads, InstallHead, TypeOK, GovernedTypeOK
<1>5. ASSUME RevokeGrant PROVE GovernedTypeOK'
  BY <1>5 DEF RevokeGrant, TypeOK, GovernedTypeOK
<1>6. GovernedTypeOK'
  BY <1>1, <1>2, <1>3, <1>4, <1>5 DEF GovernedNext
<1>7. QED
  BY <1>6 DEF TypeOK, ingressVars

(* What the answer of a resolver about g does to a run. *)
Noted(w, g) ==
    /\ pc[w] = "resolve"
    /\ g # "activation" => RequestOf[w] \in InScope
    /\ Keep(w, "resolve", [draft[w] EXCEPT !.heads[g] = head[g]])

Confirmed(w, g) ==
    /\ pc[w] = "recheck"
    /\ draft[w].heads[g] = head[g]
    /\ confirmed' = [confirmed EXCEPT ![w] = @ \cup {g}]
    /\ UNCHANGED <<pc, draft>>

Refused(w) == pc[w] \in {"resolve", "recheck"} /\ End(w, "failed")

Answered(w, g) ==
    /\ Noted(w, g) \/ Confirmed(w, g) \/ Refused(w)
    /\ UNCHANGED <<governedVars, now, calls, ledger, returned>>

LEMMA ResolversAnswer ==
    ASSUME NEW w \in Workers,
           \/ LoadHead(w)
           \/ ResolveSourceDefinition(w)
           \/ ResolveCapabilityUse(w)
           \/ ResolveAuthorityUse(w)
    PROVE  \E g \in Governed : Answered(w, g)
<1> USE DEF Take, Answered, Noted, Confirmed, Refused
<1>1. CASE LoadHead(w)
  BY <1>1, GovernedAssumption DEF LoadHead
<1>2. CASE ResolveSourceDefinition(w)
  <2>1. Answered(w, "source_definition")
    BY <1>2 DEF ResolveSourceDefinition
  <2>2. QED
    BY <1>2, <2>1 DEF ResolveSourceDefinition
<1>3. CASE ResolveCapabilityUse(w)
  <2>1. Answered(w, "capability")
    BY <1>3 DEF ResolveCapabilityUse
  <2>2. QED
    BY <1>3, <2>1 DEF ResolveCapabilityUse
<1>4. CASE ResolveAuthorityUse(w)
  <2>1. Answered(w, "grant")
    BY <1>4 DEF ResolveAuthorityUse
  <2>2. QED
    BY <1>4, <2>1 DEF ResolveAuthorityUse
<1>5. QED
  BY <1>1, <1>2, <1>3, <1>4

LEMMA TypeAnswered ==
    ASSUME TypeOK, NEW w \in Workers, NEW g \in Governed, Answered(w, g)
    PROVE  TypeOK'
<1>1. /\ GovernedTypeOK'
      /\ ledger' \in [Keys -> Drafts \cup {Nothing}]
      /\ returned' \in [Workers -> Drafts \cup {Nothing}]
      /\ now' \in Nat
      /\ calls' \in [Workers -> Nat]
  BY DEF Answered, TypeOK, GovernedTypeOK, governedVars
<1>2. /\ pc' \in [Workers -> {"idle"} \cup Working \cup Ended]
      /\ draft' \in [Workers -> Drafts]
      /\ confirmed' \in [Workers -> SUBSET Governed]
  <2>1. draft[w] \in Drafts /\ head[g] \in Nat
    BY DEF TypeOK, GovernedTypeOK
  <2>2. [draft[w] EXCEPT !.heads[g] = head[g]] \in Drafts
    BY <2>1, DraftFacts
  <2>3. CASE Noted(w, g)
    BY <2>2, <2>3, TypeControl DEF Noted, Working
  <2>4. CASE Refused(w)
    BY <2>4, TypeControl DEF Refused, Ended
  <2>5. CASE Confirmed(w, g)
    BY <2>5 DEF Confirmed, TypeOK
  <2>6. QED
    BY <2>3, <2>4, <2>5 DEF Answered
<1>3. QED
  BY <1>1, <1>2 DEF TypeOK

LEMMA StepKeepsHeads ==
    ASSUME NEW w \in Workers, Step(w)
    PROVE  UNCHANGED <<governedVars, now>>
  BY ResolversAnswer
  DEF Step, Answered, Lookup, Capture, Retrieve, BeginRecheck, MapMaterial,
      Append, Interrupt

LEMMA TypeStep ==
    ASSUME TypeOK, NEW w \in Workers, Step(w)
    PROVE  TypeOK'
<1> DEFINE Rest == /\ GovernedTypeOK'
                   /\ now' \in Nat
                   /\ calls' \in [Workers -> Nat]
                   /\ ledger' \in [Keys -> Drafts \cup {Nothing}]
                   /\ returned' \in [Workers -> Drafts \cup {Nothing}]
           Run == /\ pc' \in [Workers -> {"idle"} \cup Working \cup Ended]
                  /\ draft' \in [Workers -> Drafts]
                  /\ confirmed' \in [Workers -> SUBSET Governed]
<1>1. draft[w] \in Drafts /\ now \in Nat /\ Key(w) \in Keys
  BY IngressAssumption DEF TypeOK, Key
<1>2. CASE Lookup(w)
  <2>1. [draft[w] EXCEPT !.started = now] \in Drafts
    BY <1>1, DraftFacts
  <2>2. Run
    BY <1>2, <2>1, TypeControl DEF Lookup, Working, Ended
  <2>3. Rest
    BY <1>1, <1>2 DEF Lookup, TypeOK, GovernedTypeOK, governedVars
  <2>4. QED
    BY <2>2, <2>3 DEF TypeOK
<1>3. CASE \/ LoadHead(w)
           \/ ResolveSourceDefinition(w)
           \/ ResolveCapabilityUse(w)
           \/ ResolveAuthorityUse(w)
  BY <1>3, ResolversAnswer, TypeAnswered
<1>4. CASE Capture(w)
  <2>1. Run
    BY <1>1, <1>4, TypeControl DEF Capture, Working, Ended
  <2>2. Rest
    BY <1>4 DEF Capture, TypeOK, GovernedTypeOK, governedVars
  <2>3. QED
    BY <2>1, <2>2 DEF TypeOK
<1>5. CASE Retrieve(w)
  <2>1. PICK exact \in BOOLEAN, observed, captured \in 0..now, body \in Bodies :
          \/ Keep(w, "captured", [draft[w] EXCEPT
                                    !.under = head,
                                    !.observed = observed,
                                    !.captured = captured,
                                    !.faithful = (body = "canonical")])
          \/ End(w, "failed")
    BY <1>5 DEF Retrieve
  <2>2. head \in [Governed -> Nat] /\ observed \in Nat /\ captured \in Nat
    BY <1>1 DEF TypeOK, GovernedTypeOK
  <2>3. [draft[w] EXCEPT !.under = head,
                         !.observed = observed,
                         !.captured = captured,
                         !.faithful = (body = "canonical")] \in Drafts
    BY <1>1, <2>2 DEF Drafts
  <2>4. Run
    BY <2>1, <2>3, TypeControl DEF Working, Ended
  <2>5. Rest
    BY <1>5 DEF Retrieve, TypeOK, GovernedTypeOK, governedVars
  <2>6. QED
    BY <2>4, <2>5 DEF TypeOK
<1>6. CASE BeginRecheck(w)
  <2>1. [draft[w] EXCEPT !.rechecked = now] \in Drafts
    BY <1>1, DraftFacts
  <2>2. Run
    BY <1>6, <2>1, TypeControl DEF BeginRecheck, Working, Ended
  <2>3. Rest
    BY <1>6 DEF BeginRecheck, TypeOK, GovernedTypeOK, governedVars
  <2>4. QED
    BY <2>2, <2>3 DEF TypeOK
<1>7. CASE MapMaterial(w)
  <2>1. Run
    BY <1>1, <1>7, TypeControl DEF MapMaterial, Working, Ended
  <2>2. Rest
    BY <1>7 DEF MapMaterial, TypeOK, GovernedTypeOK, governedVars
  <2>3. QED
    BY <2>1, <2>2 DEF TypeOK
<1>8. CASE Append(w)
  <2>1. Run
    BY <1>8, TypeControl DEF Append, Admitted, Ended
  <2>2. Rest
    BY <1>1, <1>8 DEF Append, Admitted, TypeOK, GovernedTypeOK, governedVars
  <2>3. QED
    BY <2>1, <2>2 DEF TypeOK
<1>9. CASE Interrupt(w)
  <2>1. Run
    BY <1>9, TypeControl DEF Interrupt, Ended
  <2>2. Rest
    BY <1>9 DEF Interrupt, TypeOK, GovernedTypeOK, governedVars
  <2>3. QED
    BY <2>1, <2>2 DEF TypeOK
<1>10. QED
  BY <1>2, <1>3, <1>4, <1>5, <1>6, <1>7, <1>8, <1>9 DEF Step

LEMMA TypeNext == TypeOK /\ [Next]_vars => TypeOK'
<1> SUFFICES ASSUME TypeOK, [Next]_vars PROVE TypeOK'
  OBVIOUS
<1>1. CASE \E w \in Workers : Step(w)
  BY <1>1, TypeStep
<1>2. CASE GovernedNext /\ UNCHANGED ingressVars
  BY <1>2, TypeGoverned
<1>3. CASE Tick
  BY <1>3 DEF Tick, TypeOK, GovernedTypeOK, governedVars
<1>4. CASE UNCHANGED vars
  BY <1>4 DEF vars, governedVars, ingressVars, TypeOK, GovernedTypeOK
<1>5. QED
  BY <1>1, <1>2, <1>3, <1>4 DEF Next

(* Every variable keeps its type, in every run of the program: in          *)
(* particular a key holds no admission or a whole one.                     *)
THEOREM TypeCorrect == Spec => []TypeOK
<1>1. Init => TypeOK
  BY TypeInit
<1>2. TypeOK /\ [Next]_vars => TypeOK'
  BY TypeNext
<1>3. QED
  BY <1>1, <1>2, PTL DEF Spec

-----------------------------------------------------------------------------
(* The history of the activation *)

LEMMA HistoryInit == Init => HistoryOK
<1> SUFFICES ASSUME Init PROVE HistoryOK
  OBVIOUS
<1>1. /\ revisions = {[sequence |-> 1, author |-> Founder]}
      /\ head["activation"] = 1
  BY GovernedAssumption DEF Init, GovernedInit
<1>2. QED
  BY <1>1 DEF HistoryOK, HistoryIsLinear

LEMMA HistoryCommit ==
    ASSUME TypeOK, HistoryOK, NEW o \in Operators, Commit(o)
    PROVE  HistoryOK'
<1> DEFINE h == head["activation"]
           new == [sequence |-> h + 1, author |-> o]
<1>1. CASE UNCHANGED <<head, revisions>>
  BY <1>1 DEF HistoryOK, HistoryIsLinear
<1>2. CASE head["activation"] = prior[o]
  <2>1. /\ h \in Nat
        /\ head'["activation"] = h + 1
        /\ revisions' = revisions \cup {new}
    BY <1>2, GovernedAssumption DEF Commit, TypeOK, GovernedTypeOK
  <2>2. \A r \in revisions : r.sequence \in Nat /\ r.sequence <= h
    BY DEF TypeOK, GovernedTypeOK, Revisions, HistoryOK
  <2>3. \A r \in revisions' : r.sequence <= head'["activation"]
    BY <2>1, <2>2
  <2>4. \A r, s \in revisions' : r.sequence = s.sequence => r = s
    BY <2>1, <2>2 DEF HistoryOK, HistoryIsLinear
  <2>5. ASSUME NEW n \in 1..head'["activation"]
        PROVE  \E r \in revisions' : r.sequence = n
    <3>1. CASE n = h + 1
      <4>1. new.sequence = n
        BY <3>1
      <4>2. new \in revisions'
        BY <2>1
      <4> HIDE DEF new
      <4>3. QED
        BY <4>1, <4>2
    <3>2. CASE n # h + 1
      <4>1. n \in 1..h
        BY <2>1, <3>2
      <4>2. QED
        BY <2>1, <4>1 DEF HistoryOK, HistoryIsLinear
    <3>3. QED
      BY <3>1, <3>2
  <2>6. QED
    BY <2>3, <2>4, <2>5 DEF HistoryOK, HistoryIsLinear
<1>3. QED
  BY <1>1, <1>2 DEF Commit

LEMMA HistoryNext == TypeOK /\ HistoryOK /\ [Next]_vars => HistoryOK'
<1> SUFFICES ASSUME TypeOK, HistoryOK, [Next]_vars PROVE HistoryOK'
  OBVIOUS
<1>1. ASSUME UNCHANGED <<head, revisions>> PROVE HistoryOK'
  BY <1>1 DEF HistoryOK, HistoryIsLinear
<1>2. ASSUME NEW g \in Governed, AdvanceHead(g) PROVE HistoryOK'
  <2>1. /\ UNCHANGED revisions
        /\ head'["activation"] = head["activation"]
    BY <1>2, GovernedAssumption DEF AdvanceHead, TypeOK, GovernedTypeOK
  <2>2. QED
    BY <2>1 DEF HistoryOK, HistoryIsLinear
<1>3. CASE GovernedNext
  BY <1>1, <1>2, <1>3, HistoryCommit
  DEF GovernedNext, PrepareRevision, InstallHead, InstallCurrentHeads, RevokeGrant
<1>4. CASE \E w \in Workers : Step(w)
  <2>1. PICK w \in Workers : Step(w)
    BY <1>4
  <2>2. UNCHANGED governedVars
    BY <2>1, StepKeepsHeads
  <2>3. QED
    BY <1>1, <2>2 DEF governedVars
<1>5. CASE Tick \/ UNCHANGED vars
  BY <1>1, <1>5 DEF Tick, vars, governedVars
<1>6. QED
  BY <1>3, <1>4, <1>5 DEF Next

(* The compare-and-swap commit keeps the activation's history linear for   *)
(* any number of operators who prepare and commit at the same time.        *)
THEOREM LinearHistory == Spec => []HistoryIsLinear
<1>1. Init => HistoryOK
  BY HistoryInit
<1>2. TypeOK /\ HistoryOK /\ [Next]_vars => HistoryOK'
  BY HistoryNext
<1>3. HistoryOK => HistoryIsLinear
  BY DEF HistoryOK
<1>4. QED
  BY <1>1, <1>2, <1>3, TypeCorrect, PTL DEF Spec

-----------------------------------------------------------------------------
(* The runs *)

LEMMA RunsInit == TypeOK /\ Init => RunsOK
<1> SUFFICES ASSUME TypeOK, Init, NEW w \in Workers PROVE RunOK(w)
  BY DEF RunsOK
<1>1. /\ pc[w] = "idle" /\ confirmed[w] = {} /\ calls[w] = 0
      /\ draft[w] = Start(RequestOf[w])
  BY DEF Init
<1>2. \A g \in Governed : draft[w].heads[g] <= head[g]
  <2>1. draft[w].heads = [g \in Governed |-> 0]
    BY <1>1 DEF Start, Unresolved
  <2>2. head = [g \in Governed |-> 1]
    BY DEF Init, GovernedInit
  <2>3. \A g \in Governed : draft[w].heads[g] = 0 /\ head[g] = 1
    BY <2>1, <2>2, Zenon
  <2>4. 0 <= 1
    OBVIOUS
  <2>5. QED
    BY <2>3, <2>4
<1>3. draft[w].request = RequestOf[w]
  BY <1>1 DEF Start
<1>4. \A g \in Governed \ {"activation"} :
        draft[w].heads[g] # 0 => RequestOf[w] \in InScope
  BY <1>1 DEF Start, Unresolved
<1>5. /\ pc[w] \notin {"retrieve", "append", "recheck"} \cup Captured
      /\ pc[w] \in {"idle", "resolve"}
  BY <1>1 DEF Captured
<1>6. QED
  BY <1>1, <1>2, <1>3, <1>4, <1>5 DEF RunOK, Captured

LEMMA HeadsGrow ==
    ASSUME TypeOK, GovernedNext
    PROVE  \A g \in Governed : head[g] <= head'[g]
<1> USE GovernedAssumption DEF TypeOK, GovernedTypeOK
<1>1. ASSUME NEW o \in Operators, Commit(o)
      PROVE  \A g \in Governed : head[g] <= head'[g]
  <2>1. CASE UNCHANGED head
    BY <2>1
  <2>2. CASE /\ head["activation"] = prior[o]
             /\ head' = [head EXCEPT !["activation"] = prior[o] + 1]
    BY <2>2
  <2>3. QED
    BY <1>1, <2>1, <2>2 DEF Commit
<1>2. ASSUME NEW g \in Governed, AdvanceHead(g)
      PROVE  \A k \in Governed : head[k] <= head'[k]
  BY <1>2 DEF AdvanceHead
<1>3. CASE UNCHANGED head
  BY <1>3
<1>4. QED
  BY <1>1, <1>2, <1>3
  DEF GovernedNext, PrepareRevision, InstallHead, InstallCurrentHeads, RevokeGrant

(* What somebody else does to the heads and the clock does not disturb a   *)
(* run.                                                                    *)
LEMMA RunFrame ==
    ASSUME TypeOK, NEW v \in Workers, RunOK(v),
           pc'[v] = pc[v], draft'[v] = draft[v],
           confirmed'[v] = confirmed[v], calls'[v] = calls[v],
           now' \in Nat, now <= now', head' \in [Governed -> Nat],
           \A g \in Governed : head[g] <= head'[g]
    PROVE  RunOK(v)'
<1>1. /\ draft[v] \in Drafts /\ now \in Nat
      /\ \A g \in Governed : head[g] \in Nat /\ head'[g] \in Nat
  BY DEF TypeOK, GovernedTypeOK
<1>2. /\ draft[v].captured \in Nat
      /\ \A g \in Governed : draft[v].heads[g] \in Nat
                               /\ draft[v].under[g] \in Nat
  BY <1>1 DEF Drafts
<1>3. \A g \in Governed : draft[v].heads[g] <= head'[g]
  BY <1>1, <1>2 DEF RunOK
<1>4. pc[v] \in Captured => /\ draft[v].captured <= now'
                            /\ \A g \in Governed : draft[v].under[g] <= head'[g]
  BY <1>1, <1>2 DEF RunOK
<1>5. QED
  BY <1>3, <1>4 DEF RunOK, Scoped

(* A run that ended is as good as new. *)
LEMMA RunEnded ==
    ASSUME TypeOK, NEW w \in Workers, NEW o \in Ended, End(w, o), UNCHANGED head
    PROVE  RunOK(w)'
<1>1. /\ pc'[w] \in Ended /\ confirmed'[w] = {}
      /\ draft'[w] = Start(RequestOf[w])
  BY DEF End, GoTo, Fill, TypeOK
<1>2. \A g \in Governed : draft'[w].heads[g] <= head'[g]
  BY <1>1 DEF Start, Unresolved, TypeOK, GovernedTypeOK
<1>3. draft'[w].request = RequestOf[w]
  BY <1>1 DEF Start
<1>4. \A g \in Governed : draft'[w].heads[g] = 0
  BY <1>1 DEF Start, Unresolved
<1>5. QED
  BY <1>1, <1>2, <1>3, <1>4 DEF RunOK, Captured, Ended

LEMMA RunAnswered ==
    ASSUME TypeOK, NEW w \in Workers, RunOK(w),
           NEW g \in Governed, Answered(w, g)
    PROVE  RunOK(w)'
<1>1. /\ draft[w] \in Drafts /\ head[g] \in Nat
      /\ UNCHANGED <<head, now, calls>>
  BY DEF Answered, governedVars, TypeOK, GovernedTypeOK
<1>2. CASE Noted(w, g)
  <2>1. /\ pc[w] = "resolve" /\ pc'[w] = "resolve"
        /\ confirmed'[w] = confirmed[w]
        /\ draft'[w] = [draft[w] EXCEPT !.heads[g] = head[g]]
    BY <1>2 DEF Noted, Keep, GoTo, Fill, TypeOK
  <2>2. /\ draft'[w].request = draft[w].request
        /\ draft'[w].heads = [draft[w].heads EXCEPT ![g] = head[g]]
        /\ draft[w].heads \in [Governed -> Nat]
    BY <1>1, <2>1 DEF Drafts
  <2>3. \A k \in Governed : draft'[w].heads[k] <= head'[k]
    BY <1>1, <2>2 DEF RunOK
  <2>4. confirmed'[w] = {} /\ calls'[w] = 0
    BY <1>1, <2>1 DEF RunOK
  <2>5. \A k \in Governed \ {"activation"} :
          draft'[w].heads[k] # 0 => RequestOf[w] \in InScope
    BY <1>2, <2>2 DEF Noted, RunOK
  <2>6. QED
    BY <2>1, <2>2, <2>3, <2>4, <2>5 DEF RunOK, Captured
<1>3. CASE Confirmed(w, g)
  <2>1. /\ pc[w] = "recheck" /\ pc'[w] = "recheck"
        /\ draft'[w] = draft[w]
        /\ confirmed'[w] = confirmed[w] \cup {g}
        /\ draft[w].heads[g] = head[g]
    BY <1>3 DEF Confirmed, TypeOK
  <2>2. draft[w].under[g] = draft[w].heads[g]
    <3>1. /\ draft[w].heads[g] <= draft[w].under[g]
          /\ draft[w].under[g] <= head[g]
      BY <2>1 DEF RunOK, Captured
    <3>2. draft[w].heads[g] \in Nat /\ draft[w].under[g] \in Nat
      BY <1>1 DEF Drafts
    <3>3. QED
      BY <1>1, <2>1, <3>1, <3>2
  <2>3. QED
    BY <1>1, <2>1, <2>2 DEF RunOK, Captured, Scoped
<1>4. CASE Refused(w)
  BY <1>1, <1>4, RunEnded DEF Refused, Ended
<1>5. QED
  BY <1>2, <1>3, <1>4 DEF Answered

LEMMA RunStep ==
    ASSUME TypeOK, NEW w \in Workers, RunOK(w), Step(w)
    PROVE  RunOK(w)'
<1>1. draft[w] \in Drafts /\ now \in Nat
  BY DEF TypeOK
<1>2. CASE Lookup(w)
  <2>1. CASE Keep(w, "resolve", [draft[w] EXCEPT !.started = now])
    <3>1. /\ pc[w] = "idle" /\ pc'[w] = "resolve"
          /\ confirmed'[w] = confirmed[w]
          /\ draft'[w] = [draft[w] EXCEPT !.started = now]
          /\ UNCHANGED <<head, calls>>
      BY <1>2, <2>1 DEF Lookup, Keep, GoTo, Fill, TypeOK, governedVars
    <3>2. /\ draft'[w].request = draft[w].request
          /\ draft'[w].heads = draft[w].heads
      BY <1>1, <3>1 DEF Drafts
    <3>3. QED
      BY <3>1, <3>2 DEF RunOK, Captured
  <2>2. CASE End(w, "replayed") \/ End(w, "conflict")
    BY <1>2, <2>2, RunEnded DEF Lookup, governedVars, Ended
  <2>3. QED
    BY <1>2, <2>1, <2>2 DEF Lookup
<1>3. CASE \/ LoadHead(w)
           \/ ResolveSourceDefinition(w)
           \/ ResolveCapabilityUse(w)
           \/ ResolveAuthorityUse(w)
  BY <1>3, ResolversAnswer, RunAnswered
<1>4. CASE Capture(w)
  <2>1. CASE End(w, "failed")
    BY <1>4, <2>1, RunEnded DEF Capture, governedVars, Ended
  <2>2. CASE Keep(w, "retrieve", draft[w])
                /\ calls' = [calls EXCEPT ![w] = @ + 1]
    <3>1. /\ pc[w] = "resolve" /\ pc'[w] = "retrieve"
          /\ confirmed'[w] = confirmed[w]
          /\ draft'[w] = draft[w]
          /\ calls[w] = 0 /\ calls'[w] = calls[w] + 1
          /\ UNCHANGED head
      BY <1>4, <2>2
      DEF Capture, Keep, GoTo, Fill, TypeOK, governedVars, RunOK
    <3>2. RequestOf[w] \in Adaptable
      <4>1. RequestOf[w] \in Adaptable \/ pc'[w] = "failed"
        BY <1>4 DEF Capture, End, GoTo, TypeOK
      <4>2. QED
        BY <3>1, <4>1
    <3>3. Scoped(w)
      BY <1>4, GovernedAssumption DEF Capture, RunOK, Scoped
    <3>4. QED
      BY <3>1, <3>2, <3>3 DEF RunOK, Captured, Scoped
  <2>3. QED
    BY <1>4, <2>1, <2>2 DEF Capture
<1>5. CASE Retrieve(w)
  <2>1. PICK exact \in BOOLEAN, observed, captured \in 0..now, body \in Bodies :
          \/ /\ Conforms(draft[w].started, exact, observed, captured, body)
             /\ Keep(w, "captured", [draft[w] EXCEPT
                                       !.under = head,
                                       !.observed = observed,
                                       !.captured = captured,
                                       !.faithful = (body = "canonical")])
          \/ End(w, "failed")
    BY <1>5 DEF Retrieve
  <2>2. CASE End(w, "failed")
    BY <1>5, <2>2, RunEnded DEF Retrieve, governedVars, Ended
  <2>3. CASE /\ Conforms(draft[w].started, exact, observed, captured, body)
             /\ Keep(w, "captured", [draft[w] EXCEPT
                                       !.under = head,
                                       !.observed = observed,
                                       !.captured = captured,
                                       !.faithful = (body = "canonical")])
    <3>1. /\ pc[w] = "retrieve" /\ pc'[w] = "captured"
          /\ confirmed'[w] = confirmed[w]
          /\ draft'[w] = [draft[w] EXCEPT !.under = head,
                                          !.observed = observed,
                                          !.captured = captured,
                                          !.faithful = (body = "canonical")]
          /\ UNCHANGED <<head, now, calls>>
      BY <1>5, <2>3 DEF Retrieve, Keep, GoTo, Fill, TypeOK, governedVars
    <3>2. /\ draft'[w].request = draft[w].request
          /\ draft'[w].heads = draft[w].heads
          /\ draft'[w].under = head
          /\ draft'[w].started = draft[w].started
          /\ draft'[w].observed = observed
          /\ draft'[w].captured = captured
      BY <1>1, <3>1 DEF Drafts
    <3>3. /\ draft[w].started <= observed
          /\ observed <= captured
          /\ captured <= now
      BY <1>1, <2>3 DEF Conforms, Drafts
    <3>4. \A g \in Governed : head[g] <= head[g]
      BY DEF TypeOK, GovernedTypeOK
    <3>5. confirmed'[w] = {} /\ calls'[w] = 1
      BY <3>1 DEF RunOK
    <3>6. QED
      BY <3>1, <3>2, <3>3, <3>4, <3>5 DEF RunOK, Captured, Scoped
  <2>4. QED
    BY <2>1, <2>2, <2>3
<1>6. CASE BeginRecheck(w)
  <2>1. CASE End(w, "failed")
    BY <1>6, <2>1, RunEnded DEF BeginRecheck, governedVars, Ended
  <2>2. CASE /\ now < Expiry
             /\ Keep(w, "recheck", [draft[w] EXCEPT !.rechecked = now])
    <3>1. /\ pc[w] = "captured" /\ pc'[w] = "recheck"
          /\ confirmed'[w] = confirmed[w]
          /\ draft'[w] = [draft[w] EXCEPT !.rechecked = now]
          /\ UNCHANGED <<head, now, calls>>
      BY <1>6, <2>2 DEF BeginRecheck, Keep, GoTo, Fill, TypeOK, governedVars
    <3>2. /\ draft'[w].request = draft[w].request
          /\ draft'[w].heads = draft[w].heads
          /\ draft'[w].under = draft[w].under
          /\ draft'[w].started = draft[w].started
          /\ draft'[w].observed = draft[w].observed
          /\ draft'[w].captured = draft[w].captured
      BY <1>1, <3>1 DEF Drafts
    <3>3. draft[w].captured < Expiry
      BY <1>1, <2>2, <3>1, IngressAssumption DEF RunOK, Captured, Drafts
    <3>4. QED
      BY <3>1, <3>2, <3>3 DEF RunOK, Captured, Scoped
  <2>3. QED
    BY <1>6, <2>1, <2>2 DEF BeginRecheck
<1>7. CASE MapMaterial(w)
  <2>1. CASE End(w, "failed")
    BY <1>7, <2>1, RunEnded DEF MapMaterial, governedVars, Ended
  <2>2. CASE draft[w].faithful /\ Keep(w, "append", draft[w])
    <3>1. /\ pc[w] = "recheck" /\ pc'[w] = "append"
          /\ confirmed[w] = Governed /\ confirmed'[w] = confirmed[w]
          /\ draft'[w] = draft[w]
          /\ UNCHANGED <<head, now, calls>>
      BY <1>7, <2>2 DEF MapMaterial, Keep, GoTo, Fill, TypeOK, governedVars
    <3>2. QED
      BY <2>2, <3>1 DEF RunOK, Captured, Scoped
  <2>3. QED
    BY <1>7, <2>1, <2>2 DEF MapMaterial
<1>8. CASE Append(w)
  BY <1>8, RunEnded DEF Append, Admitted, governedVars, Ended
<1>9. CASE Interrupt(w)
  BY <1>9, RunEnded DEF Interrupt, governedVars, Ended
<1>10. QED
  BY <1>2, <1>3, <1>4, <1>5, <1>6, <1>7, <1>8, <1>9 DEF Step

(* A run's step leaves the other runs alone. *)
LEMMA OthersUntouched ==
    ASSUME TypeOK, NEW w \in Workers, Step(w), NEW v \in Workers, v # w
    PROVE  /\ pc'[v] = pc[v] /\ draft'[v] = draft[v]
           /\ confirmed'[v] = confirmed[v] /\ calls'[v] = calls[v]
<1> USE DEF Keep, End, GoTo, Fill, TypeOK
<1>1. CASE \/ LoadHead(w)
           \/ ResolveSourceDefinition(w)
           \/ ResolveCapabilityUse(w)
           \/ ResolveAuthorityUse(w)
  <2>1. PICK g \in Governed : Answered(w, g)
    BY <1>1, ResolversAnswer
  <2>2. QED
    BY <2>1 DEF Answered, Noted, Confirmed, Refused
<1>2. CASE Lookup(w) \/ Capture(w)
  BY <1>2 DEF Lookup, Capture
<1>3. CASE Retrieve(w)
  BY <1>3 DEF Retrieve
<1>4. CASE BeginRecheck(w) \/ MapMaterial(w)
  BY <1>4 DEF BeginRecheck, MapMaterial
<1>5. CASE Append(w) \/ Interrupt(w)
  BY <1>5 DEF Append, Admitted, Interrupt
<1>6. QED
  BY <1>1, <1>2, <1>3, <1>4, <1>5 DEF Step

LEMMA RunsNext == TypeOK /\ RunsOK /\ [Next]_vars => RunsOK'
<1> SUFFICES ASSUME TypeOK, RunsOK, [Next]_vars, NEW v \in Workers
             PROVE  RunOK(v)'
  BY DEF RunsOK
<1>1. /\ RunOK(v) /\ now \in Nat /\ head \in [Governed -> Nat]
      /\ \A g \in Governed : head[g] <= head[g]
  BY DEF RunsOK, TypeOK, GovernedTypeOK
<1>2. TypeOK'
  BY TypeNext
<1>3. CASE \E w \in Workers : Step(w)
  <2>1. PICK w \in Workers : Step(w)
    BY <1>3
  <2>2. CASE v = w
    BY <1>1, <2>1, <2>2, RunStep
  <2>3. CASE v # w
    <3>1. UNCHANGED <<head, now>>
      BY <2>1, StepKeepsHeads DEF governedVars
    <3>2. now <= now'
      BY <1>1, <3>1
    <3>3. QED
      BY <1>1, <2>1, <2>3, <3>1, <3>2, OthersUntouched, RunFrame
  <2>4. QED
    BY <2>2, <2>3
<1>4. CASE GovernedNext /\ UNCHANGED ingressVars
  <2>1. head' \in [Governed -> Nat]
    BY <1>2 DEF TypeOK, GovernedTypeOK
  <2>2. now' \in Nat /\ now <= now'
    BY <1>1, <1>4 DEF ingressVars
  <2>3. QED
    BY <1>1, <1>4, <2>1, <2>2, HeadsGrow, RunFrame DEF ingressVars
<1>5. CASE Tick
  <2>1. now' \in Nat /\ now <= now'
    BY <1>1, <1>5 DEF Tick
  <2>2. QED
    BY <1>1, <1>5, <2>1, RunFrame DEF Tick, governedVars
<1>6. CASE UNCHANGED vars
  <2>1. now <= now'
    BY <1>1, <1>6 DEF vars, ingressVars
  <2>2. QED
    BY <1>1, <1>6, <2>1, RunFrame DEF vars, governedVars, ingressVars
<1>7. QED
  BY <1>3, <1>4, <1>5, <1>6 DEF Next

LEMMA RunsInvariant == Spec => []RunsOK
<1>1. TypeOK /\ Init => RunsOK
  BY RunsInit
<1>2. TypeOK /\ RunsOK /\ [Next]_vars => RunsOK'
  BY RunsNext
<1>3. QED
  BY <1>1, <1>2, TypeCorrect, PTL DEF Spec

-----------------------------------------------------------------------------
(* The record store *)

LEMMA StoreInit == Init => StoreOK
  BY DEF Init, StoreOK

(* The store is as good as before if a run that has not returned yet does  *)
(* something that neither appends nor returns.                             *)
LEMMA StoreKept ==
    ASSUME TypeOK, StoreOK, NEW w \in Workers,
           pc[w] \notin {"admitted", "replayed"},
           UNCHANGED <<ledger, returned>>,
           \A v \in Workers : v # w => pc'[v] = pc[v] /\ calls'[v] = calls[v]
    PROVE  StoreOK'
  BY DEF StoreOK, Key

(* What a run appends. *)
LEMMA AppendedDraft ==
    ASSUME TypeOK, NEW w \in Workers, RunOK(w), pc[w] = "append"
    PROVE  /\ draft[w] \in Drafts /\ draft[w] # Nothing
           /\ Key(w) \in Keys
           /\ draft[w].request = RequestOf[w]
           /\ KeyOf[draft[w].request] = Key(w)
           /\ draft[w].under = draft[w].heads
           /\ draft[w].started <= draft[w].observed
           /\ draft[w].observed <= draft[w].captured
           /\ draft[w].captured < Expiry
           /\ calls[w] = 1
           /\ RequestOf[w] \in Adaptable /\ Scoped(w)
           /\ draft[w].faithful
<1>1. draft[w] \in Drafts
  BY DEF TypeOK
<1>2. draft[w] # Nothing
  BY <1>1, NothingIsNoDraft
<1>3. Key(w) \in Keys
  BY IngressAssumption DEF Key
<1>4. /\ draft[w].under \in [Governed -> Nat]
      /\ draft[w].heads \in [Governed -> Nat]
  BY <1>1 DEF Drafts
<1>5. \A g \in Governed : draft[w].under[g] = draft[w].heads[g]
  BY DEF RunOK
<1>6. draft[w].under = draft[w].heads
  BY <1>4, <1>5
<1>7. QED
  BY <1>1, <1>2, <1>3, <1>6 DEF RunOK, Captured, Key

LEMMA StoreAppend ==
    ASSUME TypeOK, RunsOK, StoreOK, NEW w \in Workers, Append(w)
    PROVE  StoreOK'
<1>1. RunOK(w) /\ pc[w] = "append"
  BY DEF RunsOK, Append
<1>2. Step(w)
  BY DEF Step
<1>3. CASE UNCHANGED <<ledger, returned>>
  BY <1>1, <1>2, <1>3, StoreKept, OthersUntouched
<1>4. CASE ledger[Key(w)] = Nothing /\ Admitted(w)
  <2>1. /\ ledger' = [ledger EXCEPT ![Key(w)] = draft[w]]
        /\ returned' = [returned EXCEPT ![w] = draft[w]]
        /\ pc'[w] = "admitted"
        /\ UNCHANGED calls
    BY <1>4 DEF Admitted, End, GoTo, TypeOK, Append
  <2>2. ledger'[Key(w)] = draft[w] /\ returned'[w] = draft[w]
    BY <1>1, <2>1, AppendedDraft DEF TypeOK
  <2>3. ASSUME NEW k \in Keys, ledger'[k] # Nothing
        PROVE  /\ KeyOf[ledger'[k].request] = k
               /\ ledger'[k].under = ledger'[k].heads
               /\ ledger'[k].started <= ledger'[k].observed
               /\ ledger'[k].observed <= ledger'[k].captured
               /\ ledger'[k].captured < Expiry
    <3>1. CASE k = Key(w)
      BY <1>1, <2>2, <3>1, AppendedDraft
    <3>2. CASE k # Key(w)
      <4>1. ledger'[k] = ledger[k]
        BY <2>1, <3>2 DEF TypeOK
      <4>2. QED
        BY <2>3, <4>1 DEF StoreOK
    <3>3. QED
      BY <3>1, <3>2
  <2>4. ASSUME NEW v \in Workers, returned'[v] # Nothing
        PROVE  /\ pc'[v] \in {"admitted", "replayed"}
               /\ returned'[v] = ledger'[Key(v)]
               /\ returned'[v].request = RequestOf[v]
               /\ calls'[v] = (IF pc'[v] = "admitted" THEN 1 ELSE 0)
    <3>1. CASE v = w
      BY <1>1, <2>1, <2>2, <3>1, AppendedDraft
    <3>2. CASE v # w
      <4>1. returned'[v] = returned[v] /\ pc'[v] = pc[v] /\ calls'[v] = calls[v]
        BY <1>2, <2>1, <3>2, OthersUntouched DEF TypeOK
      <4>2. /\ pc[v] \in {"admitted", "replayed"}
            /\ returned[v] = ledger[Key(v)]
            /\ returned[v].request = RequestOf[v]
            /\ calls[v] = (IF pc[v] = "admitted" THEN 1 ELSE 0)
        BY <2>4, <4>1 DEF StoreOK
      <4>3. Key(v) # Key(w)
        BY <1>4, <2>4, <4>1, <4>2
      <4>4. ledger'[Key(v)] = ledger[Key(v)]
        BY <2>1, <4>3, IngressAssumption DEF TypeOK, Key
      <4>5. QED
        BY <4>1, <4>2, <4>4
    <3>3. QED
      BY <3>1, <3>2
  <2>5. QED
    BY <2>3, <2>4 DEF StoreOK, Key
<1>5. QED
  BY <1>3, <1>4 DEF Append

LEMMA StoreLookup ==
    ASSUME TypeOK, RunsOK, StoreOK, NEW w \in Workers, Lookup(w)
    PROVE  StoreOK'
<1>1. Step(w) /\ pc[w] = "idle" /\ calls[w] = 0 /\ UNCHANGED <<ledger, calls>>
  BY DEF Step, Lookup, RunsOK, RunOK
<1>2. CASE UNCHANGED returned
  BY <1>1, <1>2, StoreKept, OthersUntouched
<1>3. CASE /\ ledger[Key(w)] # Nothing
           /\ ledger[Key(w)].request = RequestOf[w]
           /\ returned' = [returned EXCEPT ![w] = ledger[Key(w)]]
           /\ End(w, "replayed")
  <2>1. returned'[w] = ledger[Key(w)] /\ pc'[w] = "replayed"
    BY <1>3 DEF TypeOK, End, GoTo
  <2>2. ASSUME NEW v \in Workers, v # w
        PROVE  returned'[v] = returned[v] /\ pc'[v] = pc[v]
    BY <1>1, <1>3, <2>2, OthersUntouched DEF TypeOK
  <2>3. QED
    BY <1>1, <1>3, <2>1, <2>2 DEF StoreOK, Key
<1>4. QED
  BY <1>2, <1>3 DEF Lookup

LEMMA StoreNext == TypeOK /\ RunsOK /\ StoreOK /\ [Next]_vars => StoreOK'
<1> SUFFICES ASSUME TypeOK, RunsOK, StoreOK, [Next]_vars PROVE StoreOK'
  OBVIOUS
<1>1. CASE \E w \in Workers : Step(w)
  <2>1. PICK w \in Workers : Step(w)
    BY <1>1
  <2>2. CASE Append(w)
    BY <2>2, StoreAppend
  <2>3. CASE Lookup(w)
    BY <2>3, StoreLookup
  <2>4. CASE ~Append(w) /\ ~Lookup(w)
    <3>1. UNCHANGED <<ledger, returned>> /\ pc[w] \in Working
      BY <2>1, <2>4, ResolversAnswer
      DEF Step, Answered, Noted, Confirmed, Refused, Capture, Retrieve,
          BeginRecheck, MapMaterial, Interrupt, Working
    <3>2. pc[w] \notin {"admitted", "replayed"}
      BY <3>1 DEF Working
    <3>3. QED
      BY <2>1, <3>1, <3>2, StoreKept, OthersUntouched
  <2>5. QED
    BY <2>2, <2>3, <2>4
<1>2. CASE GovernedNext /\ UNCHANGED ingressVars
  BY <1>2 DEF ingressVars, StoreOK, Key
<1>3. CASE Tick \/ UNCHANGED vars
  BY <1>3 DEF Tick, vars, ingressVars, StoreOK, Key
<1>4. QED
  BY <1>1, <1>2, <1>3 DEF Next

LEMMA StoreInvariant == Spec => []StoreOK
<1>1. Init => StoreOK
  BY StoreInit
<1>2. TypeOK /\ RunsOK /\ StoreOK /\ [Next]_vars => StoreOK'
  BY StoreNext
<1>3. QED
  BY <1>1, <1>2, TypeCorrect, RunsInvariant, PTL DEF Spec

(* However the heads move between the awaits of a run, the source was read *)
(* under exactly the heads the admission cites.                            *)
THEOREM CapturedUnderCited == Spec => []CapturedUnderCitedHeads
<1>1. StoreOK => CapturedUnderCitedHeads
  BY DEF StoreOK, CapturedUnderCitedHeads
<1>2. QED
  BY <1>1, StoreInvariant, PTL

(* No admission rests on a response older than its authorisation or newer  *)
(* than its grant.                                                         *)
THEOREM CapturedInsideGrant == Spec => []CaptureInsideGrant
<1>1. StoreOK => CaptureInsideGrant
  BY DEF StoreOK, CaptureInsideGrant
<1>2. QED
  BY <1>1, StoreInvariant, PTL

(* An answer once given, admitted or replayed, stays what the store holds. *)
THEOREM AnswersAreStored == Spec => []ReturnedIsStored
<1>1. StoreOK => ReturnedIsStored
  BY DEF StoreOK, ReturnedIsStored
<1>2. QED
  BY <1>1, StoreInvariant, PTL

-----------------------------------------------------------------------------
(* Appends *)

(* The ledger changes only by an append of a run that owns a free key.     *)
LEMMA LedgerStep ==
    ASSUME TypeOK, [Next]_vars, ledger' # ledger
    PROVE  \E w \in Workers : /\ pc[w] = "append"
                              /\ ledger[Key(w)] = Nothing
                              /\ draft[w].heads = installed
                              /\ ledger' = [ledger EXCEPT ![Key(w)] = draft[w]]
<1>1. CASE \E w \in Workers : Step(w)
  <2>1. PICK w \in Workers : Step(w)
    BY <1>1
  <2>2. Append(w)
    BY <2>1, ResolversAnswer
    DEF Step, Answered, Lookup, Capture, Retrieve, BeginRecheck, MapMaterial,
        Interrupt
  <2>3. QED
    BY <2>2 DEF Append, Admitted
<1>2. QED
  BY <1>1 DEF Next, Tick, vars, ingressVars

(* Between the capture and the append nobody installed another head.       *)
THEOREM AppendIsSteady == Spec => AppendedUnderCaptureHeads
<1>1. ASSUME TypeOK, RunsOK, [Next]_vars,
             NEW k \in Keys, ledger'[k] # ledger[k]
      PROVE  ledger'[k].under = installed
  <2>1. PICK w \in Workers : /\ pc[w] = "append"
                             /\ draft[w].heads = installed
                             /\ ledger' = [ledger EXCEPT ![Key(w)] = draft[w]]
    BY <1>1, LedgerStep
  <2>2. k = Key(w) /\ ledger'[k] = draft[w]
    BY <1>1, <2>1 DEF TypeOK
  <2>3. RunOK(w)
    BY <1>1 DEF RunsOK
  <2>4. QED
    BY <1>1, <2>1, <2>2, <2>3, AppendedDraft
<1>2. TypeOK /\ RunsOK /\ [Next]_vars
        => \A k \in Keys : ledger'[k] # ledger[k] => ledger'[k].under = installed
  BY <1>1
<1>3. [](TypeOK /\ RunsOK) /\ [][Next]_vars => AppendedUnderCaptureHeads
  BY <1>2, PTL DEF AppendedUnderCaptureHeads
<1>4. QED
  BY <1>3, TypeCorrect, RunsInvariant, PTL DEF Spec

(* Live ingress implements the append-only ledger.                         *)
THEOREM LedgerIsAppendOnly == Spec => LedgerSpec
<1>1. Init => Ledger!Init
  BY DEF Init, Ledger!Init
<1>2. TypeOK /\ RunsOK /\ [Next]_vars => [Ledger!Next]_ledger
  <2> SUFFICES ASSUME TypeOK, RunsOK, [Next]_vars, ledger' # ledger
               PROVE  Ledger!Next
    OBVIOUS
  <2>1. PICK w \in Workers : /\ pc[w] = "append"
                             /\ ledger[Key(w)] = Nothing
                             /\ ledger' = [ledger EXCEPT ![Key(w)] = draft[w]]
    BY LedgerStep
  <2>2. RunOK(w)
    BY DEF RunsOK
  <2>3. Key(w) \in Keys /\ ledger'[Key(w)] = draft[w]
    BY <2>1, <2>2, AppendedDraft DEF TypeOK
  <2>4. AdmissionOf(Key(w), ledger'[Key(w)])
    BY <2>1, <2>2, <2>3, AppendedDraft DEF AdmissionOf, Scoped
  <2>5. Ledger!Admit(Key(w))
    BY <2>1, <2>3, <2>4 DEF Ledger!Admit
  <2>6. QED
    BY <2>3, <2>5 DEF Ledger!Next
<1>3. QED
  BY <1>1, <1>2, TypeCorrect, RunsInvariant, PTL DEF Spec, LedgerSpec, Ledger!Spec

-----------------------------------------------------------------------------
(* What an append can have missed *)

(* A run that has not taken its second look at the grant when the grant is *)
(* revoked.                                                                *)
Shut(w) == revoked /\ "grant" \notin confirmed[w] /\ pc[w] # "admitted"

(* The second look refuses a revoked grant.                                *)
LEMMA RevokedIsRefused ==
    ASSUME TypeOK, NEW w \in Workers, Step(w), revoked, "grant" \notin confirmed[w]
    PROVE  "grant" \notin confirmed'[w]
<1> USE DEF Keep, End, GoTo, Fill, TypeOK
<1>1. CASE LoadHead(w)
  BY <1>1 DEF LoadHead, Take
<1>2. CASE ResolveSourceDefinition(w)
  BY <1>2 DEF ResolveSourceDefinition, Take
<1>3. CASE ResolveCapabilityUse(w)
  BY <1>3 DEF ResolveCapabilityUse, Take
<1>4. CASE ResolveAuthorityUse(w)
  BY <1>4 DEF ResolveAuthorityUse, Take
<1>5. CASE Lookup(w) \/ Capture(w) \/ Interrupt(w)
  BY <1>5 DEF Lookup, Capture, Interrupt
<1>6. CASE Retrieve(w)
  BY <1>6 DEF Retrieve
<1>7. CASE BeginRecheck(w) \/ MapMaterial(w)
  BY <1>7 DEF BeginRecheck, MapMaterial
<1>8. CASE Append(w)
  BY <1>8 DEF Append, Admitted
<1>9. QED
  BY <1>1, <1>2, <1>3, <1>4, <1>5, <1>6, <1>7, <1>8 DEF Step

(* Only an append admits, of a run that has confirmed every head.          *)
LEMMA AdmittedWasConfirmed ==
    ASSUME TypeOK, NEW w \in Workers, RunOK(w), Step(w), pc'[w] = "admitted"
    PROVE  confirmed[w] = Governed
<1>1. CASE Append(w)
  BY <1>1 DEF Append, RunOK
<1>2. CASE ~Append(w)
  <2> USE DEF Keep, End, GoTo, Fill, TypeOK
  <2>1. CASE \/ LoadHead(w)
             \/ ResolveSourceDefinition(w)
             \/ ResolveCapabilityUse(w)
             \/ ResolveAuthorityUse(w)
    <3>1. PICK g \in Governed : Answered(w, g)
      BY <2>1, ResolversAnswer
    <3>2. pc'[w] # "admitted"
      BY <3>1 DEF Answered, Noted, Confirmed, Refused
    <3>3. QED BY <3>2
  <2>2. CASE Lookup(w) \/ Capture(w) \/ Interrupt(w)
    BY <2>2 DEF Lookup, Capture, Interrupt
  <2>3. CASE Retrieve(w)
    BY <2>3 DEF Retrieve
  <2>4. CASE BeginRecheck(w) \/ MapMaterial(w)
    BY <2>4 DEF BeginRecheck, MapMaterial
  <2>5. QED
    BY <1>2, <2>1, <2>2, <2>3, <2>4 DEF Step
<1>3. QED BY <1>1, <1>2

(* A grant revoked before a run's second look at it is never used by that  *)
(* run: whatever the run has captured, it admits nothing.  A revocation    *)
(* after the second look leaves the head where it is and is not seen       *)
(* (ACERuntimeUseResolver.resolve_authority_use, line 254).                *)
THEOREM RevocationShuts ==
    ASSUME "grant" \in Governed
    PROVE  Spec => [][\A w \in Workers : Shut(w) => Shut(w)']_vars
<1> DEFINE A == \A w \in Workers : Shut(w) => Shut(w)'
<1>1. TypeOK /\ RunsOK /\ [Next]_vars => A
  <2> SUFFICES ASSUME TypeOK, RunsOK, [Next]_vars, NEW w \in Workers, Shut(w)
               PROVE  Shut(w)'
    OBVIOUS
  <2>1. CASE \E v \in Workers : Step(v)
    <3>1. PICK v \in Workers : Step(v) BY <2>1
    <3>2. revoked' = revoked BY <3>1, StepKeepsHeads DEF governedVars
    <3>3. CASE v = w
      <4>1. "grant" \notin confirmed'[w] BY <3>1, <3>3, RevokedIsRefused DEF Shut
      <4>2. pc'[w] # "admitted" BY <3>1, <3>3, AdmittedWasConfirmed DEF Shut, RunsOK
      <4>3. QED BY <3>2, <4>1, <4>2 DEF Shut
    <3>4. CASE v # w
      BY <3>1, <3>2, <3>4, OthersUntouched DEF Shut
    <3>5. QED BY <3>3, <3>4
  <2>2. CASE GovernedNext /\ UNCHANGED ingressVars
    BY <2>2
    DEF GovernedNext, PrepareRevision, Commit, AdvanceHead, InstallHead,
        InstallCurrentHeads, RevokeGrant, ingressVars, Shut
  <2>3. CASE Tick \/ UNCHANGED vars
    BY <2>3 DEF Tick, vars, governedVars, ingressVars, Shut
  <2>4. QED BY <2>1, <2>2, <2>3 DEF Next
<1> HIDE DEF A
<1>2. Spec => [][A]_vars
  BY <1>1, TypeCorrect, RunsInvariant, PTL DEF Spec
<1>3. QED BY <1>2 DEF A

(* A run one of whose heads has moved since it noted it, and that has not  *)
(* confirmed that one yet, or that has failed.                             *)
Overtaken(w) ==
    \/ pc[w] = "failed"
    \/ /\ pc[w] \in Working \ {"append"}
       /\ \E g \in Governed \ confirmed[w] : draft[w].heads[g] \notin {0, head[g]}

LEMMA OvertakenStep ==
    ASSUME TypeOK, NEW w \in Workers, RunOK(w), Step(w), Overtaken(w)
    PROVE  Overtaken(w)'
<1>1. /\ draft[w] \in Drafts
      /\ w \in DOMAIN pc /\ w \in DOMAIN draft /\ w \in DOMAIN confirmed
      /\ UNCHANGED head
  BY StepKeepsHeads DEF TypeOK, governedVars
<1>2. pc[w] # "failed" /\ pc[w] # "idle"
  <2>1. CASE pc[w] = "failed"
    <3>1. PICK g \in Governed : Answered(w, g)
      BY <2>1, ResolversAnswer
      DEF Step, Lookup, Capture, Retrieve, BeginRecheck, MapMaterial, Append, Interrupt, Working
    <3>2. QED BY <2>1, <3>1 DEF Answered, Noted, Confirmed, Refused
  <2>2. QED BY <2>1 DEF Overtaken, Working
<1>3. PICK g \in Governed \ confirmed[w] : draft[w].heads[g] \notin {0, head[g]}
  BY <1>2 DEF Overtaken
<1>4. pc[w] \in Working \ {"append"}
  BY <1>2 DEF Overtaken
<1>5. ASSUME End(w, "failed") PROVE Overtaken(w)'
  BY <1>1, <1>5 DEF Overtaken, End, GoTo
<1>6. ASSUME pc'[w] \in Working \ {"append"},
             draft'[w].heads[g] = draft[w].heads[g],
             g \notin confirmed'[w]
      PROVE  Overtaken(w)'
  BY <1>1, <1>3, <1>6 DEF Overtaken
<1>7. ASSUME NEW step \in Working \ {"append"}, NEW d \in Drafts, d.heads = draft[w].heads,
             Keep(w, step, d)
      PROVE  Overtaken(w)'
  BY <1>1, <1>3, <1>6, <1>7 DEF Keep, GoTo, Fill
<1>8. ASSUME NEW h \in Governed, NEW granted \in BOOLEAN, Take(w, h, granted)
      PROVE  Overtaken(w)'
  <2>1. CASE pc[w] = "resolve" /\ granted
    <3>1. /\ draft[w].heads[h] = 0
          /\ pc'[w] = "resolve"
          /\ draft'[w] = [draft[w] EXCEPT !.heads[h] = head[h]]
          /\ confirmed' = confirmed
      BY <1>1, <1>8, <2>1 DEF Take, Keep, GoTo, Fill
    <3>2. h # g BY <1>3, <3>1
    <3>3. draft'[w].heads[g] = draft[w].heads[g]
      BY <1>1, <3>1, <3>2 DEF Drafts
    <3>4. QED BY <1>3, <1>6, <3>1, <3>3 DEF Working
  <2>2. CASE pc[w] = "recheck" /\ ~End(w, "failed")
    <3>1. /\ draft[w].heads[h] = head[h]
          /\ confirmed' = [confirmed EXCEPT ![w] = @ \cup {h}]
          /\ UNCHANGED <<pc, draft>>
      BY <1>8, <2>2 DEF Take
    <3>2. h # g BY <1>3, <3>1
    <3>3. g \notin confirmed'[w] BY <1>1, <1>3, <3>1, <3>2
    <3>4. QED BY <1>4, <1>6, <3>1, <3>3
  <2>3. QED BY <1>5, <1>8, <2>1, <2>2 DEF Take
<1>9. CASE Capture(w)
  BY <1>1, <1>5, <1>7, <1>9 DEF Capture, Working
<1>10. CASE Retrieve(w)
  <2>1. PICK exact \in BOOLEAN, observed, captured \in 0..now, body \in Bodies :
          \/ Keep(w, "captured", [draft[w] EXCEPT
                                    !.under = head,
                                    !.observed = observed,
                                    !.captured = captured,
                                    !.faithful = (body = "canonical")])
          \/ End(w, "failed")
    BY <1>10 DEF Retrieve
  <2> DEFINE d == [draft[w] EXCEPT !.under = head,
                                   !.observed = observed,
                                   !.captured = captured,
                                   !.faithful = (body = "canonical")]
  <2>2. head \in [Governed -> Nat] /\ observed \in Nat /\ captured \in Nat
    BY DEF TypeOK, GovernedTypeOK
  <2>3. d.heads = draft[w].heads /\ d \in Drafts
    BY <1>1, <2>2 DEF Drafts
  <2> HIDE DEF d
  <2>4. QED BY <1>5, <1>7, <2>1, <2>3 DEF d, Working
<1>11. CASE BeginRecheck(w)
  <2> DEFINE d == [draft[w] EXCEPT !.rechecked = now]
  <2>1. d.heads = draft[w].heads /\ d \in Drafts
    BY <1>1, DraftFacts DEF TypeOK, Drafts
  <2> HIDE DEF d
  <2>2. QED BY <1>5, <1>7, <1>11, <2>1 DEF BeginRecheck, d, Working
<1>12. CASE MapMaterial(w)
  BY <1>3, <1>12 DEF MapMaterial
<1>13. CASE Interrupt(w)
  BY <1>5, <1>13 DEF Interrupt
<1>14. CASE LoadHead(w)
  BY <1>8, <1>14, GovernedAssumption DEF LoadHead
<1>15. CASE ResolveSourceDefinition(w)
  <2> DEFINE inScope == RequestOf[w] \in InScope
  <2>1. "source_definition" \in Governed /\ Take(w, "source_definition", inScope)
    BY <1>15 DEF ResolveSourceDefinition
  <2>2. inScope \in BOOLEAN
    OBVIOUS
  <2> HIDE DEF inScope
  <2>3. QED BY <1>8, <2>1, <2>2
<1>16. CASE ResolveCapabilityUse(w)
  <2> DEFINE inScope == RequestOf[w] \in InScope
  <2>1. "capability" \in Governed /\ Take(w, "capability", inScope)
    BY <1>16 DEF ResolveCapabilityUse
  <2>2. inScope \in BOOLEAN
    OBVIOUS
  <2> HIDE DEF inScope
  <2>3. QED BY <1>8, <2>1, <2>2
<1>17. CASE ResolveAuthorityUse(w)
  BY <1>8, <1>17 DEF ResolveAuthorityUse
<1>18. ~Lookup(w) /\ ~Append(w)
  BY <1>2, <1>4 DEF Lookup, Append
<1>19. QED
  BY <1>9, <1>10, <1>11, <1>12, <1>13, <1>14, <1>15, <1>16, <1>17, <1>18 DEF Step

(* A run that has been overtaken stays so: it ends as failed or never,     *)
(* whatever it captured, and no head that moved back could help it, for    *)
(* sequence numbers do not come back.  What the store is told too late, of *)
(* whatever kind, can therefore matter only if it moved after the run had  *)
(* confirmed it (lines 362-382).                                           *)
THEOREM OvertakenStays ==
    Spec => [][\A w \in Workers : Overtaken(w) => Overtaken(w)']_vars
<1> DEFINE A == \A w \in Workers : Overtaken(w) => Overtaken(w)'
<1>1. TypeOK /\ RunsOK /\ [Next]_vars => A
  <2> SUFFICES ASSUME TypeOK, RunsOK, [Next]_vars, NEW w \in Workers, Overtaken(w)
               PROVE  Overtaken(w)'
    OBVIOUS
  <2>1. /\ RunOK(w)
        /\ draft[w].heads \in [Governed -> Nat]
        /\ head \in [Governed -> Nat]
    BY DEF RunsOK, TypeOK, GovernedTypeOK, Drafts
  <2>2. CASE \E v \in Workers : Step(v)
    <3>1. PICK v \in Workers : Step(v) BY <2>2
    <3>2. CASE v = w BY <2>1, <3>1, <3>2, OvertakenStep
    <3>3. CASE v # w
      BY <3>1, <3>3, OthersUntouched, StepKeepsHeads DEF Overtaken, governedVars
    <3>4. QED BY <3>2, <3>3
  <2>3. CASE GovernedNext /\ UNCHANGED ingressVars
    <3>1. head' \in [Governed -> Nat] /\ \A g \in Governed : head[g] <= head'[g]
      BY <2>3, HeadsGrow, TypeNext DEF TypeOK, GovernedTypeOK
    <3>2. \A g \in Governed :
            draft[w].heads[g] \notin {0, head[g]} => draft[w].heads[g] \notin {0, head'[g]}
      BY <2>1, <3>1 DEF RunOK
    <3>3. QED BY <2>3, <3>2 DEF Overtaken, ingressVars
  <2>4. CASE Tick \/ UNCHANGED vars
    BY <2>4 DEF Tick, vars, governedVars, ingressVars, Overtaken
  <2>5. QED BY <2>2, <2>3, <2>4 DEF Next
<1> HIDE DEF A
<1>2. Spec => [][A]_vars
  BY <1>1, TypeCorrect, RunsInvariant, PTL DEF Spec
<1>3. QED BY <1>2 DEF A

=============================================================================
