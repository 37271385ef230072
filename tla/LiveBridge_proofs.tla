--------------------------- MODULE LiveBridge_proofs ---------------------------
(***************************************************************************)
(* Proofs about LiveBridge, for any bridges, snapshots, requests, Packs,   *)
(* runs and administrators.  Every step of the live composition is a step  *)
(* of BriefSynthesis or leaves it alone (StepsImplement): an append of the *)
(* bridge is the admission of a derivation there, because the revision it  *)
(* binds was current when its head was loaded and revisions only grow.  So *)
(* the invariant of BriefSynthesis holds here too, and what a call of the  *)
(* bridge has checked stays true (CallOK).                                 *)
(***************************************************************************)
EXTENDS LiveBridge, BriefSynthesis_proofs, FiniteSetTheorems

BoundCalls == {"coordinates", "authorize", "append"}
ExactCalls == {"authorize", "append"}

AsksOf(x) == DeriveRequest[x]

(* What holds of a call of derive, wherever it is.                         *)
CallOK(x) ==
    /\ step[x] # "idle" => asked[x] \in DeriveRequests /\ asked[x].asks = AsksOf(x)
    /\ step[x] \in Deriving =>
         available[AsksOf(x).baseline] # 0 /\ available[AsksOf(x).current] # 0
    /\ step[x] \in BoundCalls => AsksOf(x).revision \in 1..Current
    /\ step[x] \in ExactCalls =>
         /\ asked[x].from = available[AsksOf(x).baseline]
         /\ asked[x].to = available[AsksOf(x).current]
    /\ step[x] \in {"derived", "replayed"} => asked[x] = Held(x)

DerivationOK(d) ==
    IF derivations[d] = Nothing
    THEN derived[d] = 0
    ELSE LET made == derivations[d] IN
           /\ made \in DeriveRequests
           /\ available[made.asks.baseline] = made.from /\ made.from # 0
           /\ available[made.asks.current] = made.to /\ made.to # 0
           /\ made.asks.revision = derived[d]
           /\ derived[d] # 0

BriefIsLive(k) ==
    briefs[k] # Nothing => \E w \in Runs \ Promoted : Request(w) = briefs[k].request

BridgeInv ==
    /\ IInv
    /\ BridgeTypeOK
    /\ \A x \in Bridges : CallOK(x)
    /\ \A d \in Derivations : DerivationOK(d)
    /\ \A k \in SynthesisKeys : BriefIsLive(k)

-----------------------------------------------------------------------------

LEMMA AsksTypes ==
    ASSUME NEW x \in Bridges
    PROVE  /\ AsksOf(x) \in DeriveAsks
           /\ AsksOf(x).derivation \in Derivations
           /\ AsksOf(x).baseline \in Snapshots
           /\ AsksOf(x).current \in Snapshots
           /\ AsksOf(x).revision \in Nat
BY BridgeAssumption DEF AsksOf, DeriveAsks

LEMMA CoordinatesTypes ==
    ASSUME BridgeTypeOK, NEW x \in Bridges
    PROVE  /\ Coordinates(x) \in DeriveRequests
           /\ Coordinates(x).asks = AsksOf(x)
           /\ Coordinates(x) # Nothing
<1>1. /\ available[AsksOf(x).baseline] \in Nat
      /\ available[AsksOf(x).current] + (IF x \in Forged THEN 1 ELSE 0) \in Nat
  BY AsksTypes DEF BridgeTypeOK
<1>2. QED
  BY <1>1, AsksTypes, BridgeAssumption DEF Coordinates, DeriveRequests, AsksOf

LEMMA AdmissionDates ==
    1 + Cardinality({o \in Snapshots : available[o] # 0}) \in Nat \ {0}
<1> DEFINE admitted == {o \in Snapshots : available[o] # 0}
<1>1. IsFiniteSet(Snapshots)
  BY BridgeAssumption
<1>2. IsFiniteSet(admitted)
  BY <1>1, FS_Subset
<1>3. Cardinality(admitted) \in Nat
  BY <1>2, FS_CardinalityType
<1>4. QED
  BY <1>3

(* Every step is one of BriefSynthesis, or none.                           *)
LEMMA StepsImplement ==
    ASSUME BridgeInv, [BridgeNext]_liveVars
    PROVE  [Next]_vars
<1>1. ASSUME NEW s \in Snapshots, AdmitSnapshot(s) PROVE [Next]_vars
  BY <1>1 DEF AdmitSnapshot
<1>2. ASSUME NEW x \in Bridges, Bridge(x) PROVE [Next]_vars
  <2>1. CASE AppendDerivation(x) /\ derived' = derived
    BY <2>1 DEF AppendDerivation, vars, synthesisVars
  <2>2. CASE AppendDerivation(x) /\ derived' # derived
    <3> DEFINE d == AsksOf(x).derivation
    <3>1. /\ step[x] = "append" /\ Held(x) = Nothing
          /\ derived' = [derived EXCEPT ![d] = AsksOf(x).revision]
          /\ UNCHANGED <<lineageVars, at, existing, calls, reasoning, briefs,
                         returned>>
      BY <2>2 DEF AppendDerivation, AsksOf
    <3>2. derived[d] = 0
      <4>1. derivations[d] = Nothing
        BY <3>1 DEF Held, AsksOf
      <4>2. QED
        BY <4>1, AsksTypes DEF BridgeInv, DerivationOK
    <3>3. AsksOf(x).revision \in 1..Current
      BY <3>1 DEF BridgeInv, CallOK, BoundCalls
    <3>4. AdmitDerivation(d)
      BY <3>1, <3>2, <3>3 DEF AdmitDerivation
    <3>5. d \in Derivations
      BY AsksTypes
    <3>6. QED
      BY <3>4, <3>5 DEF Next
  <2>3. CASE ~AppendDerivation(x)
    BY <1>2, <2>3 DEF Bridge, Ask, LoadDeriveHead, LoadCoordinates,
                      DecideDerive, AuthorizeDerive, InterruptDerive
  <2>4. QED
    BY <2>1, <2>2, <2>3
<1>3. ASSUME NEW w \in Runs, SynthesizeLive(w) PROVE [Next]_vars
  BY <1>3 DEF SynthesizeLive, Next
<1>4. CASE LineageNext /\ UNCHANGED <<synthesisVars, bridgeVars>>
  BY <1>4 DEF Next
<1>5. CASE UNCHANGED liveVars
  BY <1>5 DEF liveVars
<1>6. QED
  BY <1>1, <1>2, <1>3, <1>4, <1>5 DEF BridgeNext

(* What a call of the bridge changes.                                      *)
LEMMA CallSteps ==
    ASSUME NEW x \in Bridges, Bridge(x)
    PROVE  /\ UNCHANGED <<lineageVars, at, existing, calls, reasoning, briefs,
                          returned, available, promotions>>
           /\ \E to \in Deriving \cup Derived : step' = [step EXCEPT ![x] = to]
           /\ \/ UNCHANGED asked
              \/ Ask(x) /\ asked' = [asked EXCEPT ![x] = Coordinates(x)]
           /\ \/ UNCHANGED <<derivations, derived>>
              \/ /\ AppendDerivation(x) /\ step[x] = "append" /\ Held(x) = Nothing
                 /\ derivations' =
                       [derivations EXCEPT ![AsksOf(x).derivation] = asked[x]]
                 /\ derived' =
                       [derived EXCEPT ![AsksOf(x).derivation] = AsksOf(x).revision]
                 /\ step' = [step EXCEPT ![x] = "derived"]
                 /\ UNCHANGED asked
<1>1. CASE Ask(x)
  BY <1>1 DEF Ask, BridgeGoTo, Deriving, Derived, vars, synthesisVars
<1>2. CASE LoadDeriveHead(x) \/ LoadCoordinates(x)
  BY <1>2 DEF LoadDeriveHead, LoadCoordinates, DecideDerive, BridgeGoTo,
              Deriving, Derived, vars, synthesisVars
<1>3. CASE AuthorizeDerive(x) \/ InterruptDerive(x)
  BY <1>3 DEF AuthorizeDerive, InterruptDerive, BridgeGoTo, Deriving, Derived,
              vars, synthesisVars
<1>4. CASE AppendDerivation(x)
  BY <1>4 DEF AppendDerivation, BridgeGoTo, Deriving, Derived, AsksOf
<1>5. QED
  BY <1>1, <1>2, <1>3, <1>4 DEF Bridge

LEMMA BridgeTypeStep ==
    ASSUME BridgeInv, TypeOK', [BridgeNext]_liveVars
    PROVE  BridgeTypeOK'
<1>0. BridgeTypeOK /\ Nothing \notin DeriveRequests
  BY BridgeAssumption DEF BridgeInv
<1>1. ASSUME NEW s \in Snapshots, AdmitSnapshot(s) PROVE BridgeTypeOK'
  <2>1. 1 + Cardinality({o \in Snapshots : available[o] # 0}) \in Nat
    BY AdmissionDates
  <2>2. QED
    BY <1>0, <1>1, <2>1 DEF AdmitSnapshot, BridgeTypeOK
<1>2. ASSUME NEW x \in Bridges, Bridge(x) PROVE BridgeTypeOK'
  <2>1. available' \in [Snapshots -> Nat] /\ promotions' \subseteq Promoted
    BY <1>0, <1>2, CallSteps DEF BridgeTypeOK
  <2>2. step' \in [Bridges -> {"idle"} \cup Deriving \cup Derived]
    BY <1>0, <1>2, CallSteps DEF BridgeTypeOK
  <2>3. asked' \in [Bridges -> DeriveRequests \cup {Nothing}]
    BY <1>0, <1>2, CallSteps, CoordinatesTypes DEF BridgeTypeOK
  <2>4. derivations' \in [Derivations -> DeriveRequests \cup {Nothing}]
    BY <1>0, <1>2, CallSteps DEF BridgeTypeOK
  <2>5. QED
    BY <2>1, <2>2, <2>3, <2>4 DEF BridgeTypeOK
<1>3. ASSUME NEW w \in Runs, SynthesizeLive(w) PROVE BridgeTypeOK'
  BY <1>0, <1>3 DEF SynthesizeLive, BridgeTypeOK, bridgeVars
<1>4. CASE UNCHANGED bridgeVars
  BY <1>0, <1>4 DEF BridgeTypeOK, bridgeVars
<1>5. QED
  BY <1>1, <1>2, <1>3, <1>4 DEF BridgeNext, liveVars

-----------------------------------------------------------------------------
(* What has been admitted, derived and answered stays. *)

BridgeKept ==
    /\ Current \in Nat /\ Current' \in Nat /\ Current' >= Current
    /\ \A s \in Snapshots : available[s] # 0 => available'[s] = available[s]
    /\ \A d \in Derivations :
          derivations[d] # Nothing => derivations'[d] = derivations[d]

LEMMA AppendsAnew ==
    ASSUME BridgeInv, NEW x \in Bridges, step[x] = "append", Held(x) = Nothing
    PROVE  /\ derivations[AsksOf(x).derivation] = Nothing
           /\ asked[x] \in DeriveRequests /\ asked[x] # Nothing
           /\ asked[x].asks = AsksOf(x)
           /\ AsksOf(x).derivation \in Derivations
           /\ AsksOf(x).revision \in 1..Current
           /\ asked[x].from = available[AsksOf(x).baseline]
           /\ asked[x].to = available[AsksOf(x).current]
           /\ asked[x].from # 0 /\ asked[x].to # 0
<1>1. CallOK(x)
  BY DEF BridgeInv
<1>2. QED
  BY <1>1, AsksTypes, BridgeAssumption
  DEF CallOK, Held, AsksOf, Deriving, BoundCalls, ExactCalls

LEMMA BridgeStepsKeep ==
    ASSUME BridgeInv, [BridgeNext]_liveVars
    PROVE  BridgeKept
<1>0. BridgeTypeOK /\ IInv
  BY DEF BridgeInv
<1>1. Kept
  BY <1>0, StepsImplement, StepsKeep
<1>2. \A s \in Snapshots : available[s] # 0 => available'[s] = available[s]
  <2>1. ASSUME NEW s \in Snapshots, AdmitSnapshot(s)
        PROVE  \A o \in Snapshots : available[o] # 0 => available'[o] = available[o]
    BY <1>0, <2>1 DEF AdmitSnapshot, BridgeTypeOK
  <2>2. CASE UNCHANGED available
    BY <2>2
  <2>3. QED
    BY <2>1, <2>2, CallSteps DEF BridgeNext, SynthesizeLive, bridgeVars, liveVars
<1>3. \A d \in Derivations :
         derivations[d] # Nothing => derivations'[d] = derivations[d]
  <2>1. ASSUME NEW x \in Bridges, Bridge(x)
        PROVE  \A d \in Derivations :
                  derivations[d] # Nothing => derivations'[d] = derivations[d]
    <3>1. CASE UNCHANGED derivations
      BY <3>1
    <3>2. CASE /\ derivations[AsksOf(x).derivation] = Nothing
               /\ derivations' =
                     [derivations EXCEPT ![AsksOf(x).derivation] = asked[x]]
      BY <1>0, <3>2 DEF BridgeTypeOK
    <3>3. QED
      BY <2>1, <3>1, <3>2, CallSteps, AppendsAnew
  <2>2. CASE UNCHANGED derivations
    BY <2>2
  <2>3. QED
    BY <2>1, <2>2
    DEF BridgeNext, AdmitSnapshot, SynthesizeLive, bridgeVars, liveVars
<1>4. QED
  BY <1>1, <1>2, <1>3 DEF BridgeKept, Kept

(* A call that does not move keeps what it has checked.                    *)
LEMMA CallFrame ==
    ASSUME BridgeInv, [BridgeNext]_liveVars, NEW y \in Bridges,
           step'[y] = step[y], asked'[y] = asked[y]
    PROVE  CallOK(y)'
<1>1. CallOK(y) /\ BridgeKept
  BY BridgeStepsKeep DEF BridgeInv
<1>2. AsksOf(y)' = AsksOf(y)
  BY DEF AsksOf
<1>3. /\ available[AsksOf(y).baseline] # 0 =>
           available'[AsksOf(y).baseline] = available[AsksOf(y).baseline]
      /\ available[AsksOf(y).current] # 0 =>
           available'[AsksOf(y).current] = available[AsksOf(y).current]
  BY <1>1, AsksTypes DEF BridgeKept
<1>4. step[y] \in Deriving =>
         /\ available'[AsksOf(y).baseline] # 0
         /\ available'[AsksOf(y).current] # 0
  BY <1>1, <1>3 DEF CallOK
<1>5. step[y] \in BoundCalls => AsksOf(y).revision \in 1..Current'
  BY <1>1, AsksTypes DEF CallOK, BridgeKept
<1>6. step[y] \in ExactCalls =>
         /\ asked[y].from = available'[AsksOf(y).baseline]
         /\ asked[y].to = available'[AsksOf(y).current]
  <2>1. step[y] \in ExactCalls => step[y] \in Deriving
    BY DEF ExactCalls, Deriving
  <2>2. QED
    BY <1>1, <1>3, <2>1 DEF CallOK
<1>7. step[y] \in {"derived", "replayed"} => asked[y] = Held(y)'
  <2>1. SUFFICES ASSUME step[y] \in {"derived", "replayed"}
                 PROVE  asked[y] = Held(y)'
    OBVIOUS
  <2>2. asked[y] = derivations[AsksOf(y).derivation] /\ asked[y] # Nothing
    BY <1>1, <2>1, BridgeAssumption DEF CallOK, Held, AsksOf
  <2>3. derivations'[AsksOf(y).derivation] = derivations[AsksOf(y).derivation]
    BY <1>1, <2>2, AsksTypes DEF BridgeKept
  <2>4. QED
    BY <2>2, <2>3 DEF Held, AsksOf
<1>8. QED
  BY <1>1, <1>2, <1>4, <1>5, <1>6, <1>7 DEF CallOK

LEMMA CallsStep ==
    ASSUME BridgeInv, [BridgeNext]_liveVars, NEW y \in Bridges
    PROVE  CallOK(y)'
<1>0. BridgeTypeOK /\ CallOK(y) /\ BridgeKept /\ AsksOf(y)' = AsksOf(y)
  BY BridgeStepsKeep DEF BridgeInv, AsksOf
<1>1. CASE ~Bridge(y)
  <2>1. ASSUME NEW x \in Bridges, Bridge(x), x # y
        PROVE  step'[y] = step[y] /\ asked'[y] = asked[y]
    BY <1>0, <2>1, CallSteps DEF BridgeTypeOK
  <2>2. step'[y] = step[y] /\ asked'[y] = asked[y]
    BY <1>1, <2>1
    DEF BridgeNext, AdmitSnapshot, SynthesizeLive, bridgeVars, liveVars
  <2>3. QED
    BY <2>2, CallFrame
<1>2. CASE Ask(y)
  <2>1. /\ asked'[y] = Coordinates(y) /\ UNCHANGED <<available, derivations>>
        /\ available[AsksOf(y).baseline] # 0 /\ available[AsksOf(y).current] # 0
        /\ Held(y)' = Held(y)
    BY <1>0, <1>2 DEF Ask, BridgeTypeOK, AsksOf, Held
  <2>2. \/ step'[y] = "activation" \/ step'[y] = "conflict"
        \/ step'[y] = "replayed" /\ Held(y) = Coordinates(y)
    BY <1>0, <1>2 DEF Ask, BridgeTypeOK, BridgeGoTo
  <2>3. Coordinates(y) \in DeriveRequests /\ Coordinates(y).asks = AsksOf(y)
    BY <1>0, CoordinatesTypes
  <2>4. QED
    BY <1>0, <2>1, <2>2, <2>3 DEF CallOK, BoundCalls, ExactCalls, Deriving
<1>3. CASE LoadDeriveHead(y)
  <2>1. /\ step[y] = "activation" /\ UNCHANGED <<available, asked>>
        /\ \/ step'[y] = "refused"
           \/ step'[y] = "coordinates" /\ AsksOf(y).revision = Current
        /\ Current' = Current
    BY <1>0, <1>3 DEF LoadDeriveHead, DecideDerive, BridgeGoTo, BridgeTypeOK,
                      AsksOf, vars, lineageVars, Current
  <2>2. Current \in 1..Current
    BY DEF BridgeInv, IInv, TypeOK, LineageTypeOK, Current
  <2>3. QED
    BY <1>0, <2>1, <2>2 DEF CallOK, BoundCalls, ExactCalls, Deriving
<1>4. CASE LoadCoordinates(y)
  <2>1. /\ step[y] = "coordinates" /\ UNCHANGED <<available, asked>>
        /\ \/ step'[y] = "refused"
           \/ /\ step'[y] = "authorize"
              /\ asked[y].from = available[AsksOf(y).baseline]
              /\ asked[y].to = available[AsksOf(y).current]
        /\ Current' = Current
    BY <1>0, <1>4 DEF LoadCoordinates, DecideDerive, BridgeGoTo, BridgeTypeOK,
                      AsksOf, vars, lineageVars, Current
  <2>2. QED
    BY <1>0, <2>1 DEF CallOK, BoundCalls, ExactCalls, Deriving
<1>5. CASE AuthorizeDerive(y) \/ InterruptDerive(y)
  <2>1. /\ UNCHANGED <<available, asked>>
        /\ \/ step[y] = "authorize" /\ step'[y] = "append"
           \/ step[y] \in Deriving /\ step'[y] = "interrupted"
        /\ Current' = Current
    BY <1>0, <1>5 DEF AuthorizeDerive, InterruptDerive, BridgeGoTo, BridgeTypeOK,
                      vars, lineageVars, Current
  <2>2. QED
    BY <1>0, <2>1 DEF CallOK, BoundCalls, ExactCalls, Deriving
<1>6. CASE AppendDerivation(y)
  <2>1. step[y] = "append" /\ UNCHANGED <<available, asked>>
    BY <1>6 DEF AppendDerivation
  <2>2. \/ step'[y] = "refused"
        \/ /\ step'[y] = "derived"
           /\ derivations' = [derivations EXCEPT ![AsksOf(y).derivation] = asked[y]]
    BY <1>0, <1>6 DEF AppendDerivation, BridgeGoTo, BridgeTypeOK, AsksOf
  <2>3. step'[y] = "derived" => asked[y] = Held(y)'
    BY <1>0, <2>2, AsksTypes DEF BridgeTypeOK, Held, AsksOf
  <2>4. QED
    BY <1>0, <2>1, <2>2, <2>3 DEF CallOK, BoundCalls, ExactCalls, Deriving
<1>7. QED
  BY <1>1, <1>2, <1>3, <1>4, <1>5, <1>6 DEF Bridge

LEMMA DerivationsStep ==
    ASSUME BridgeInv, [BridgeNext]_liveVars, NEW d \in Derivations
    PROVE  DerivationOK(d)'
<1>0. /\ BridgeTypeOK /\ DerivationOK(d) /\ BridgeKept
      /\ derived \in [Derivations -> Nat]
  BY BridgeStepsKeep DEF BridgeInv, BridgeTypeOK, TypeOK
<1>1. CASE derivations'[d] = derivations[d] /\ derived'[d] = derived[d]
  <2>1. CASE derivations[d] = Nothing
    BY <1>0, <1>1, <2>1 DEF DerivationOK
  <2>2. CASE derivations[d] # Nothing
    <3>1. /\ derivations[d].asks.baseline \in Snapshots
          /\ derivations[d].asks.current \in Snapshots
      BY <1>0, <2>2 DEF DerivationOK, DeriveRequests, DeriveAsks
    <3>2. QED
      BY <1>0, <1>1, <2>2, <3>1 DEF DerivationOK, BridgeKept
  <2>3. QED
    BY <2>1, <2>2
<1>2. ASSUME NEW x \in Bridges, Bridge(x),
             ~(derivations'[d] = derivations[d] /\ derived'[d] = derived[d])
      PROVE  DerivationOK(d)'
  <2>1. /\ step[x] = "append" /\ Held(x) = Nothing
        /\ derivations' = [derivations EXCEPT ![AsksOf(x).derivation] = asked[x]]
        /\ derived' = [derived EXCEPT ![AsksOf(x).derivation] = AsksOf(x).revision]
        /\ UNCHANGED available
    BY <1>2, CallSteps
  <2>2. d = AsksOf(x).derivation
    BY <1>0, <1>2, <2>1 DEF BridgeTypeOK
  <2>3. derivations'[d] = asked[x] /\ derived'[d] = AsksOf(x).revision
    BY <1>0, <2>1, <2>2 DEF BridgeTypeOK
  <2>4. /\ asked[x] \in DeriveRequests /\ asked[x] # Nothing
        /\ asked[x].asks = AsksOf(x)
        /\ asked[x].from = available[AsksOf(x).baseline]
        /\ asked[x].to = available[AsksOf(x).current]
        /\ asked[x].from # 0 /\ asked[x].to # 0
        /\ AsksOf(x).revision \in 1..Current
    BY <2>1, AppendsAnew
  <2>5. AsksOf(x).revision # 0
    BY <1>0, <2>4 DEF BridgeKept
  <2>6. QED
    BY <2>1, <2>3, <2>4, <2>5 DEF DerivationOK
<1>3. ASSUME NEW w \in Runs, SynthesizeLive(w)
      PROVE  derivations'[d] = derivations[d] /\ derived'[d] = derived[d]
  <2>1. TypeOK
    BY <1>0 DEF BridgeTypeOK
  <2>2. QED
    BY <1>3, <2>1, RunTypes DEF SynthesizeLive, bridgeVars, vars, synthesisVars
<1>4. QED
  BY <1>1, <1>2, <1>3
  DEF BridgeNext, AdmitSnapshot, bridgeVars, liveVars, vars, synthesisVars

LEMMA LiveBriefsStep ==
    ASSUME BridgeInv, [BridgeNext]_liveVars, NEW k \in SynthesisKeys
    PROVE  BriefIsLive(k)'
<1>0. TypeOK /\ BriefIsLive(k)
  BY DEF BridgeInv, BridgeTypeOK
<1>1. CASE briefs'[k] = briefs[k]
  BY <1>0, <1>1 DEF BriefIsLive, Request
<1>2. ASSUME NEW w \in Runs, SynthesizeLive(w), briefs'[k] # briefs[k]
      PROVE  BriefIsLive(k)'
  <2>1. w \in Runs \ Promoted /\ Step(w)
    BY <1>2 DEF SynthesizeLive, vars, synthesisVars
  <2>2. briefs' = [briefs EXCEPT ![Request(w).synthesis] = BriefBy(w)]
    BY <1>0, <1>2, <2>1, BriefWrites
  <2>3. briefs'[k].request = Request(w)
    BY <1>0, <1>2, <2>2 DEF TypeOK, BriefBy
  <2>4. QED
    BY <2>1, <2>3 DEF BriefIsLive, Request
<1>3. QED
  BY <1>1, <1>2, CallSteps
  DEF BridgeNext, AdmitSnapshot, liveVars, vars, synthesisVars

LEMMA BridgeInvInit == BridgeInit => BridgeInv
<1> SUFFICES ASSUME BridgeInit PROVE BridgeInv
  OBVIOUS
<1>1. IInv
  BY InvInit DEF BridgeInit
<1>2. BridgeTypeOK
  BY <1>1 DEF BridgeInit, BridgeTypeOK, IInv
<1>3. \A x \in Bridges : CallOK(x)
  BY DEF BridgeInit, CallOK, Deriving, BoundCalls, ExactCalls
<1>4. \A d \in Derivations : DerivationOK(d)
  BY DEF BridgeInit, Init, DerivationOK
<1>5. \A k \in SynthesisKeys : BriefIsLive(k)
  BY DEF BridgeInit, Init, BriefIsLive
<1>6. QED
  BY <1>1, <1>2, <1>3, <1>4, <1>5 DEF BridgeInv

THEOREM BridgeInvariance == BridgeSpec => []BridgeInv
<1>1. ASSUME BridgeInv, [BridgeNext]_liveVars PROVE BridgeInv'
  <2>1. IInv /\ [Next]_vars
    BY <1>1, StepsImplement DEF BridgeInv
  <2>2. IInv'
    BY <2>1, TypeStep, RunsStep, AttemptsStep, BriefsStep DEF IInv
  <2>3. BridgeTypeOK'
    BY <1>1, <2>2, BridgeTypeStep DEF IInv
  <2>4. QED
    BY <1>1, <2>2, <2>3, CallsStep, DerivationsStep, LiveBriefsStep DEF BridgeInv
<1>2. QED
  BY BridgeInvInit, <1>1, PTL DEF BridgeSpec

-----------------------------------------------------------------------------
(* The properties *)

(* Every variable has its type, whatever interleaving.                     *)
THEOREM BridgeTypes == BridgeSpec => []BridgeTypeOK
<1>1. BridgeInv => BridgeTypeOK
  BY DEF BridgeInv
<1>2. QED
  BY BridgeInvariance, <1>1, PTL

(* The bridge and the LIVE service implement governed synthesis.           *)
THEOREM BridgeImplements == BridgeSpec => SynthesisSpec
<1>1. BridgeInit => Init
  BY DEF BridgeInit
<1>2. BridgeInv /\ [BridgeNext]_liveVars => [Next]_vars
  BY StepsImplement
<1>3. QED
  BY <1>1, <1>2, BridgeInvariance, PTL DEF BridgeSpec, SynthesisSpec, Spec

(* A LIVE Brief leads back to the ingress to the moment.                   *)
THEOREM LiveBriefsLeadBack == BridgeSpec => []LiveBriefFromAdmissions
<1>1. ASSUME BridgeInv PROVE LiveBriefFromAdmissions
  <2>1. ASSUME NEW d \in Derivations, derivations[d] # Nothing
        PROVE  LET made == derivations[d] IN
                 /\ available[made.asks.baseline] = made.from /\ made.from # 0
                 /\ available[made.asks.current] = made.to /\ made.to # 0
                 /\ made.asks.revision = derived[d]
    BY <1>1, <2>1 DEF BridgeInv, DerivationOK
  <2>2. ASSUME NEW k \in SynthesisKeys, briefs[k] # Nothing
        PROVE  /\ derivations[briefs[k].request.derivation] # Nothing
               /\ derivations[briefs[k].request.derivation].asks.revision
                     = briefs[k].request.revision
               /\ \E w \in Runs \ Promoted : Request(w) = briefs[k].request
    <3> DEFINE r == briefs[k].request
    <3>1. /\ r \in Requests /\ derived[r.derivation] = r.revision
          /\ r.revision \in 1..Current
      BY <1>1, <2>2 DEF BridgeInv, IInv, BriefsOK, BriefOK, BriefOf, Briefs
    <3>2. r.derivation \in Derivations /\ r.revision \in Nat /\ r.revision # 0
      BY <3>1 DEF Requests
    <3>3. DerivationOK(r.derivation) /\ BriefIsLive(k)
      BY <1>1, <3>2 DEF BridgeInv
    <3>4. QED
      BY <2>2, <3>1, <3>2, <3>3 DEF DerivationOK, BriefIsLive
  <2>3. QED
    BY <2>1, <2>2 DEF LiveBriefFromAdmissions
<1>2. QED
  BY BridgeInvariance, <1>1, PTL

(* A derivation that was answered is answered alike for good.              *)
THEOREM DerivationsStay == BridgeSpec => []ReplayedDerivationIsHeld
<1>1. BridgeInv => ReplayedDerivationIsHeld
  BY DEF BridgeInv, CallOK, ReplayedDerivationIsHeld
<1>2. QED
  BY BridgeInvariance, <1>1, PTL

(* A LIVE Brief rests on its revision as every governed Brief does.        *)
THEOREM LiveBriefsRest == BridgeSpec => []BriefRestsOnItsRevision
  BY BridgeImplements, BriefsRest, PTL DEF SynthesisSpec

(* A LIVE Brief has cost one call, made for its own request.               *)
THEOREM LiveBriefsCostOneCall == BridgeSpec => []BriefFromOneCall
  BY BridgeImplements, BriefsCostOneCall, PTL DEF SynthesisSpec

(* A replay of a LIVE Brief needs its exact Pack and nothing else.         *)
THEOREM LiveReplaysSurvive == BridgeSpec => []ReplaySurvivesRollback
  BY BridgeImplements, ReplaysSurvive, PTL DEF SynthesisSpec
=============================================================================
