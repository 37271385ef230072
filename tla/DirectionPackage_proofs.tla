------------------------ MODULE DirectionPackage_proofs ------------------------
(***************************************************************************)
(* Proofs about MarketBuilder and DirectionPackage, for any starts, builds,*)
(* inventories, packages and direction material.                           *)
(*                                                                         *)
(* The host's stores only grow (Kept): an admission, a derivation and a    *)
(* first Brief stay what they are.  So whatever a start was answered stays *)
(* true (StartOK), a first Brief inherits it from the start that made it   *)
(* (BriefOK).  A package is named after a content that was validated,      *)
(* whatever it holds now, and so is what is made of it (PackageOK).        *)
(***************************************************************************)
EXTENDS DirectionPackage, FiniteSetTheorems, TLAPS

Underway == Working \cup {"answered"}
Paired == {"derive", "brief", "query", "answered"}
Informed == {"brief", "query", "answered"}
Briefed == {"query", "answered"}

(* What holds of a start, wherever it is.                                  *)
StartOK(w) ==
    /\ at[w] \in Underway =>
         /\ Authorized(w)
         /\ plans[Build(w)] # Nothing
         /\ pair[w] \in Shaped
    /\ at[w] \in Paired => pair[w] \in Progressing /\ pair[w] \in admitted[Build(w)]
    /\ at[w] \in Informed => attention[w] = DerivationRequest(w)
                             /\ Held(w) = DerivationRequest(w)
    /\ at[w] \in Briefed => firstBriefs[Build(w)] = FirstBriefRequest(w)
    /\ at[w] = "answered" /\ pages[w].whole => FirstBriefRequest(w) \in pages[w].briefs

DerivationOK(k) == derivations[k] # Nothing => DerivationOf(k, derivations[k])

(* The part of FirstBriefIsItsBuilds about one build.                      *)
BriefOK(b) ==
    firstBriefs[b] # Nothing =>
        LET brief == firstBriefs[b]
            derivation == derivations[<<"prepared_derivation", b>>]
        IN  /\ brief.attention = derivation
            /\ brief.attention.pair \in admitted[b]
            /\ brief.requested = brief.attention.evaluated
            /\ plans[b] # Nothing
            /\ \E w \in Starts :
                  /\ CallOf[w].build = b
                  /\ CallOf[w].subject = b
                  /\ CallOf[w].evaluated = brief.requested
                  /\ CallOf[w].expires > brief.requested
            /\ derivation # Nothing

PackageOK ==
    /\ \A p \in Packages : package[p] # Nothing => IsDirection(package[p].name)
    /\ \A h \in handoffs : h.artifact = h.of /\ IsDirection(h.of)
    /\ \A c \in mailbox : \E h \in handoffs : h.of = c

IInv ==
    /\ TypeOK
    /\ \A w \in Starts : StartOK(w)
    /\ \A k \in Keys : DerivationOK(k)
    /\ \A b \in Builds : BriefOK(b)
    /\ PackageOK

-----------------------------------------------------------------------------
(* Types *)

LEMMA CallTypes ==
    ASSUME NEW w \in Starts
    PROVE  /\ CallOf[w] \in Calls
           /\ Build(w) \in Builds
           /\ DerivationKey(w) \in Keys
           /\ DerivationKey(w)[2] = Build(w)
           /\ CallOf[w].evaluated \in Nat
BY BuilderAssumption DEF Calls, Build, DerivationKey, Keys

LEMMA RequestTypes ==
    ASSUME NEW w \in Starts, pair[w] \in Inventories
    PROVE  /\ DerivationRequest(w) \in Derivations
           /\ DerivationRequest(w) # Nothing
           /\ attention[w] \in Derivations =>
                /\ FirstBriefRequest(w) \in FirstBriefs
                /\ FirstBriefRequest(w) # Nothing
BY CallTypes, BuilderAssumption
DEF DerivationRequest, Derivations, FirstBriefRequest, FirstBriefs

(* What a start changes, one field of each store at most.                  *)
LEMMA StartSteps ==
    ASSUME NEW w \in Starts, Start(w) \/ HostCall(w) \/ Interrupt(w)
    PROVE  /\ UNCHANGED packVars
           /\ \E step \in Working \cup Ended : at' = [at EXCEPT ![w] = step]
           /\ \/ UNCHANGED pair
              \/ Start(w) /\ pair' = [pair EXCEPT ![w] = inventory]
           /\ \/ UNCHANGED admitted
              \/ Admit(w) /\ admitted' = [admitted EXCEPT ![Build(w)] =
                                              @ \cup {pair[w]}]
           /\ \/ UNCHANGED <<derivations, attention>>
              \/ /\ Derive(w) /\ Derived(w) /\ pair[w] \in Moving
                 /\ Held(w) \in {Nothing, DerivationRequest(w)}
           /\ \/ UNCHANGED firstBriefs
              \/ /\ CreateFirstBrief(w)
                 /\ firstBriefs[Build(w)] \in {Nothing, FirstBriefRequest(w)}
                 /\ firstBriefs' = [firstBriefs EXCEPT ![Build(w)] =
                                        FirstBriefRequest(w)]
           /\ UNCHANGED pages \/ Query(w)
<1>1. CASE Start(w)
  BY <1>1 DEF Start, GoTo, packVars, hostVars, Working, Ended
<1>2. CASE Admit(w)
  BY <1>2 DEF Admit, GoTo, packVars, Working, Ended
<1>3. CASE Derive(w)
  BY <1>3 DEF Derive, Derived, NotDerived, GoTo, packVars, Working, Ended
<1>4. CASE CreateFirstBrief(w)
  BY <1>4 DEF CreateFirstBrief, GoTo, packVars, Working, Ended
<1>5. CASE Query(w)
  BY <1>5 DEF Query, GoTo, packVars, hostVars, Working, Ended
<1>6. CASE Interrupt(w)
  BY <1>6 DEF Interrupt, GoTo, packVars, hostVars, Working, Ended
<1>7. QED
  BY <1>1, <1>2, <1>3, <1>4, <1>5, <1>6 DEF HostCall

(* The page of an answer: everything as of its time, or a part of it.      *)
LEMMA QueryAnswers ==
    ASSUME NEW w \in Starts, Query(w)
    PROVE  \E shown \in SUBSET AsOf(w), whole \in BOOLEAN :
              /\ whole => shown = AsOf(w)
              /\ ~whole => \E others \in Others :
                             ~(others + Cardinality(AsOf(w)) <= PageSize)
              /\ pages' = [pages EXCEPT ![w] = [briefs |-> shown, whole |-> whole]]
<1>1. PICK others \in Others, shown \in SUBSET AsOf(w) :
        LET whole == others + Cardinality(AsOf(w)) <= PageSize
        IN  /\ whole => shown = AsOf(w)
            /\ pages' = [pages EXCEPT ![w] = [briefs |-> shown, whole |-> whole]]
  BY DEF Query
<1> DEFINE whole == others + Cardinality(AsOf(w)) <= PageSize
<1>2. whole \in BOOLEAN
  OBVIOUS
<1>3. /\ whole => shown = AsOf(w)
      /\ ~whole => \E o \in Others : ~(o + Cardinality(AsOf(w)) <= PageSize)
      /\ pages' = [pages EXCEPT ![w] = [briefs |-> shown, whole |-> whole]]
  BY <1>1
<1> HIDE DEF whole
<1>4. QED
  BY <1>2, <1>3

LEMMA TypeStep ==
    ASSUME IInv, [Next]_vars
    PROVE  TypeOK'
<1>0. TypeOK /\ BuilderTypeOK
  BY DEF IInv, TypeOK
<1>1. ASSUME NEW w \in Starts, Start(w) \/ HostCall(w) \/ Interrupt(w),
             UNCHANGED directionVars
      PROVE  TypeOK'
  <2>1. /\ inventory' \in Inventories
        /\ plans' \in [Builds -> Inventories \cup {Nothing}]
        /\ at' \in [Starts -> {"idle"} \cup Working \cup Ended]
        /\ pair' \in [Starts -> Inventories \cup {Nothing}]
    BY <1>0, <1>1, StartSteps DEF BuilderTypeOK, packVars
  <2>2. /\ at[w] = "admit" => pair[w] \in Inventories
        /\ at[w] = "derive" => pair[w] \in Inventories
        /\ at[w] = "brief" => pair[w] \in Inventories
                              /\ attention[w] = DerivationRequest(w)
    BY BuilderAssumption DEF IInv, StartOK, Underway, Working, Informed
  <2>3. admitted' \in [Builds -> SUBSET Inventories]
    <3>1. CASE UNCHANGED admitted
      BY <1>0, <3>1 DEF BuilderTypeOK
    <3>2. CASE /\ at[w] = "admit"
               /\ admitted' = [admitted EXCEPT ![Build(w)] = @ \cup {pair[w]}]
      BY <1>0, <2>2, <3>2, CallTypes DEF BuilderTypeOK
    <3>3. QED
      BY <1>1, <3>1, <3>2, StartSteps DEF Admit
  <2>4. /\ derivations' \in [Keys -> Derivations \cup {Nothing}]
        /\ attention' \in [Starts -> Derivations \cup {Nothing}]
    <3>1. CASE UNCHANGED <<derivations, attention>>
      BY <1>0, <3>1 DEF BuilderTypeOK
    <3>2. CASE at[w] = "derive" /\ Derived(w)
      <4>1. DerivationRequest(w) \in Derivations
        BY <2>2, <3>2, RequestTypes
      <4>2. QED
        BY <1>0, <3>2, <4>1 DEF BuilderTypeOK, Derived
    <3>3. QED
      BY <1>1, <3>1, <3>2, StartSteps DEF Derive
  <2>5. firstBriefs' \in [Builds -> FirstBriefs \cup {Nothing}]
    <3>1. CASE UNCHANGED firstBriefs
      BY <1>0, <3>1 DEF BuilderTypeOK
    <3>2. CASE /\ at[w] = "brief"
               /\ firstBriefs' = [firstBriefs EXCEPT ![Build(w)] =
                                      FirstBriefRequest(w)]
      <4>1. FirstBriefRequest(w) \in FirstBriefs
        BY <2>2, <3>2, RequestTypes
      <4>2. QED
        BY <1>0, <3>2, <4>1 DEF BuilderTypeOK
    <3>3. QED
      BY <1>1, <3>1, <3>2, StartSteps DEF CreateFirstBrief
  <2>6. pages' \in [Starts -> Pages \cup {Nothing}]
    <3>1. CASE UNCHANGED pages
      BY <1>0, <3>1 DEF BuilderTypeOK
    <3>2. CASE Query(w)
      <4>1. AsOf(w) \subseteq FirstBriefs
        BY <1>0 DEF BuilderTypeOK, AsOf
      <4>2. PICK shown \in SUBSET AsOf(w), whole \in BOOLEAN :
              pages' = [pages EXCEPT ![w] = [briefs |-> shown, whole |-> whole]]
        BY <3>2, QueryAnswers
      <4>3. [briefs |-> shown, whole |-> whole] \in Pages
        BY <4>1 DEF Pages
      <4>4. QED
        BY <1>0, <4>2, <4>3 DEF BuilderTypeOK
    <3>3. QED
      BY <1>1, <3>1, <3>2, StartSteps
  <2>7. QED
    BY <1>0, <1>1, <2>1, <2>3, <2>4, <2>5, <2>6
    DEF TypeOK, BuilderTypeOK, directionVars
<1>2. ASSUME NEW i \in Inventories, InstallInventory(i), UNCHANGED directionVars
      PROVE  TypeOK'
  BY <1>0, <1>2 DEF InstallInventory, TypeOK, BuilderTypeOK, hostVars, startVars,
                    directionVars
<1>3. ASSUME NEW b \in Builds, Prepare(b), UNCHANGED directionVars
      PROVE  TypeOK'
  BY <1>0, <1>3 DEF Prepare, TypeOK, BuilderTypeOK, hostVars, startVars,
                    directionVars
<1>4. ASSUME UNCHANGED builderVars PROVE BuilderTypeOK'
  BY <1>0, <1>4 DEF BuilderTypeOK, builderVars, packVars, hostVars, startVars
<1>5. ASSUME NEW p \in Packages, Construct(p) PROVE TypeOK'
  BY <1>0, <1>4, <1>5 DEF Construct, TypeOK, PackageValues
<1>6. ASSUME NEW p \in Packages, CopyUnvalidated(p) PROVE TypeOK'
  <2>1. package[p] \in PackageValues
    BY <1>0, <1>6 DEF CopyUnvalidated, TypeOK
  <2>2. PICK c \in Contents : package' = [package EXCEPT ![p].content = c]
    BY <1>6 DEF CopyUnvalidated
  <2>3. [package[p] EXCEPT !.content = c] \in PackageValues
    BY <2>1 DEF PackageValues
  <2>4. package' \in [Packages -> PackageValues \cup {Nothing}]
    BY <1>0, <2>2, <2>3 DEF TypeOK
  <2>5. QED
    BY <1>0, <1>4, <1>6, <2>4 DEF CopyUnvalidated, TypeOK
<1>7. ASSUME NEW p \in Packages, PrepareDelivery(p) PROVE TypeOK'
  BY <1>0, <1>4, <1>7 DEF PrepareDelivery, TypeOK, PackageValues, Handoffs
<1>8. ASSUME NEW p \in Packages, Deliver(p) PROVE TypeOK'
  BY <1>0, <1>4, <1>8 DEF Deliver, TypeOK, Handoffs
<1>9. CASE UNCHANGED vars
  BY <1>0, <1>4, <1>9 DEF TypeOK, vars, directionVars
<1>10. QED
  BY <1>1, <1>2, <1>3, <1>5, <1>6, <1>7, <1>8, <1>9
  DEF Next, BuilderNext, DirectionNext

-----------------------------------------------------------------------------
(* What the host holds stays. *)

Kept ==
    /\ \A b \in Builds :
         /\ plans[b] # Nothing => plans'[b] # Nothing
         /\ admitted[b] \subseteq admitted'[b]
         /\ firstBriefs[b] # Nothing => firstBriefs'[b] = firstBriefs[b]
    /\ \A k \in Keys : derivations[k] # Nothing => derivations'[k] = derivations[k]

LEMMA StepsKeep ==
    ASSUME IInv, [Next]_vars
    PROVE  Kept
<1>0. BuilderTypeOK
  BY DEF IInv, TypeOK
<1>1. ASSUME NEW w \in Starts, Start(w) \/ HostCall(w) \/ Interrupt(w)
      PROVE  Kept
  <2>1. \A b \in Builds : plans[b] # Nothing => plans'[b] # Nothing
    BY <1>1, StartSteps DEF packVars
  <2>2. \A b \in Builds : admitted[b] \subseteq admitted'[b]
    BY <1>0, <1>1, StartSteps, CallTypes DEF BuilderTypeOK
  <2>3. \A b \in Builds :
           firstBriefs[b] # Nothing => firstBriefs'[b] = firstBriefs[b]
    BY <1>0, <1>1, StartSteps, CallTypes DEF BuilderTypeOK
  <2>4. \A k \in Keys :
           derivations[k] # Nothing => derivations'[k] = derivations[k]
    BY <1>0, <1>1, StartSteps, CallTypes DEF BuilderTypeOK, Derived, Held
  <2>5. QED
    BY <2>1, <2>2, <2>3, <2>4 DEF Kept
<1>2. ASSUME NEW i \in Inventories, InstallInventory(i) PROVE Kept
  BY <1>2 DEF InstallInventory, Kept, hostVars
<1>3. ASSUME NEW b \in Builds, Prepare(b) PROVE Kept
  BY <1>0, <1>3, BuilderAssumption DEF Prepare, Kept, hostVars, BuilderTypeOK
<1>4. CASE UNCHANGED builderVars
  BY <1>4 DEF Kept, builderVars, packVars, hostVars
<1>5. QED
  BY <1>1, <1>2, <1>3, <1>4
  DEF Next, BuilderNext, DirectionNext, Construct, CopyUnvalidated,
      PrepareDelivery, Deliver, vars

-----------------------------------------------------------------------------
(* The starts *)

(* A start keeps what it has checked while others move.                    *)
LEMMA StartFrame ==
    ASSUME IInv, Kept, NEW v \in Starts,
           at'[v] = at[v], pair'[v] = pair[v], attention'[v] = attention[v],
           pages'[v] = pages[v]
    PROVE  StartOK(v)'
<1>1. StartOK(v) /\ (pair[v] \in Shaped => pair[v] \in Inventories)
  BY BuilderAssumption DEF IInv
<1>2. DerivationRequest(v)' = DerivationRequest(v)
  BY DEF DerivationRequest, DerivationKey, Build
<1>3. FirstBriefRequest(v)' = FirstBriefRequest(v)
  BY DEF FirstBriefRequest, DerivationKey, Build
<1>4. at[v] \in Underway => plans'[Build(v)] # Nothing
  BY <1>1, CallTypes DEF StartOK, Kept
<1>5. at[v] \in Paired => pair[v] \in admitted'[Build(v)]
  BY <1>1, CallTypes DEF StartOK, Kept
<1>6. at[v] \in Informed => Held(v)' = Held(v)
  <2>1. at[v] \in Informed => Held(v) # Nothing
    BY <1>1, RequestTypes DEF StartOK, Informed, Underway, Working
  <2>2. QED
    BY <2>1, CallTypes DEF Kept, Held, DerivationKey, Build
<1>7. at[v] \in Briefed => firstBriefs'[Build(v)] = firstBriefs[Build(v)]
  <2>1. at[v] \in Briefed => firstBriefs[Build(v)] # Nothing
    <3>1. at[v] \in Briefed => /\ pair[v] \in Inventories
                              /\ attention[v] = DerivationRequest(v)
      BY <1>1 DEF StartOK, Informed, Briefed, Underway, Working
    <3>2. QED
      BY <1>1, <3>1, RequestTypes DEF StartOK
  <2>2. QED
    BY <2>1, CallTypes DEF Kept
<1>8. QED
  BY <1>1, <1>2, <1>3, <1>4, <1>5, <1>6, <1>7 DEF StartOK, Authorized, Build

(* A start's own step.                                                     *)
LEMMA OwnStep ==
    ASSUME IInv, Kept, NEW w \in Starts, Start(w) \/ HostCall(w) \/ Interrupt(w)
    PROVE  StartOK(w)'
<1>0. /\ BuilderTypeOK /\ StartOK(w)
      /\ pair[w] \in Shaped => pair[w] \in Inventories
  BY BuilderAssumption DEF IInv, TypeOK
<1>1. (at'[w] \notin Underway) => StartOK(w)'
  BY DEF StartOK, Underway, Working, Paired, Informed, Briefed
<1>2. CASE Start(w)
  <2>1. CASE Authorized(w) /\ inventory \in Shaped
    <3>1. at'[w] = "admit" /\ pair'[w] = inventory /\ plans' = plans
      BY <1>0, <1>2, <2>1 DEF Start, GoTo, BuilderTypeOK, packVars
    <3>2. plans[Build(w)] # Nothing
      BY <1>2 DEF Start
    <3>3. QED
      BY <2>1, <3>1, <3>2
      DEF StartOK, Paired, Informed, Briefed, Authorized, Build
  <2>2. CASE ~(Authorized(w) /\ inventory \in Shaped)
    BY <1>0, <1>1, <1>2, <2>2 DEF Start, GoTo, BuilderTypeOK, Underway, Working
  <2>3. QED
    BY <2>1, <2>2
<1>3. CASE Admit(w)
  <2>1. CASE at'[w] = "derive"
    <3>1. /\ pair[w] \in Progressing
          /\ admitted' = [admitted EXCEPT ![Build(w)] = @ \cup {pair[w]}]
          /\ pair' = pair /\ plans' = plans /\ at[w] = "admit"
      BY <1>0, <1>3, <2>1
      DEF Admit, GoTo, BuilderTypeOK, IsExactPair, packVars
    <3>2. pair[w] \in admitted'[Build(w)]
      BY <1>0, <3>1, CallTypes DEF BuilderTypeOK
    <3>3. Authorized(w) /\ plans[Build(w)] # Nothing /\ pair[w] \in Shaped
      BY <1>0, <3>1 DEF StartOK, Underway, Working
    <3>4. QED
      BY <2>1, <3>1, <3>2, <3>3 DEF StartOK, Informed, Briefed, Authorized, Build
  <2>2. CASE at'[w] # "derive"
    BY <1>0, <1>1, <1>3, <2>2 DEF Admit, GoTo, BuilderTypeOK, Underway, Working
  <2>3. QED
    BY <2>1, <2>2
<1>4. CASE Derive(w)
  <2>1. CASE Derived(w)
    <3>1. /\ at'[w] = "brief"
          /\ attention'[w] = DerivationRequest(w)
          /\ derivations'[DerivationKey(w)] = DerivationRequest(w)
      BY <1>0, <2>1, CallTypes DEF Derived, GoTo, BuilderTypeOK
    <3>2. pair' = pair /\ plans' = plans /\ admitted' = admitted /\ at[w] = "derive"
      BY <1>4 DEF Derive, packVars
    <3>3. DerivationRequest(w)' = DerivationRequest(w)
          /\ Held(w)' = DerivationRequest(w)
      BY <3>1, <3>2 DEF DerivationRequest, Held, DerivationKey, Build
    <3>4. /\ Authorized(w) /\ plans[Build(w)] # Nothing /\ pair[w] \in Shaped
          /\ pair[w] \in Progressing /\ pair[w] \in admitted[Build(w)]
      BY <1>0, <3>2 DEF StartOK, Underway, Working, Paired
    <3>5. QED
      BY <3>1, <3>2, <3>3, <3>4 DEF StartOK, Briefed, Authorized, Build
  <2>2. CASE ~Derived(w)
    BY <1>0, <1>1, <1>4, <2>2
    DEF Derive, NotDerived, GoTo, BuilderTypeOK, Underway, Working
  <2>3. QED
    BY <2>1, <2>2
<1>5. CASE CreateFirstBrief(w)
  <2>1. CASE at'[w] = "query"
    <3>1. /\ firstBriefs' = [firstBriefs EXCEPT ![Build(w)] = FirstBriefRequest(w)]
          /\ UNCHANGED <<plans, pair, attention, admitted, derivations>>
          /\ at[w] = "brief"
      BY <1>0, <1>5, <2>1 DEF CreateFirstBrief, GoTo, BuilderTypeOK, packVars
    <3>2. firstBriefs'[Build(w)] = FirstBriefRequest(w)
      BY <1>0, <3>1, CallTypes DEF BuilderTypeOK
    <3>3. /\ DerivationRequest(w)' = DerivationRequest(w)
          /\ FirstBriefRequest(w)' = FirstBriefRequest(w)
          /\ Held(w)' = Held(w)
      BY <3>1 DEF DerivationRequest, FirstBriefRequest, Held, DerivationKey, Build
    <3>4. /\ Authorized(w) /\ plans[Build(w)] # Nothing /\ pair[w] \in Shaped
          /\ pair[w] \in Progressing /\ pair[w] \in admitted[Build(w)]
          /\ attention[w] = DerivationRequest(w) /\ Held(w) = DerivationRequest(w)
      BY <1>0, <3>1 DEF StartOK, Underway, Working, Paired, Informed
    <3>5. QED
      BY <2>1, <3>1, <3>2, <3>3, <3>4 DEF StartOK, Authorized, Build
  <2>2. CASE at'[w] # "query"
    BY <1>0, <1>1, <1>5, <2>2
    DEF CreateFirstBrief, GoTo, BuilderTypeOK, Underway, Working
  <2>3. QED
    BY <2>1, <2>2
<1>6. CASE Query(w)
  <2>1. /\ at[w] = "query" /\ at'[w] = "answered"
        /\ UNCHANGED <<packVars, hostVars, pair, attention>>
    BY <1>0, <1>6 DEF Query, GoTo, BuilderTypeOK
  <2>2. /\ DerivationRequest(w)' = DerivationRequest(w)
        /\ FirstBriefRequest(w)' = FirstBriefRequest(w)
        /\ Held(w)' = Held(w)
    BY <2>1
    DEF DerivationRequest, FirstBriefRequest, Held, DerivationKey, Build, hostVars
  <2>3. /\ Authorized(w) /\ plans[Build(w)] # Nothing /\ pair[w] \in Shaped
        /\ pair[w] \in Progressing /\ pair[w] \in admitted[Build(w)]
        /\ attention[w] = DerivationRequest(w) /\ Held(w) = DerivationRequest(w)
        /\ firstBriefs[Build(w)] = FirstBriefRequest(w)
    BY <1>0, <2>1 DEF StartOK, Underway, Working, Paired, Informed, Briefed
  <2>4. pages'[w].whole => FirstBriefRequest(w) \in pages'[w].briefs
    <3>1. FirstBriefRequest(w) # Nothing
      BY <1>0, <2>3, RequestTypes
    <3>2. FirstBriefRequest(w).requested <= CallOf[w].evaluated
      BY CallTypes DEF FirstBriefRequest
    <3>3. FirstBriefRequest(w) \in {firstBriefs[b] : b \in Builds}
      BY <2>3, CallTypes
    <3>4. FirstBriefRequest(w) \in AsOf(w)
      BY <3>1, <3>2, <3>3 DEF AsOf
    <3>5. PICK shown \in SUBSET AsOf(w), whole \in BOOLEAN :
            /\ whole => shown = AsOf(w)
            /\ pages' = [pages EXCEPT ![w] = [briefs |-> shown, whole |-> whole]]
      BY <1>6, QueryAnswers
    <3>6. pages'[w] = [briefs |-> shown, whole |-> whole]
      BY <1>0, <3>5 DEF BuilderTypeOK
    <3>7. QED
      BY <3>4, <3>5, <3>6
  <2>5. QED
    BY <2>1, <2>2, <2>3, <2>4 DEF StartOK, Authorized, Build, packVars, hostVars
<1>7. CASE Interrupt(w)
  BY <1>0, <1>1, <1>7 DEF Interrupt, GoTo, BuilderTypeOK, Underway, Working
<1>8. QED
  BY <1>2, <1>3, <1>4, <1>5, <1>6, <1>7 DEF HostCall

LEMMA StartsStep ==
    ASSUME IInv, Kept, [Next]_vars, NEW v \in Starts
    PROVE  StartOK(v)'
<1>0. BuilderTypeOK
  BY DEF IInv, TypeOK
<1>1. ASSUME NEW w \in Starts, Start(w) \/ HostCall(w) \/ Interrupt(w)
      PROVE  StartOK(v)'
  <2>1. CASE v = w
    BY <1>1, <2>1, OwnStep
  <2>2. CASE v # w
    <3>1. at'[v] = at[v] /\ pair'[v] = pair[v] /\ attention'[v] = attention[v]
      BY <1>0, <1>1, <2>2, StartSteps DEF BuilderTypeOK, Derived
    <3>2. pages'[v] = pages[v]
      BY <1>0, <1>1, <2>2, StartSteps DEF BuilderTypeOK, Query
    <3>3. QED
      BY <3>1, <3>2, StartFrame
  <2>3. QED
    BY <2>1, <2>2
<1>2. CASE UNCHANGED startVars
  BY <1>2, StartFrame DEF startVars
<1>3. QED
  BY <1>1, <1>2
  DEF Next, BuilderNext, DirectionNext, Construct, CopyUnvalidated,
      PrepareDelivery, Deliver, vars, builderVars, InstallInventory, Prepare

-----------------------------------------------------------------------------
(* The stores and the packages *)

LEMMA DerivationStep ==
    ASSUME IInv, [Next]_vars, NEW k \in Keys
    PROVE  DerivationOK(k)'
<1>0. BuilderTypeOK /\ DerivationOK(k)
  BY DEF IInv, TypeOK
<1>1. CASE derivations'[k] = derivations[k]
  BY <1>0, <1>1 DEF DerivationOK, DerivationOf
<1>2. CASE derivations'[k] # derivations[k]
  <2>1. PICK w \in Starts : Derive(w) /\ Derived(w) /\ pair[w] \in Moving
    BY <1>2, StartSteps
    DEF Next, BuilderNext, DirectionNext, Construct, CopyUnvalidated,
        PrepareDelivery, Deliver, vars, builderVars, InstallInventory, Prepare,
        hostVars
  <2>2. k = DerivationKey(w) /\ derivations'[k] = DerivationRequest(w)
    BY <1>0, <1>2, <2>1, CallTypes DEF Derived, BuilderTypeOK
  <2>3. pair[w] \in Shaped /\ pair[w] \in Progressing
    BY <2>1 DEF Derive, IInv, StartOK, Underway, Working, Paired
  <2>4. DerivationRequest(w) \in Derivations
    BY <2>3, BuilderAssumption, RequestTypes
  <2>5. DerivationOf(k, DerivationRequest(w))
    <3>1. CallOf[w].build = k[2] /\ CallOf[w].evaluated = DerivationRequest(w).evaluated
      BY <2>2, CallTypes DEF Build, DerivationRequest
    <3>2. DerivationRequest(w).key = k /\ DerivationRequest(w).pair = pair[w]
      BY <2>2 DEF DerivationRequest
    <3>3. QED
      BY <2>1, <2>3, <2>4, <3>1, <3>2 DEF DerivationOf
  <2>6. QED
    BY <2>2, <2>5 DEF DerivationOK, DerivationOf
<1>3. QED
  BY <1>1, <1>2

(* A first Brief that stays is as well founded as it was.                  *)
LEMMA BriefFrame ==
    ASSUME IInv, Kept, NEW b \in Builds, firstBriefs'[b] = firstBriefs[b]
    PROVE  BriefOK(b)'
<1>1. BriefOK(b) /\ <<"prepared_derivation", b>> \in Keys
  BY DEF IInv, Keys
<1>2. /\ plans[b] # Nothing => plans'[b] # Nothing
      /\ admitted[b] \subseteq admitted'[b]
      /\ derivations[<<"prepared_derivation", b>>] # Nothing =>
           derivations'[<<"prepared_derivation", b>>]
              = derivations[<<"prepared_derivation", b>>]
  BY <1>1 DEF Kept
<1>3. QED
  BY <1>1, <1>2 DEF BriefOK

LEMMA BriefStep ==
    ASSUME IInv, Kept, [Next]_vars, NEW b \in Builds
    PROVE  BriefOK(b)'
<1>0. BuilderTypeOK
  BY DEF IInv, TypeOK
<1>1. CASE firstBriefs'[b] = firstBriefs[b]
  BY <1>1, BriefFrame
<1>2. CASE firstBriefs'[b] # firstBriefs[b]
  <2>1. PICK w \in Starts :
           /\ CreateFirstBrief(w)
           /\ firstBriefs' = [firstBriefs EXCEPT ![Build(w)] = FirstBriefRequest(w)]
    BY <1>2, StartSteps
    DEF Next, BuilderNext, DirectionNext, Construct, CopyUnvalidated,
        PrepareDelivery, Deliver, vars, builderVars, InstallInventory, Prepare,
        hostVars
  <2>2. b = Build(w) /\ firstBriefs'[b] = FirstBriefRequest(w)
    BY <1>0, <1>2, <2>1, CallTypes DEF BuilderTypeOK
  <2>3. at[w] = "brief" /\ UNCHANGED <<packVars, admitted, derivations>>
    BY <2>1 DEF CreateFirstBrief
  <2>4. /\ Authorized(w) /\ plans[b] # Nothing /\ pair[w] \in Shaped
        /\ pair[w] \in admitted[b]
        /\ attention[w] = DerivationRequest(w) /\ Held(w) = DerivationRequest(w)
    BY <2>2, <2>3 DEF IInv, StartOK, Underway, Working, Paired, Informed
  <2>5. DerivationRequest(w) # Nothing
    BY <2>4, BuilderAssumption, RequestTypes
  <2>6. /\ FirstBriefRequest(w).attention = DerivationRequest(w)
        /\ FirstBriefRequest(w).requested = CallOf[w].evaluated
        /\ DerivationRequest(w).pair = pair[w]
        /\ DerivationRequest(w).evaluated = CallOf[w].evaluated
    BY <2>4 DEF FirstBriefRequest, DerivationRequest
  <2>7. derivations'[<<"prepared_derivation", b>>] = DerivationRequest(w)
    BY <2>2, <2>3, <2>4 DEF Held, DerivationKey
  <2>8. /\ CallOf[w].build = b /\ CallOf[w].subject = b
        /\ CallOf[w].expires > CallOf[w].evaluated
    BY <2>2, <2>4 DEF Authorized, Build
  <2>9. QED
    BY <2>2, <2>3, <2>4, <2>5, <2>6, <2>7, <2>8 DEF BriefOK, packVars
<1>3. QED
  BY <1>1, <1>2

LEMMA PackageStep ==
    ASSUME IInv, [Next]_vars
    PROVE  PackageOK'
<1>0. TypeOK /\ PackageOK
  BY DEF IInv
<1>1. CASE UNCHANGED directionVars
  BY <1>0, <1>1 DEF PackageOK, directionVars
<1>2. ASSUME NEW p \in Packages, Construct(p) PROVE PackageOK'
  <2>1. PICK c \in Contents :
           /\ IsDirection(c)
           /\ package' = [package EXCEPT ![p] = [content |-> c, name |-> c]]
    BY <1>2 DEF Construct
  <2>2. \A q \in Packages : package'[q] # Nothing => IsDirection(package'[q].name)
    BY <1>0, <2>1 DEF TypeOK, PackageOK
  <2>3. QED
    BY <1>0, <1>2, <2>2 DEF PackageOK, Construct
<1>3. ASSUME NEW p \in Packages, CopyUnvalidated(p) PROVE PackageOK'
  <2>1. \A q \in Packages : package'[q] # Nothing =>
           package[q] # Nothing /\ package'[q].name = package[q].name
    <3>1. PICK c \in Contents : package' = [package EXCEPT ![p].content = c]
      BY <1>3 DEF CopyUnvalidated
    <3>2. package[p] # Nothing /\ package[p] \in PackageValues
      BY <1>0, <1>3 DEF CopyUnvalidated, TypeOK
    <3>3. QED
      BY <1>0, <3>1, <3>2 DEF TypeOK, PackageValues
  <2>2. \A q \in Packages : package'[q] # Nothing => IsDirection(package'[q].name)
    BY <1>0, <2>1 DEF PackageOK
  <2>3. QED
    BY <1>0, <1>3, <2>2 DEF PackageOK, CopyUnvalidated
<1>4. ASSUME NEW p \in Packages, PrepareDelivery(p) PROVE PackageOK'
  <2>1. /\ package[p] # Nothing /\ package[p].name = package[p].content
        /\ handoffs' = handoffs \cup {[of       |-> package[p].content,
                                       artifact |-> package[p].name]}
        /\ UNCHANGED <<package, mailbox>>
    BY <1>4 DEF PrepareDelivery
  <2>2. \A h \in handoffs' : h.artifact = h.of /\ IsDirection(h.of)
    BY <1>0, <1>4, <2>1 DEF PackageOK, PrepareDelivery
  <2>3. QED
    BY <1>0, <2>1, <2>2 DEF PackageOK
<1>5. ASSUME NEW p \in Packages, Deliver(p) PROVE PackageOK'
  <2>1. UNCHANGED <<package, handoffs>>
    BY <1>5 DEF Deliver
  <2>2. \A c \in mailbox' : \E h \in handoffs : h.of = c
    BY <1>0, <1>5 DEF PackageOK, Deliver
  <2>3. QED
    BY <1>0, <2>1, <2>2 DEF PackageOK
<1>6. QED
  BY <1>1, <1>2, <1>3, <1>4, <1>5 DEF Next, DirectionNext, vars

-----------------------------------------------------------------------------
(* Theorems *)

LEMMA InvariantInit == Init => IInv
<1> SUFFICES ASSUME Init PROVE IInv
  OBVIOUS
<1>1. TypeOK
  BY DEF Init, BuilderInit, TypeOK, BuilderTypeOK
<1>2. \A w \in Starts : StartOK(w)
  BY DEF Init, BuilderInit, StartOK, Underway, Working, Paired, Informed, Briefed
<1>3. (\A k \in Keys : DerivationOK(k)) /\ (\A b \in Builds : BriefOK(b))
  BY DEF Init, BuilderInit, DerivationOK, BriefOK
<1>4. PackageOK
  BY DEF Init, PackageOK
<1>5. QED
  BY <1>1, <1>2, <1>3, <1>4 DEF IInv

LEMMA InvariantStep == IInv /\ [Next]_vars => IInv'
<1> SUFFICES ASSUME IInv, [Next]_vars PROVE IInv'
  OBVIOUS
<1>1. TypeOK'
  BY TypeStep
<1>2. Kept
  BY StepsKeep
<1>3. \A w \in Starts : StartOK(w)'
  BY <1>2, StartsStep
<1>4. \A k \in Keys : DerivationOK(k)'
  BY DerivationStep
<1>5. \A b \in Builds : BriefOK(b)'
  BY <1>2, BriefStep
<1>6. PackageOK'
  BY PackageStep
<1>7. QED
  BY <1>1, <1>3, <1>4, <1>5, <1>6 DEF IInv

(* Whatever starts run, die and are repeated, and whatever is installed,   *)
(* planned, packaged and delivered meanwhile, the invariant holds.         *)
THEOREM Invariance == Spec => []IInv
BY InvariantInit, InvariantStep, PTL DEF Spec

(* executor.py, planner.py and direction_package.py keep to their types.   *)
THEOREM TypeCorrect == Spec => []TypeOK
<1>1. IInv => TypeOK
  BY DEF IInv
<1>2. QED
  BY <1>1, Invariance, PTL

(* The first Brief of every build rests on that build's own derivation,    *)
(* admission, plan and authority (executor.py, lines 185-217).             *)
THEOREM BriefsBelong == Spec => []FirstBriefIsItsBuilds
<1>1. IInv => FirstBriefIsItsBuilds
  BY DEF IInv, BriefOK, FirstBriefIsItsBuilds
<1>2. QED
  BY <1>1, Invariance, PTL

(* A start whose page was not cut shows there the first Brief it made or   *)
(* found (executor.py, lines 208-226).                                     *)
THEOREM AnswersShow == Spec => []AnsweredShowsOwnBrief
<1>1. ASSUME IInv, NEW w \in Starts, at[w] = "answered", pages[w].whole
      PROVE  \E brief \in pages[w].briefs :
                brief = firstBriefs[Build(w)] /\ brief.attention = attention[w]
  <2>1. StartOK(w)
    BY <1>1 DEF IInv
  <2>2. FirstBriefRequest(w) \in pages[w].briefs /\ firstBriefs[Build(w)] = FirstBriefRequest(w)
    BY <1>1, <2>1 DEF StartOK, Briefed
  <2>3. FirstBriefRequest(w).attention = attention[w]
    BY DEF FirstBriefRequest
  <2>4. QED
    BY <2>2, <2>3
<1>2. IInv => AnsweredShowsOwnBrief
  BY <1>1 DEF AnsweredShowsOwnBrief
<1>3. QED
  BY <1>2, Invariance, PTL

PageWhole(w) == at[w] = "answered" => pages[w].whole

LEMMA RoomyQuery ==
    ASSUME IsFiniteSet(Builds),
           \A others \in Others : others + Cardinality(Builds) <= PageSize,
           IInv, NEW w \in Starts, Query(w)
    PROVE  PageWhole(w)'
<1>0. BuilderTypeOK
  BY DEF IInv, TypeOK
<1> DEFINE Held1 == {firstBriefs[b] : b \in Builds}
<1>1. IsFiniteSet(Held1) /\ Cardinality(Held1) <= Cardinality(Builds)
  <2>1. firstBriefs \in Surjection(Builds, Held1)
    BY <1>0 DEF BuilderTypeOK, Surjection
  <2>2. QED
    BY <2>1, FS_Surjection
<1>2. IsFiniteSet(AsOf(w)) /\ Cardinality(AsOf(w)) <= Cardinality(Held1)
  <2>1. AsOf(w) \in SUBSET Held1
    BY DEF AsOf
  <2>2. QED
    BY <1>1, <2>1, FS_Subset
<1>3. /\ Cardinality(AsOf(w)) \in Nat
      /\ Cardinality(Held1) \in Nat
      /\ Cardinality(Builds) \in Nat
  BY <1>1, <1>2, FS_CardinalityType
<1>4. \A others \in Others : others + Cardinality(AsOf(w)) <= PageSize
  <2> SUFFICES ASSUME NEW others \in Others
               PROVE  others + Cardinality(AsOf(w)) <= PageSize
    OBVIOUS
  <2>1. others \in Nat /\ PageSize \in Nat
    BY BuilderAssumption
  <2>2. others + Cardinality(Builds) <= PageSize
    OBVIOUS
  <2> HIDE DEF Held1
  <2>3. QED
    BY <1>1, <1>2, <1>3, <2>1, <2>2
<1>5. PICK shown \in SUBSET AsOf(w), whole \in BOOLEAN :
        /\ ~whole => \E others \in Others :
                       ~(others + Cardinality(AsOf(w)) <= PageSize)
        /\ pages' = [pages EXCEPT ![w] = [briefs |-> shown, whole |-> whole]]
  BY QueryAnswers
<1>6. whole /\ pages'[w] = [briefs |-> shown, whole |-> whole]
  BY <1>0, <1>4, <1>5 DEF BuilderTypeOK
<1>7. QED
  BY <1>6 DEF PageWhole

(* Only a page can lack the Brief that is too small for what the product   *)
(* holds: where page_size (executor.py, line 225) exceeds the Briefs and   *)
(* the other resources a query may find, every answered start shows the    *)
(* first Brief of its build.                                               *)
THEOREM RoomyPageShows ==
    ASSUME IsFiniteSet(Builds),
           \A others \in Others : others + Cardinality(Builds) <= PageSize
    PROVE  Spec => [](\A w \in Starts : at[w] = "answered" =>
                         firstBriefs[Build(w)] \in pages[w].briefs)
<1> DEFINE AllWhole == \A w \in Starts : PageWhole(w)
           Shown == \A w \in Starts : at[w] = "answered" =>
                        firstBriefs[Build(w)] \in pages[w].briefs
<1>1. Init => AllWhole
  BY DEF Init, BuilderInit, PageWhole
<1>2. IInv /\ AllWhole /\ [Next]_vars => AllWhole'
  <2> SUFFICES ASSUME IInv, AllWhole, [Next]_vars, NEW v \in Starts
               PROVE  PageWhole(v)'
    OBVIOUS
  <2>0. BuilderTypeOK
    BY DEF IInv, TypeOK
  <2>1. ASSUME NEW w \in Starts, Start(w) \/ HostCall(w) \/ Interrupt(w)
        PROVE  PageWhole(v)'
    <3>1. CASE v # w
      <4>1. at'[v] = at[v] /\ pages'[v] = pages[v]
        BY <2>0, <2>1, <3>1, StartSteps DEF BuilderTypeOK, Query
      <4>2. QED
        BY <4>1 DEF PageWhole
    <3>2. CASE v = w /\ Query(w)
      BY <3>2, RoomyQuery
    <3>3. CASE v = w /\ ~Query(w)
      BY <2>0, <2>1, <3>3
      DEF HostCall, Start, Admit, Derive, Derived, NotDerived, CreateFirstBrief,
          Interrupt, GoTo, BuilderTypeOK, PageWhole
    <3>4. QED
      BY <3>1, <3>2, <3>3
  <2>2. CASE UNCHANGED startVars
    BY <2>2 DEF startVars, PageWhole
  <2>3. QED
    BY <2>1, <2>2
    DEF Next, BuilderNext, DirectionNext, Construct, CopyUnvalidated,
        PrepareDelivery, Deliver, vars, builderVars, InstallInventory, Prepare
<1>3. IInv /\ AllWhole => Shown
  <2> SUFFICES ASSUME IInv, AllWhole, NEW w \in Starts, at[w] = "answered"
               PROVE  firstBriefs[Build(w)] \in pages[w].briefs
    OBVIOUS
  <2>1. StartOK(w) /\ PageWhole(w)
    BY DEF IInv
  <2>2. QED
    BY <2>1 DEF StartOK, PageWhole, Briefed
<1> HIDE DEF AllWhole, Shown
<1>4. Spec => []Shown
  BY <1>1, <1>2, <1>3, Invariance, PTL DEF Spec
<1>5. QED
  BY <1>4 DEF Shown

(* What a destination acknowledges was validated and prepared as it is     *)
(* (direction_package.py, lines 123-161).                                  *)
THEOREM DeliveriesExact == Spec => []DeliveredIsExactDirection
<1>1. ASSUME IInv PROVE DeliveredIsExactDirection
  <2>1. \A h \in handoffs : h.artifact = h.of
    BY <1>1 DEF IInv, PackageOK
  <2>2. ASSUME NEW c \in mailbox
        PROVE  /\ \E h \in handoffs : h.of = c
               /\ IsDirection(c)
    BY <1>1 DEF IInv, PackageOK
  <2>3. ASSUME NEW c \in mailbox, NEW n \in DOMAIN c.claims
        PROVE  /\ c.claims[n].citations # <<>>
               /\ \A m \in DOMAIN c.claims :
                     c.claims[m].id = c.claims[n].id => m = n
    <3>1. IsDirection(c)
      BY <2>2
    <3>2. c.claims[n].citations # <<>>
      BY <3>1 DEF IsDirection, IsApprovedClaim, IsRequired
    <3>3. QED
      BY <3>1, <3>2 DEF IsDirection, IsInjective
  <2>4. ASSUME NEW c \in mailbox
        PROVE  /\ c.decisionContract = "ace.core.decision/v1alpha1"
               /\ c.claims # <<>> /\ c.section # <<>>
    BY <2>2 DEF IsDirection, IsRequired
  <2>5. QED
    BY <2>1, <2>2, <2>3, <2>4 DEF DeliveredIsExactDirection
<1>2. QED
  BY <1>1, Invariance, PTL

(* The derivations the host holds for the executor implement an append-    *)
(* only ledger of material price moves, one per build.                     *)
THEOREM LedgerRefinement == Spec => LedgerSpec
<1>1. Init => Ledger!Init
  BY DEF Init, BuilderInit, Ledger!Init
<1>2. ASSUME IInv, [Next]_vars PROVE [Ledger!Next]_derivations
  <2>0. BuilderTypeOK /\ BuilderTypeOK'
    BY <1>2, TypeStep DEF IInv, TypeOK
  <2>1. CASE derivations' = derivations
    BY <2>1
  <2>2. CASE derivations' # derivations
    <3>1. PICK w \in Starts : /\ Derive(w) /\ Derived(w)
                              /\ Held(w) \in {Nothing, DerivationRequest(w)}
      BY <1>2, <2>2, StartSteps
      DEF Next, BuilderNext, DirectionNext, Construct, CopyUnvalidated,
          PrepareDelivery, Deliver, vars, builderVars, InstallInventory,
          Prepare, hostVars
    <3>2. PICK k \in Keys : k = DerivationKey(w)
      BY CallTypes
    <3>3. /\ derivations' = [derivations EXCEPT ![k] = DerivationRequest(w)]
          /\ derivations[k] \in {Nothing, DerivationRequest(w)}
          /\ derivations'[k] = DerivationRequest(w)
      BY <2>0, <3>1, <3>2 DEF Derived, Held, BuilderTypeOK
    <3>4. derivations[k] = Nothing
      BY <2>0, <2>2, <3>3 DEF BuilderTypeOK
    <3>5. DerivationOK(k)'
      BY <1>2, DerivationStep
    <3>6. derivations'[k] # Nothing
      <4>1. pair[w] \in Shaped
        BY <1>2, <3>1 DEF Derive, IInv, StartOK, Underway, Working
      <4>2. QED
        BY <3>3, <4>1, BuilderAssumption, RequestTypes
    <3>7. DerivationOf(k, derivations'[k])
      BY <3>5, <3>6 DEF DerivationOK, DerivationOf
    <3>8. QED
      BY <3>3, <3>4, <3>7 DEF Ledger!Next, Ledger!Admit
  <2>3. QED
    BY <2>1, <2>2
<1>3. QED
  BY <1>1, <1>2, Invariance, PTL DEF Spec, LedgerSpec, Ledger!Spec

-----------------------------------------------------------------------------
(* Starts that are repeated *)

(* A first Brief is kept under its own build and key, and a conflict is    *)
(* about another request than the one the derivation was made for.         *)
NamedBrief(b) ==
    firstBriefs[b] # Nothing =>
        /\ firstBriefs[b].build = b
        /\ firstBriefs[b].key = <<"prepared_derivation", b>>

ChangedRequest(w) == Held(w) \notin {Nothing, DerivationRequest(w)}

RetryOK ==
    /\ \A b \in Builds : NamedBrief(b)
    /\ \A w \in Starts : at[w] = "conflict" => ChangedRequest(w)

(* A start moves by its own steps only.                                    *)
LEMMA OwnMoves ==
    ASSUME IInv, [Next]_vars, NEW v \in Starts
    PROVE  \/ Start(v) \/ HostCall(v) \/ Interrupt(v)
           \/ at'[v] = at[v] /\ pair'[v] = pair[v]
<1>0. BuilderTypeOK
  BY DEF IInv, TypeOK
<1>1. ASSUME NEW w \in Starts, Start(w) \/ HostCall(w) \/ Interrupt(w), w # v
      PROVE  at'[v] = at[v] /\ pair'[v] = pair[v]
  BY <1>0, <1>1, StartSteps DEF BuilderTypeOK
<1>2. CASE UNCHANGED startVars
  BY <1>2 DEF startVars
<1>3. QED
  BY <1>1, <1>2
  DEF Next, BuilderNext, DirectionNext, Construct, CopyUnvalidated,
      PrepareDelivery, Deliver, vars, builderVars, InstallInventory, Prepare

LEMMA NamedBriefStep ==
    ASSUME IInv, RetryOK, [Next]_vars, NEW b \in Builds
    PROVE  NamedBrief(b)'
<1>0. BuilderTypeOK /\ NamedBrief(b)
  BY DEF IInv, TypeOK, RetryOK
<1>1. CASE firstBriefs'[b] = firstBriefs[b]
  BY <1>0, <1>1 DEF NamedBrief
<1>2. CASE firstBriefs'[b] # firstBriefs[b]
  <2>1. PICK w \in Starts :
           firstBriefs' = [firstBriefs EXCEPT ![Build(w)] = FirstBriefRequest(w)]
    BY <1>2, StartSteps
    DEF Next, BuilderNext, DirectionNext, Construct, CopyUnvalidated,
        PrepareDelivery, Deliver, vars, builderVars, InstallInventory, Prepare,
        hostVars
  <2>2. b = Build(w) /\ firstBriefs'[b] = FirstBriefRequest(w)
    BY <1>0, <1>2, <2>1, CallTypes DEF BuilderTypeOK
  <2>3. QED
    BY <2>2 DEF NamedBrief, FirstBriefRequest, DerivationKey
<1>3. QED
  BY <1>1, <1>2

(* The host makes the first Brief of a start whose derivation stands, or   *)
(* has made the very same one before: what is there rests on the one       *)
(* derivation of the build, which is this start's.                         *)
LEMMA SameBriefAnswers ==
    ASSUME IInv, RetryOK, NEW w \in Starts, at[w] = "brief"
    PROVE  firstBriefs[Build(w)] \in {Nothing, FirstBriefRequest(w)}
<1> DEFINE brief == firstBriefs[Build(w)]
<1>1. SUFFICES ASSUME brief # Nothing
               PROVE  brief = FirstBriefRequest(w)
  OBVIOUS
<1>2. /\ BriefOK(Build(w)) /\ NamedBrief(Build(w)) /\ StartOK(w)
      /\ brief \in FirstBriefs
  BY <1>1, CallTypes DEF IInv, RetryOK, TypeOK, BuilderTypeOK
<1>3. /\ attention[w] = DerivationRequest(w)
      /\ derivations[DerivationKey(w)] = DerivationRequest(w)
  BY <1>2 DEF StartOK, Informed, Held
<1>4. /\ brief.attention = attention[w]
      /\ brief.requested = CallOf[w].evaluated
      /\ brief.build = Build(w)
      /\ brief.key = DerivationKey(w)
  BY <1>1, <1>2, <1>3 DEF BriefOK, NamedBrief, DerivationKey, DerivationRequest
<1>5. QED
  BY <1>2, <1>4 DEF FirstBriefs, FirstBriefRequest

(* The derivation a start asks for again is that of a material move.       *)
LEMMA HeldMoves ==
    ASSUME IInv, NEW w \in Starts, Held(w) = DerivationRequest(w), at[w] = "derive"
    PROVE  pair[w] \in Moving
<1>1. pair[w] \in Inventories
  BY BuilderAssumption DEF IInv, StartOK, Underway, Working
<1>2. DerivationOf(DerivationKey(w), Held(w))
  BY <1>1, CallTypes, RequestTypes DEF IInv, DerivationOK, Held
<1>3. QED
  BY <1>2 DEF DerivationOf, DerivationRequest

LEMMA ConflictStep ==
    ASSUME IInv, RetryOK, Kept, [Next]_vars, NEW w \in Starts, at'[w] = "conflict"
    PROVE  ChangedRequest(w)'
<1>0. BuilderTypeOK
  BY DEF IInv, TypeOK
<1>1. DerivationRequest(w)' = DerivationRequest(w) \/ pair'[w] # pair[w]
  BY DEF DerivationRequest, DerivationKey, Build
<1>2. Held(w) # Nothing => Held(w)' = Held(w)
  BY CallTypes DEF Kept, Held, DerivationKey, Build
<1>3. CASE Start(w) \/ Interrupt(w) \/ Admit(w) \/ Query(w)
  BY <1>0, <1>3 DEF Start, Interrupt, Admit, Query, GoTo, BuilderTypeOK
<1>4. CASE Derive(w)
  BY <1>0, <1>1, <1>2, <1>4
  DEF Derive, Derived, NotDerived, GoTo, BuilderTypeOK, ChangedRequest
<1>5. CASE CreateFirstBrief(w)
  BY <1>0, <1>5, SameBriefAnswers DEF CreateFirstBrief, GoTo, BuilderTypeOK
<1>6. CASE at'[w] = at[w] /\ pair'[w] = pair[w]
  BY <1>1, <1>2, <1>6 DEF RetryOK, ChangedRequest
<1>7. QED
  BY <1>3, <1>4, <1>5, <1>6, OwnMoves DEF HostCall

LEMMA RetryInvariance == Spec => [](IInv /\ RetryOK)
<1>1. Init => RetryOK
  BY DEF Init, BuilderInit, RetryOK, NamedBrief
<1>2. IInv /\ RetryOK /\ [Next]_vars => RetryOK'
  <2> SUFFICES ASSUME IInv, RetryOK, [Next]_vars PROVE RetryOK'
    OBVIOUS
  <2>1. Kept
    BY StepsKeep
  <2>2. \A b \in Builds : NamedBrief(b)'
    BY NamedBriefStep
  <2>3. \A w \in Starts : at'[w] = "conflict" => ChangedRequest(w)'
    BY <2>1, ConflictStep
  <2>4. QED
    BY <2>2, <2>3 DEF RetryOK
<1>3. QED
  BY <1>1, <1>2, Invariance, PTL DEF Spec

(* Every conflict is the caller's: a start that ends in one had asked for  *)
(* something else than what its build's derivation was made for, and none  *)
(* is due to an earlier start that died half-way (executor.py, lines       *)
(* 178-217, where either host call may answer with a conflict).            *)
THEOREM ConflictsAreChanges ==
    Spec => [](\A w \in Starts :
                  at[w] = "conflict" => Held(w) \notin {Nothing, DerivationRequest(w)})
<1>1. RetryOK => \A w \in Starts :
                    at[w] = "conflict" => Held(w) \notin {Nothing, DerivationRequest(w)}
  BY DEF RetryOK, ChangedRequest
<1>2. QED
  BY <1>1, RetryInvariance, PTL

(* Where a repeated start stands whose derivation is held.                 *)
Repeats(w) == at[w] = "derive" /\ derivations[DerivationKey(w)] = DerivationRequest(w)

(* A start that repeats stays where it is or dies, until its host call     *)
(* takes it to the next one: no call of the three has another answer.      *)
LEMMA RepeatSteps ==
    ASSUME IInv, RetryOK, [Next]_vars, NEW w \in Starts
    PROVE  /\ Repeats(w) => Repeats(w)' \/ at'[w] \in {"brief", "interrupted"}
           /\ at[w] = "brief" => at'[w] \in {"brief", "query", "interrupted"}
           /\ at[w] = "query" => at'[w] \in {"query", "answered", "interrupted"}
           /\ Repeats(w) /\ GoesOn(w) => at'[w] = "brief"
           /\ at[w] = "brief" /\ GoesOn(w) => at'[w] = "query"
           /\ at[w] = "query" /\ GoesOn(w) => at'[w] = "answered"
<1>0. BuilderTypeOK /\ Kept
  BY StepsKeep DEF IInv, TypeOK
<1>1. Repeats(w) => Held(w) = DerivationRequest(w) /\ pair[w] \in Moving
                    /\ pair[w] \in Inventories
  BY HeldMoves, BuilderAssumption
  DEF Repeats, Held, IInv, StartOK, Underway, Working
<1>2. ASSUME HostCall(w)
      PROVE  /\ Repeats(w) => at'[w] = "brief"
             /\ at[w] = "brief" => at'[w] = "query"
             /\ at[w] = "query" => at'[w] = "answered"
  <2>1. CASE Admit(w)
    BY <2>1 DEF Admit, Repeats
  <2>2. CASE Derive(w)
    BY <1>0, <1>1, <2>2, RequestTypes
    DEF Derive, Derived, NotDerived, GoTo, BuilderTypeOK, Repeats
  <2>3. CASE CreateFirstBrief(w)
    BY <1>0, <2>3, SameBriefAnswers
    DEF CreateFirstBrief, GoTo, BuilderTypeOK, Repeats
  <2>4. CASE Query(w)
    BY <1>0, <2>4 DEF Query, GoTo, BuilderTypeOK, Repeats
  <2>5. QED
    BY <1>2, <2>1, <2>2, <2>3, <2>4 DEF HostCall
<1>3. CASE Start(w)
  BY <1>2, <1>3 DEF Start, Repeats, GoesOn
<1>4. CASE Interrupt(w)
  BY <1>0, <1>2, <1>4 DEF Interrupt, GoTo, BuilderTypeOK, GoesOn, Repeats
<1>5. CASE at'[w] = at[w] /\ pair'[w] = pair[w]
  <2>1. DerivationRequest(w)' = DerivationRequest(w)
    BY <1>5 DEF DerivationRequest, DerivationKey, Build
  <2>2. Held(w) # Nothing => Held(w)' = Held(w)
    BY <1>0, CallTypes DEF Kept, Held, DerivationKey, Build
  <2>3. Repeats(w) => Repeats(w)'
    BY <1>1, <1>5, <2>1, <2>2, RequestTypes DEF Repeats, Held, DerivationKey, Build
  <2>4. QED
    BY <1>2, <1>5, <2>3 DEF GoesOn
<1>6. CASE HostCall(w)
  BY <1>2, <1>6 DEF GoesOn
<1>7. QED
  BY <1>3, <1>4, <1>5, <1>6, OwnMoves

(* One repeated start gets through, if it goes on and can.                 *)
LEMMA RepeatEnds ==
    ASSUME NEW w \in Starts
    PROVE  Spec /\ KeepsGoing(w) /\ [](at[w] \in Working => ENABLED <<GoesOn(w)>>_vars)
             => (Repeats(w) ~> at[w] \in {"answered", "interrupted"})
<1> DEFINE Ends == at[w] \in {"answered", "interrupted"}
           P1 == Repeats(w)
           P2 == at[w] = "brief"
           P3 == at[w] = "query"
           Can == ENABLED <<GoesOn(w)>>_vars
<1>1. IInv /\ RetryOK /\ [Next]_vars =>
         /\ P1 => P1' \/ P2' \/ Ends'
         /\ P2 => P2' \/ P3' \/ Ends'
         /\ P3 => P3' \/ Ends'
  BY RepeatSteps
<1>2. IInv /\ RetryOK /\ [Next]_vars /\ <<GoesOn(w)>>_vars =>
         (P1 => P2') /\ (P2 => P3') /\ (P3 => Ends')
  BY RepeatSteps
<1>3. P1 \/ P2 \/ P3 => at[w] \in Working
  BY DEF Repeats, Working
<1> HIDE DEF Ends, P1, P2, P3
<1>4. QED
  BY <1>1, <1>2, <1>3, RetryInvariance, PTL DEF Spec, KeepsGoing, Ends, P1

(* A start that runs always has a next step.  That is so by the shape of   *)
(* the steps, in which the host answers or refuses; no prover here unfolds *)
(* ENABLED, so it is a hypothesis of the theorem that follows.             *)
StartsCanGoOn ==
    \A w \in Starts : at[w] \in Working => ENABLED <<GoesOn(w)>>_vars

(* Repeating a start that died between its calls gets it through to its    *)
(* page, if starts are fair and one that runs always has a next step       *)
(* (executor.py, lines 178-226).                                           *)
THEOREM RetriesComplete == FairSpec /\ []StartsCanGoOn => RetryCompletes
<1> SUFFICES ASSUME NEW w \in Starts
             PROVE  FairSpec /\ []StartsCanGoOn
                      => (Repeats(w) ~> at[w] \in {"answered", "interrupted"})
  BY DEF RetryCompletes, Repeats
<1>1. Fairness => KeepsGoing(w)
  BY DEF Fairness
<1>2. StartsCanGoOn => (at[w] \in Working => ENABLED <<GoesOn(w)>>_vars)
  BY DEF StartsCanGoOn
<1>3. QED
  BY <1>1, <1>2, RepeatEnds, PTL DEF FairSpec

=============================================================================
