------------------------------ MODULE LiveBridge ------------------------------
(***************************************************************************)
(* From live admissions to a LIVE Brief: the composition that              *)
(* scripts/p1f_live_intelligence_bridge_acceptance.py runs.  Two snapshots *)
(* are admitted by the live source ingress; the bridge derives a Shift and *)
(* a Signal from their exact coordinates, once per derivation key; the     *)
(* synthesis service makes a Brief from the derivation, as BriefSynthesis  *)
(* has it, and refuses a request of the PREPARED mode.  A bridge that is   *)
(* built anew on the same stores answers the same request with the same    *)
(* derivation.                                                             *)
(*                                                                         *)
(* The bridge belongs to ace-core, which is not in this repository: its    *)
(* steps are marked (external) and follow run_acceptance and               *)
(* run_negative_cases.  What it resolves for its own capability, grant and *)
(* configuration are the heads set once by the script and never moved.     *)
(***************************************************************************)
EXTENDS BriefSynthesis, FiniteSets

CONSTANTS
    Bridges,        \* calls of derive
    Snapshots,      \* entity snapshots the ingress may admit
    DeriveRequest,  \* what a call asks for, but for the coordinates
    Forged,         \* calls that name another time for their snapshot
    BridgePack,     \* the Pack a call's bridge is built with
    Promoted        \* Brief requests of the PREPARED mode

(* `requested` stands for what else the digest of a request covers.        *)
DeriveAsks == [derivation : Derivations,
               baseline   : Snapshots,
               current    : Snapshots,
               revision   : Nat,
               requested  : Nat]

(* A request: what is asked for, and when its snapshots became available.  *)
DeriveRequests == [asks : DeriveAsks, from : Nat, to : Nat]

ASSUME BridgeAssumption ==
    /\ DeriveRequest \in [Bridges -> DeriveAsks]
    /\ Forged \subseteq Bridges
    /\ BridgePack \in [Bridges -> Packs]
    /\ IsFiniteSet(Snapshots)
    /\ Promoted \subseteq Runs
    /\ Nothing \notin DeriveRequests

VARIABLES
    available,      \* when a snapshot became available, 0 if not admitted
    step,           \* where a call of derive is
    asked,          \* the request of a call, once it was made
    derivations,    \* the request a derivation key was derived for
    promotions      \* the PREPARED requests the LIVE service has refused

bridgeVars == <<available, step, asked, derivations, promotions>>
liveVars == <<vars, bridgeVars>>

Deriving == {"activation", "coordinates", "authorize", "append"}
Derived == {"derived", "replayed", "conflict", "refused", "interrupted"}

BridgeTypeOK ==
    /\ TypeOK
    /\ available \in [Snapshots -> Nat]
    /\ step \in [Bridges -> {"idle"} \cup Deriving \cup Derived]
    /\ asked \in [Bridges -> DeriveRequests \cup {Nothing}]
    /\ derivations \in [Derivations -> DeriveRequests \cup {Nothing}]
    /\ promotions \subseteq Promoted

BridgeInit ==
    /\ Init
    /\ available = [s \in Snapshots |-> 0]
    /\ step = [x \in Bridges |-> "idle"]
    /\ asked = [x \in Bridges |-> Nothing]
    /\ derivations = [d \in Derivations |-> Nothing]
    /\ promotions = {}

-----------------------------------------------------------------------------

(* The ingress admits a snapshot once; its envelope is dated, a later one  *)
(* with a later time.                                                      *)
AdmitSnapshot(s) ==
    /\ available[s] = 0
    /\ available' = [available EXCEPT ![s] =
                        1 + Cardinality({o \in Snapshots : available[o] # 0})]
    /\ UNCHANGED <<vars, step, asked, derivations, promotions>>

Held(x) == derivations[DeriveRequest[x].derivation]

(* The caller has both admissions and takes their coordinates, the forger  *)
(* a later time for the second.                                            *)
Coordinates(x) ==
    LET asks == DeriveRequest[x] IN
        [asks |-> asks,
         from |-> available[asks.baseline],
         to   |-> available[asks.current] + IF x \in Forged THEN 1 ELSE 0]

BridgeGoTo(x, to) == step' = [step EXCEPT ![x] = to]

(* Fault: a key that is held is answered whoever asks.                     *)
AskWhatever(x) ==
    /\ step[x] = "idle"
    /\ available[DeriveRequest[x].baseline] # 0
    /\ available[DeriveRequest[x].current] # 0
    /\ asked' = [asked EXCEPT ![x] = Coordinates(x)]
    /\ BridgeGoTo(x, IF Held(x) = Nothing THEN "activation" ELSE "replayed")
    /\ UNCHANGED <<vars, available, derivations, promotions>>

(* (external) The bridge first looks for a derivation under the key.       *)
Ask(x) ==
    /\ step[x] = "idle"
    /\ available[DeriveRequest[x].baseline] # 0
    /\ available[DeriveRequest[x].current] # 0
    /\ asked' = [asked EXCEPT ![x] = Coordinates(x)]
    /\ \/ Held(x) = Nothing /\ BridgeGoTo(x, "activation")
       \/ Held(x) = Coordinates(x) /\ BridgeGoTo(x, "replayed")
       \/ Held(x) \notin {Nothing, Coordinates(x)} /\ BridgeGoTo(x, "conflict")
    /\ UNCHANGED <<vars, available, derivations, promotions>>

(* A step of a derivation that only decides whether to go on.              *)
DecideDerive(x, from, accepted, to) ==
    /\ step[x] = from
    /\ \/ accepted /\ BridgeGoTo(x, to)
       \/ ~accepted /\ BridgeGoTo(x, "refused")
    /\ UNCHANGED <<vars, available, asked, derivations, promotions>>

(* The request must bind the current committed activation and its Pack.    *)
LoadDeriveHead(x) ==
    DecideDerive(x, "activation",
                 /\ DeriveRequest[x].revision = Current
                 /\ BridgePack[x] = lineage[Current].pack,
                 "coordinates")

(* Fault: a snapshot is taken by its id, whenever it became available.     *)
LoadSnapshots(x) ==
    DecideDerive(x, "coordinates",
                 /\ available[DeriveRequest[x].baseline] # 0
                 /\ available[DeriveRequest[x].current] # 0,
                 "authorize")

(* (external) Both coordinates must be those of the admission, to the time.*)
LoadCoordinates(x) ==
    DecideDerive(x, "coordinates",
                 /\ asked[x].from = available[DeriveRequest[x].baseline]
                 /\ asked[x].to = available[DeriveRequest[x].current],
                 "authorize")

(* ExactRuntimeUse answers for the two bindings it has, whatever is asked. *)
AuthorizeDerive(x) ==
    /\ step[x] = "authorize"
    /\ BridgeGoTo(x, "append")
    /\ UNCHANGED <<vars, available, asked, derivations, promotions>>

(* Fault: the append has no precondition, on a head or on the key.         *)
AppendUnconditionally(x) ==
    LET key == DeriveRequest[x].derivation IN
        /\ step[x] = "append"
        /\ derivations' = [derivations EXCEPT ![key] = asked[x]]
        /\ derived' = [derived EXCEPT ![key] = installed]
        /\ BridgeGoTo(x, "derived")
        /\ UNCHANGED <<lineageVars, at, existing, calls, reasoning, briefs,
                       returned, available, asked, promotions>>

(* (external) Shift, Signal and attention receipt are appended in one      *)
(* transaction whose preconditions include the head of the activation.     *)
AppendDerivation(x) ==
    LET key == DeriveRequest[x].derivation IN
        /\ step[x] = "append"
        /\ \/ /\ Held(x) = Nothing
              /\ installed = DeriveRequest[x].revision
              /\ derivations' = [derivations EXCEPT ![key] = asked[x]]
              /\ derived' = [derived EXCEPT ![key] = DeriveRequest[x].revision]
              /\ BridgeGoTo(x, "derived")
           \/ /\ Held(x) # Nothing \/ installed # DeriveRequest[x].revision
              /\ BridgeGoTo(x, "refused")
              /\ UNCHANGED <<derivations, derived>>
        /\ UNCHANGED <<lineageVars, at, existing, calls, reasoning, briefs,
                       returned, available, asked, promotions>>

(* A call dies; a bridge built anew may be asked again.                    *)
InterruptDerive(x) ==
    /\ step[x] \in Deriving
    /\ BridgeGoTo(x, "interrupted")
    /\ UNCHANGED <<vars, available, asked, derivations, promotions>>

(* Fault: the LIVE service takes the mode of a request the wrong way round.*)
SynthesizePrepared(w) ==
    \/ w \in Promoted /\ Step(w) /\ UNCHANGED bridgeVars
    \/ /\ w \notin Promoted \cup promotions
       /\ promotions' = promotions \cup {w}
       /\ UNCHANGED <<vars, available, step, asked, derivations>>

(* (external) The LIVE service refuses a PREPARED request before anything. *)
SynthesizeLive(w) ==
    \/ w \notin Promoted /\ Step(w) /\ UNCHANGED bridgeVars
    \/ /\ w \in Promoted \ promotions
       /\ promotions' = promotions \cup {w}
       /\ UNCHANGED <<vars, available, step, asked, derivations>>

Bridge(x) ==
    \/ Ask(x)
    \/ LoadDeriveHead(x)
    \/ LoadCoordinates(x)
    \/ AuthorizeDerive(x)
    \/ AppendDerivation(x)
    \/ InterruptDerive(x)

BridgeNext ==
    \/ \E s \in Snapshots : AdmitSnapshot(s)
    \/ \E x \in Bridges : Bridge(x)
    \/ \E w \in Runs : SynthesizeLive(w)
    \/ LineageNext /\ UNCHANGED <<synthesisVars, bridgeVars>>

BridgeSpec == BridgeInit /\ [][BridgeNext]_liveVars

-----------------------------------------------------------------------------
(* Properties *)

(* The bridge and the LIVE service together are a governed synthesis over  *)
(* derivations that a committed activation has admitted: all that holds of *)
(* a Brief of BriefSynthesis holds of a LIVE one.                          *)
SynthesisSpec == Spec

(* A LIVE Brief leads back to the ingress to the moment: its derivation    *)
(* was made from snapshots that became available exactly then, under the   *)
(* revision that the Brief binds too, and for no request of another mode.  *)
LiveBriefFromAdmissions ==
    /\ \A d \in Derivations : derivations[d] # Nothing =>
          LET made == derivations[d] IN
              /\ available[made.asks.baseline] = made.from /\ made.from # 0
              /\ available[made.asks.current] = made.to /\ made.to # 0
              /\ made.asks.revision = derived[d]
    /\ \A k \in SynthesisKeys : briefs[k] # Nothing =>
          /\ derivations[briefs[k].request.derivation] # Nothing
          /\ derivations[briefs[k].request.derivation].asks.revision
                = briefs[k].request.revision
          /\ \E w \in Runs \ Promoted : Request(w) = briefs[k].request

(* A derivation that was answered is answered alike for good: to the call  *)
(* that made it and to every bridge built anew, and never to a call that   *)
(* asks for something else.                                                *)
ReplayedDerivationIsHeld ==
    \A x \in Bridges : step[x] \in {"derived", "replayed"} => asked[x] = Held(x)
=============================================================================
