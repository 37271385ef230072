---------------------------- MODULE BriefSynthesis ----------------------------
(***************************************************************************)
(* Governed synthesis of a routed PREPARED Brief:                          *)
(* scripts/p1d1_prepared_brief_acceptance.py.  Derivations are admitted    *)
(* under a committed activation; a run of the synthesis service answers    *)
(* one request, either with the Brief its synthesis key already holds, for *)
(* which it needs the exact Pack of the Brief's own activation revision    *)
(* but neither the current activation nor the provider, or with a fresh    *)
(* one: the request must bind the current activation, the provider is      *)
(* called, and the Brief with its receipt is appended if the record store  *)
(* still has that activation as its head.  All calls are awaited.          *)
(*                                                                         *)
(* The service and the record store belong to ace-core, which is not in    *)
(* this repository; their steps are marked (external) and follow           *)
(* run_positive, the pinned negative cases and the pinned receipts of      *)
(* conformance/compatibility/core_0_8_3.                                   *)
(***************************************************************************)
EXTENDS ActivationLineage

CONSTANTS
    Runs,           \* runs of the synthesis service
    SynthesisKeys,
    AttemptKeys,
    Derivations,    \* derivation keys
    Prebuilt,       \* derivations whose batch already contains a Brief
    RequestOf,      \* the request of a run
    ServicePack,    \* the Pack a run's service is configured with
    Archive,        \* what its Pack resolver answers, where it answers
    Provider,       \* the draft its provider answers with, or "forbidden"
    Nothing

(* `attention` is the derivation whose attention receipt a request names   *)
(* exactly, or Nothing (another digest, another time).                     *)
Requests == [synthesis  : SynthesisKeys,
             attempt    : AttemptKeys,
             derivation : Derivations,
             attention  : Derivations \cup {Nothing},
             revision   : Nat,
             pack       : Packs]

(* The drafts of FixtureProvider: the reviewed one and its mutations.      *)
Mutations == {"wrong_provider_brief_type", "wrong_provider_persona",
              "missing_required_section", "reordered_required_sections",
              "cited_claim_non_observation_support", "unknown_support",
              "unused_selected_support"}

Drafts == Mutations \cup {"exact"}

ASSUME SynthesisAssumption ==
    /\ Prebuilt \subseteq Derivations
    /\ RequestOf \in [Runs -> Requests]
    /\ ServicePack \in [Runs -> Packs]
    /\ Archive \in [Runs -> UNION {[S -> Packs] : S \in SUBSET Packs}]
    /\ Provider \in [Runs -> Drafts \cup {"forbidden"}]
    /\ Nothing \notin Derivations \cup Drafts
    /\ Nothing \notin [request : Requests, draft : Drafts \cup {Nothing}]
    /\ Nothing \notin [request : Requests, pack : Packs, draft : Drafts,
                       under : Nat]

VARIABLES
    derived,        \* the revision under which a derivation was admitted, or 0
    at,             \* where a run is
    existing,       \* did the run find its own request answered?
    calls,          \* how often the run called its provider
    reasoning,      \* what the record store holds of an attempt
    briefs,         \* the Brief every synthesis key holds
    returned        \* the Brief a run has returned

synthesisVars == <<derived, at, existing, calls, reasoning, briefs, returned>>
vars == <<lineageVars, synthesisVars>>

Working == {"historical", "current", "context", "accept", "execute",
            "answer", "assemble", "append"}
Ended == {"synthesized", "replayed", "conflict", "refused", "interrupted"}

Attempts == [request : Requests, draft : Drafts \cup {Nothing}]

(* `under` is the activation head the record store had at the append.      *)
Briefs == [request : Requests, pack : Packs, draft : Drafts, under : Nat]

TypeOK ==
    /\ LineageTypeOK
    /\ derived \in [Derivations -> Nat]
    /\ at \in [Runs -> {"idle"} \cup Working \cup Ended]
    /\ existing \in [Runs -> BOOLEAN]
    /\ calls \in [Runs -> Nat]
    /\ reasoning \in [AttemptKeys -> Attempts \cup {Nothing}]
    /\ briefs \in [SynthesisKeys -> Briefs \cup {Nothing}]
    /\ returned \in [Runs -> Briefs \cup {Nothing}]

Init ==
    /\ LineageInit
    /\ derived = [d \in Derivations |-> 0]
    /\ at = [w \in Runs |-> "idle"]
    /\ existing = [w \in Runs |-> FALSE]
    /\ calls = [w \in Runs |-> 0]
    /\ reasoning = [k \in AttemptKeys |-> Nothing]
    /\ briefs = [k \in SynthesisKeys |-> Nothing]
    /\ returned = [w \in Runs |-> Nothing]

-----------------------------------------------------------------------------

Request(w) == RequestOf[w]
Existing(w) == briefs[RequestOf[w].synthesis]
Reasoned(w) == reasoning[RequestOf[w].attempt]

GoTo(w, step) == at' = [at EXCEPT ![w] = step]

Reason(w, attempt) ==
    reasoning' = [reasoning EXCEPT ![RequestOf[w].attempt] = attempt]

(* The ledger service of a committed activation, the current one or one    *)
(* loaded by its id, admits a batch whole, with its attention receipt.     *)
AdmitDerivation(d) ==
    /\ derived[d] = 0
    /\ \E n \in 1..Current : derived' = [derived EXCEPT ![d] = n]
    /\ UNCHANGED <<lineageVars, at, existing, calls, reasoning, briefs, returned>>

(* (external) The service first looks for a Brief under the synthesis key. *)
Synthesize(w) ==
    /\ at[w] = "idle"
    /\ \/ /\ Existing(w) = Nothing
          /\ GoTo(w, "current")
          /\ UNCHANGED existing
       \/ /\ Existing(w) # Nothing
          /\ Existing(w).request = Request(w)
          /\ GoTo(w, "historical")
          /\ existing' = [existing EXCEPT ![w] = TRUE]
       \/ /\ Existing(w) # Nothing
          /\ Existing(w).request # Request(w)
          /\ GoTo(w, "conflict")
          /\ UNCHANGED existing
    /\ UNCHANGED <<lineageVars, derived, calls, reasoning, briefs, returned>>

(* PackArchive.load_exact answers with the Pack of exactly the coordinates *)
(* asked for or with nothing, WrongPackResolver with another Pack.         *)
ResolvesExactPack(w, p) ==
    \/ p = ServicePack[w]
    \/ p \in DOMAIN Archive[w] /\ Archive[w][p] = p

(* Fault: the store answers only for the revision that is current.         *)
LoadExactIfCurrent(w) ==
    /\ at[w] = "historical"
    /\ \/ /\ Request(w).revision = Current
          /\ ResolvesExactPack(w, lineage[Request(w).revision].pack)
          /\ returned' = [returned EXCEPT ![w] = Existing(w)]
          /\ GoTo(w, "replayed")
       \/ /\ ~(/\ Request(w).revision = Current
               /\ ResolvesExactPack(w, lineage[Request(w).revision].pack))
          /\ GoTo(w, "refused")
          /\ UNCHANGED returned
    /\ UNCHANGED <<lineageVars, derived, existing, calls, reasoning, briefs>>

(* A replay loads the Brief's own activation revision from the store, which*)
(* never forgets one, and resolves its Pack.                               *)
LoadExact(w) ==
    /\ at[w] = "historical"
    /\ \/ /\ ResolvesExactPack(w, lineage[Request(w).revision].pack)
          /\ returned' = [returned EXCEPT ![w] = Existing(w)]
          /\ GoTo(w, "replayed")
       \/ /\ ~ResolvesExactPack(w, lineage[Request(w).revision].pack)
          /\ GoTo(w, "refused")
          /\ UNCHANGED returned
    /\ UNCHANGED <<lineageVars, derived, existing, calls, reasoning, briefs>>

(* A step of a fresh synthesis that only decides whether to go on.         *)
Decide(w, from, accepted, to) ==
    /\ at[w] = from
    /\ \/ accepted /\ GoTo(w, to)
       \/ ~accepted /\ GoTo(w, "refused")
    /\ UNCHANGED <<lineageVars, derived, existing, calls, reasoning, briefs,
                   returned>>

(* Fault: the Pack a request names is not compared.                        *)
LoadHeadOnly(w) ==
    Decide(w, "current", Request(w).revision = Current, "context")

(* The request must bind the current committed activation and Pack.        *)
LoadHead(w) ==
    Decide(w, "current",
           /\ Request(w).revision = Current
           /\ Request(w).pack = lineage[Current].pack
           /\ Request(w).pack = ServicePack[w],
           "context")

(* (external) The derivation must be there, without a Brief, admitted      *)
(* under that activation, and its attention receipt the one named.         *)
LoadContext(w) ==
    Decide(w, "context",
           LET d == Request(w).derivation IN
               /\ derived[d] # 0
               /\ derived[d] = Request(w).revision
               /\ Request(w).attention = d
               /\ d \notin Prebuilt,
           "accept")

(* (external) An attempt is accepted once, for one request; a later run    *)
(* finds the result of its own request or is refused.                      *)
Accept(w) ==
    /\ at[w] = "accept"
    /\ \/ /\ Reasoned(w) = Nothing
          /\ Reason(w, [request |-> Request(w), draft |-> Nothing])
          /\ GoTo(w, "execute")
       \/ /\ Reasoned(w) # Nothing
          /\ \/ /\ Reasoned(w).request = Request(w)
                /\ Reasoned(w).draft # Nothing
                /\ GoTo(w, "assemble")
             \/ /\ Reasoned(w).request # Request(w) \/ Reasoned(w).draft = Nothing
                /\ GoTo(w, "refused")
          /\ UNCHANGED reasoning
    /\ UNCHANGED <<lineageVars, derived, existing, calls, briefs, returned>>

(* The provider counts the call; ForbiddenProvider then raises.            *)
Execute(w) ==
    /\ at[w] = "execute"
    /\ calls' = [calls EXCEPT ![w] = @ + 1]
    /\ \/ Provider[w] # "forbidden" /\ GoTo(w, "answer")
       \/ Provider[w] = "forbidden" /\ GoTo(w, "refused")
    /\ UNCHANGED <<lineageVars, derived, existing, reasoning, briefs, returned>>

(* Fault: a provider whose draft is not the reviewed one is asked again.   *)
AnswerOrAskAgain(w) ==
    /\ at[w] = "answer"
    /\ \/ /\ Provider[w] = "exact" \/ calls[w] > 1
          /\ Reason(w, [request |-> Request(w), draft |-> "exact"])
          /\ GoTo(w, "assemble")
       \/ /\ Provider[w] # "exact" /\ calls[w] = 1
          /\ GoTo(w, "execute")
          /\ UNCHANGED reasoning
    /\ UNCHANGED <<lineageVars, derived, existing, calls, briefs, returned>>

(* The provider's draft becomes the attempt's result, exact or not.        *)
Answer(w) ==
    /\ at[w] = "answer"
    /\ Reason(w, [request |-> Request(w), draft |-> Provider[w]])
    /\ GoTo(w, "assemble")
    /\ UNCHANGED <<lineageVars, derived, existing, calls, briefs, returned>>

(* (external) A draft that crosses the routed template fails the assembly  *)
(* of the append; its reasoning stays.                                     *)
Assemble(w) ==
    Decide(w, "assemble", Reasoned(w).draft = "exact", "append")

(* Fault: the append has no precondition on the head.                      *)
AppendBriefWhateverHead(w) ==
    /\ at[w] = "append"
    /\ \/ /\ Existing(w) = Nothing
          /\ LET brief == [request |-> Request(w), pack |-> ServicePack[w],
                           draft |-> Reasoned(w).draft, under |-> installed]
             IN  /\ briefs' = [briefs EXCEPT ![Request(w).synthesis] = brief]
                 /\ returned' = [returned EXCEPT ![w] = brief]
          /\ GoTo(w, "synthesized")
       \/ /\ Existing(w) # Nothing
          /\ GoTo(w, "refused")
          /\ UNCHANGED <<briefs, returned>>
    /\ UNCHANGED <<lineageVars, derived, existing, calls, reasoning>>

(* (external) Brief and receipt are appended in one transaction, whose     *)
(* preconditions include the head of the request's activation.             *)
AppendBrief(w) ==
    /\ at[w] = "append"
    /\ \/ /\ Existing(w) = Nothing
          /\ installed = Request(w).revision
          /\ LET brief == [request |-> Request(w), pack |-> ServicePack[w],
                           draft |-> Reasoned(w).draft, under |-> installed]
             IN  /\ briefs' = [briefs EXCEPT ![Request(w).synthesis] = brief]
                 /\ returned' = [returned EXCEPT ![w] = brief]
          /\ GoTo(w, "synthesized")
       \/ /\ Existing(w) # Nothing \/ installed # Request(w).revision
          /\ GoTo(w, "refused")
          /\ UNCHANGED <<briefs, returned>>
    /\ UNCHANGED <<lineageVars, derived, existing, calls, reasoning>>

(* A run dies; what the record store holds of it stays.                    *)
Interrupt(w) ==
    /\ at[w] \in Working
    /\ GoTo(w, "interrupted")
    /\ UNCHANGED <<lineageVars, derived, existing, calls, reasoning, briefs,
                   returned>>

Step(w) ==
    \/ Synthesize(w)
    \/ LoadExact(w)
    \/ LoadHead(w)
    \/ LoadContext(w)
    \/ Accept(w)
    \/ Execute(w)
    \/ Answer(w)
    \/ Assemble(w)
    \/ AppendBrief(w)
    \/ Interrupt(w)

Next ==
    \/ \E w \in Runs : Step(w)
    \/ \E d \in Derivations : AdmitDerivation(d)
    \/ LineageNext /\ UNCHANGED synthesisVars

Spec == Init /\ [][Next]_vars

-----------------------------------------------------------------------------
(* Properties *)

(* A Brief rests on its own activation revision for good: its derivation   *)
(* was admitted under that revision, the Pack that shaped it is that       *)
(* revision's, and the record store had that head when it was appended,    *)
(* whatever was upgraded or rolled back in between.                        *)
BriefRestsOnItsRevision ==
    \A k \in SynthesisKeys : briefs[k] # Nothing =>
        LET r == briefs[k].request IN
            /\ derived[r.derivation] = r.revision
            /\ r.revision \in 1..Current
            /\ lineage[r.revision].pack = briefs[k].pack
            /\ briefs[k].pack = r.pack
            /\ briefs[k].under = r.revision

(* A run that found its request answered is refused only when nobody can   *)
(* give it the exact Pack of the Brief, never because the activation moved *)
(* on (run_positive replays under revision 3 what revision 2 made), and it *)
(* never calls a provider, whichever it has.                               *)
ReplaySurvivesRollback ==
    \A w \in Runs : existing[w] =>
        LET p == Existing(w).pack
            held == {ServicePack[w]}
                    \cup {Archive[w][q] : q \in {p} \cap DOMAIN Archive[w]}
        IN  /\ calls[w] = 0
            /\ at[w] = "refused" => p \notin held
            /\ at[w] = "replayed" => p \in held

(* What a run returns is what its key holds, and a Brief has cost one call *)
(* of one provider, made for this very request: of rivals with one attempt *)
(* key a single one has called, and nobody asks a provider a second time.  *)
BriefFromOneCall ==
    /\ \A w \in Runs : returned[w] # Nothing => returned[w] = Existing(w)
    /\ \A k \in SynthesisKeys : briefs[k] # Nothing =>
          \E w \in Runs :
              /\ calls[w] = 1
              /\ Request(w) = briefs[k].request
              /\ \A v \in Runs \ {w} :
                    Request(v).attempt = Request(w).attempt => calls[v] = 0

(* The Briefs are an append-only ledger: a synthesis key is answered once, *)
(* about a request of that key whose derivation holds no other Brief, with *)
(* its Pack and with a draft of the routed template.                       *)
BriefOf(k, b) ==
    /\ b \in Briefs
    /\ b.request.synthesis = k
    /\ b.request.attention = b.request.derivation
    /\ b.request.derivation \notin Prebuilt
    /\ b.request.pack = b.pack
    /\ b.draft = "exact"

Ledger == INSTANCE AppendOnlyLedger
              WITH Keys <- SynthesisKeys, ledger <- briefs, IsAdmission <- BriefOf

LedgerSpec == Ledger!Spec
=============================================================================
