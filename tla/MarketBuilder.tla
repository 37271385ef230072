---------------------------- MODULE MarketBuilder ----------------------------
(***************************************************************************)
(* The recorded Market proof: planner.py plans a build over the packaged   *)
(* inventory, executor.py starts an authorized build.  A start loads the   *)
(* inventory that is installed then, has the host admit its two            *)
(* publications, derive their price move, make the first Brief of the      *)
(* build, and answers with a page of resources.  Every host call is        *)
(* awaited: another start of the same build, of another build, or an       *)
(* upgrade of the package comes in between, and a start may die anywhere.  *)
(*                                                                         *)
(* The host ports belong to ace-core, which is not in this repository:     *)
(* their steps are marked (external).  Like every immutable store of the   *)
(* scripts they answer the same request again with what they hold and      *)
(* refuse a changed one (test_host_boundary_negatives_fail_closed...).     *)
(***************************************************************************)
EXTENDS Naturals, FiniteSets

CONSTANTS
    Starts,         \* calls of MarketIntelligenceBuilderExecutor.start
    Builds,
    CallOf,         \* the authorized build a start is called with
    Plannable,      \* builds that ask for the exact profile, group and Pack
    Inventories,    \* contents the packaged inventory file may have
    Reviewed,       \* the content whose digest the planner pins
    Shaped,         \* contents the executor's check of the shape lets pass
    Progressing,    \* contents whose two publications are an Entity pair
    Moving,         \* contents whose pair is a material price move
    PageSize,       \* page_size of the query
    Others,         \* how many other resources a query may find
    Nothing

Ports == {"recorded_sources", "prepared_derivations", "first_brief"}

(* `exact` stands for the profile, the effects and the source groups,      *)
(* `subject` for the build the authority use was evaluated for.            *)
Calls == [build     : Builds,
          subject   : Builds,
          exact     : BOOLEAN,
          ports     : SUBSET Ports,
          evaluated : Nat,
          expires   : Nat]

Keys == {<<"prepared_derivation", b>> : b \in Builds}

Derivations == [key : Keys, pair : Inventories, evaluated : Nat]

(* A Brief names its derivation, and the attention receipt by its digest.  *)
FirstBriefs == [build : Builds, key : Keys, attention : Derivations,
                requested : Nat]

(* What a query for every kind of resource of a product answers: the first *)
(* Briefs on its page, and whether the page holds all there is.            *)
Pages == [briefs : SUBSET FirstBriefs, whole : BOOLEAN]

ASSUME BuilderAssumption ==
    /\ CallOf \in [Starts -> Calls]
    /\ Plannable \subseteq Builds
    /\ Reviewed \in Shaped
    /\ Shaped \subseteq Inventories
    /\ PageSize \in Nat
    /\ Others \subseteq Nat
    /\ Nothing \notin Inventories \cup Derivations \cup FirstBriefs \cup Pages

VARIABLES
    inventory,      \* the content of the installed package
    plans,          \* the inventory a build was planned over
    at,             \* where a start is
    pair,           \* what a start had admitted
    attention,      \* the derivation a start was answered with
    admitted,       \* the host's recorded admissions, per build
    derivations,    \* the host's derivations, per key
    firstBriefs,    \* the host's first Briefs, per build
    pages           \* the page a start has answered with

packVars == <<inventory, plans>>
hostVars == <<admitted, derivations, firstBriefs>>
startVars == <<at, pair, attention, pages>>
builderVars == <<packVars, hostVars, startVars>>

Working == {"admit", "derive", "brief", "query"}
Ended == {"answered", "conflict", "refused", "interrupted"}

BuilderTypeOK ==
    /\ inventory \in Inventories
    /\ plans \in [Builds -> Inventories \cup {Nothing}]
    /\ at \in [Starts -> {"idle"} \cup Working \cup Ended]
    /\ pair \in [Starts -> Inventories \cup {Nothing}]
    /\ attention \in [Starts -> Derivations \cup {Nothing}]
    /\ admitted \in [Builds -> SUBSET Inventories]
    /\ derivations \in [Keys -> Derivations \cup {Nothing}]
    /\ firstBriefs \in [Builds -> FirstBriefs \cup {Nothing}]
    /\ pages \in [Starts -> Pages \cup {Nothing}]

BuilderInit ==
    /\ inventory \in Inventories
    /\ plans = [b \in Builds |-> Nothing]
    /\ at = [w \in Starts |-> "idle"]
    /\ pair = [w \in Starts |-> Nothing]
    /\ attention = [w \in Starts |-> Nothing]
    /\ admitted = [b \in Builds |-> {}]
    /\ derivations = [k \in Keys |-> Nothing]
    /\ firstBriefs = [b \in Builds |-> Nothing]
    /\ pages = [w \in Starts |-> Nothing]

-----------------------------------------------------------------------------

Build(w) == CallOf[w].build

GoTo(w, step) == at' = [at EXCEPT ![w] = step]

(* Another release of the pack is installed over this one. *)
InstallInventory(i) ==
    /\ i # inventory
    /\ inventory' = i
    /\ UNCHANGED <<plans, hostVars, startVars>>

(* The planner takes the inventory only with the digest it pins. *)
Prepare(b) ==
    /\ plans[b] = Nothing
    /\ b \in Plannable
    /\ inventory = Reviewed
    /\ plans' = [plans EXCEPT ![b] = inventory]
    /\ UNCHANGED <<inventory, hostVars, startVars>>

(* Fault: the subject of the authority use is not compared.                *)
AuthorizedForSome(w) ==
    LET call == CallOf[w] IN
        call.exact /\ call.expires > call.evaluated /\ call.ports = Ports

(* The identity of the build, its authority and the host, checked first.   *)
Authorized(w) ==
    LET call == CallOf[w] IN
        /\ call.exact
        /\ call.subject = call.build
        /\ call.expires > call.evaluated
        /\ call.ports = Ports

(* (external) Only a build that was planned is authorized and started.     *)
(* The materials are read from the installed package before the first      *)
(* await; only their shape is checked, not the digest the planner pins.    *)
Start(w) ==
    /\ at[w] = "idle"
    /\ plans[Build(w)] # Nothing
    /\ \/ /\ Authorized(w) /\ inventory \in Shaped
          /\ pair' = [pair EXCEPT ![w] = inventory]
          /\ GoTo(w, "admit")
       \/ /\ ~(Authorized(w) /\ inventory \in Shaped)
          /\ GoTo(w, "refused")
          /\ UNCHANGED pair
    /\ UNCHANGED <<packVars, hostVars, attention, pages>>

(* Fault: the pair is not checked for two points in time.                  *)
IsAnyPair(i) == i \in Inventories

(* _exact_price_entities: two Entities of the subject, in order of time.   *)
IsExactPair(i) == i \in Progressing

(* (external) The host admits the materials or refuses them; an admission  *)
(* stays when the executor then finds that it is no pair.                  *)
Admit(w) ==
    /\ at[w] = "admit"
    /\ \/ /\ admitted' = [admitted EXCEPT ![Build(w)] = @ \cup {pair[w]}]
          /\ GoTo(w, IF IsExactPair(pair[w]) THEN "derive" ELSE "refused")
       \/ /\ GoTo(w, "refused")
          /\ UNCHANGED admitted
    /\ UNCHANGED <<packVars, pair, attention, derivations, firstBriefs, pages>>

DerivationKey(w) == <<"prepared_derivation", Build(w)>>

Held(w) == derivations[DerivationKey(w)]

DerivationRequest(w) ==
    [key |-> DerivationKey(w), pair |-> pair[w],
     evaluated |-> CallOf[w].evaluated]

Derived(w) ==
    /\ derivations' =
          [derivations EXCEPT ![DerivationKey(w)] = DerivationRequest(w)]
    /\ attention' = [attention EXCEPT ![w] = DerivationRequest(w)]
    /\ GoTo(w, "brief")

NotDerived(w, outcome) ==
    GoTo(w, outcome) /\ UNCHANGED <<derivations, attention>>

(* Fault: whether the price moved is not asked, and the attention receipt  *)
(* of a derivation that has none goes on to the Brief.                     *)
DeriveUnchecked(w) ==
    /\ at[w] = "derive"
    /\ Held(w) \in {Nothing, DerivationRequest(w)}
    /\ \/ pair[w] \in Moving /\ Derived(w)
       \/ pair[w] \notin Moving /\ NotDerived(w, "brief")
    /\ UNCHANGED <<packVars, pair, admitted, firstBriefs, pages>>

(* Fault: a start takes only a derivation that it made itself.             *)
DeriveAnew(w) ==
    /\ at[w] = "derive"
    /\ \/ Held(w) = Nothing /\ pair[w] \in Moving /\ Derived(w)
       \/ Held(w) # Nothing /\ NotDerived(w, "refused")
    /\ UNCHANGED <<packVars, pair, admitted, firstBriefs, pages>>

(* (external) The host derives under a key once: the same request gets the *)
(* same answer, a changed one a conflict, and a pair without a material    *)
(* move stores nothing and ends the start.                                 *)
Derive(w) ==
    /\ at[w] = "derive"
    /\ \/ /\ Held(w) \in {Nothing, DerivationRequest(w)}
          /\ pair[w] \in Moving
          /\ Derived(w)
       \/ /\ Held(w) = Nothing
          /\ pair[w] \notin Moving
          /\ NotDerived(w, "refused")
       \/ /\ Held(w) \notin {Nothing, DerivationRequest(w)}
          /\ NotDerived(w, "conflict")
    /\ UNCHANGED <<packVars, pair, admitted, firstBriefs, pages>>

(* Fault: the Brief is dated by the end of the authority, the page by its  *)
(* evaluation.                                                             *)
FirstBriefRequestAtExpiry(w) ==
    [build |-> Build(w), key |-> DerivationKey(w), attention |-> attention[w],
     requested |-> CallOf[w].expires]

FirstBriefRequest(w) ==
    [build |-> Build(w), key |-> DerivationKey(w), attention |-> attention[w],
     requested |-> CallOf[w].evaluated]

(* (external) One first Brief per build, replayed for the same request.    *)
CreateFirstBrief(w) ==
    /\ at[w] = "brief"
    /\ \/ /\ firstBriefs[Build(w)] \in {Nothing, FirstBriefRequest(w)}
          /\ firstBriefs' =
                [firstBriefs EXCEPT ![Build(w)] = FirstBriefRequest(w)]
          /\ GoTo(w, "query")
       \/ /\ firstBriefs[Build(w)] \notin {Nothing, FirstBriefRequest(w)}
          /\ GoTo(w, "conflict")
          /\ UNCHANGED firstBriefs
    /\ UNCHANGED <<packVars, pair, attention, admitted, derivations, pages>>

(* The first Briefs of the product as of the time a start asks for.        *)
AsOf(w) ==
    {f \in {firstBriefs[b] : b \in Builds} \ {Nothing} :
        f.requested <= CallOf[w].evaluated}

(* (external) What is there as of the authority's time, the Briefs among   *)
(* other resources of 13 kinds.  What exceeds the page is cut, anything of *)
(* it: the start asks for no order and follows no cursor, and answers with *)
(* the page it was given.                                                  *)
Query(w) ==
    /\ at[w] = "query"
    /\ \E others \in Others, shown \in SUBSET AsOf(w) :
          LET whole == others + Cardinality(AsOf(w)) <= PageSize IN
          /\ \/ whole /\ shown = AsOf(w)
             \/ /\ ~whole
                /\ Cardinality(shown) <= PageSize
                /\ PageSize <= Cardinality(shown) + others
          /\ pages' = [pages EXCEPT ![w] = [briefs |-> shown, whole |-> whole]]
    /\ GoTo(w, "answered")
    /\ UNCHANGED <<packVars, hostVars, pair, attention>>

(* A start dies; what the host holds of it stays.                          *)
Interrupt(w) ==
    /\ at[w] \in Working
    /\ GoTo(w, "interrupted")
    /\ UNCHANGED <<packVars, hostVars, pair, attention, pages>>

HostCall(w) == Admit(w) \/ Derive(w) \/ CreateFirstBrief(w) \/ Query(w)

BuilderNext ==
    \/ \E i \in Inventories : InstallInventory(i)
    \/ \E b \in Builds : Prepare(b)
    \/ \E w \in Starts : Start(w) \/ HostCall(w) \/ Interrupt(w)

-----------------------------------------------------------------------------
(* Properties *)

(* A first Brief belongs to its build alone: whichever starts of whichever *)
(* builds ran, died and were repeated before it, and whatever release was  *)
(* installed in between, it rests on the derivation under its own build's  *)
(* key, of a pair admitted for that build, and on one authority use for    *)
(* that build, in force at the one time that dates them all.               *)
FirstBriefIsItsBuilds ==
    \A b \in Builds : firstBriefs[b] # Nothing =>
        LET brief == firstBriefs[b]
            derivation == derivations[<<"prepared_derivation", b>>]
        IN  /\ brief.attention = derivation
            /\ brief.attention.pair \in admitted[b]
            /\ brief.requested = brief.attention.evaluated
            /\ plans[b] # Nothing
            /\ \E w \in Starts :
                  /\ CallOf[w].build = b
                  /\ CallOf[w].subject = b
                  /\ CallOf[w].evaluated = brief.requested
                  /\ CallOf[w].expires > brief.requested

(* A start, first or repeated, that answers with a page that was not cut   *)
(* shows the first Brief of its own build there, about the derivation it   *)
(* was itself answered with.  A page that was cut may lack it, and start   *)
(* succeeds all the same: it looks neither at the page nor for a cursor    *)
(* (executor.py, page_size=200).                                           *)
AnsweredShowsOwnBrief ==
    \A w \in Starts : at[w] = "answered" /\ pages[w].whole =>
        \E brief \in pages[w].briefs :
            /\ brief = firstBriefs[Build(w)]
            /\ brief.attention = attention[w]

(* The derivations are an append-only ledger of material price moves: a    *)
(* build's key is derived once and then answers for good, and what its     *)
(* repeated starts add after an upgrade is a conflict, not a second one.   *)
DerivationOf(k, d) ==
    /\ d \in Derivations
    /\ d.key = k
    /\ d.pair \in Shaped \cap Progressing \cap Moving
    /\ \E w \in Starts : CallOf[w].build = k[2] /\ CallOf[w].evaluated = d.evaluated

Ledger == INSTANCE AppendOnlyLedger
              WITH Keys <- Keys, ledger <- derivations, IsAdmission <- DerivationOf

LedgerSpec == Ledger!Spec

(* A start that died between its calls is made good by repeating it: one   *)
(* whose derivation is already held, for this very request, gets through   *)
(* to its page, unless it dies too; it never meets a conflict half-way.    *)
RetryCompletes ==
    \A w \in Starts :
        (at[w] = "derive" /\ derivations[DerivationKey(w)] = DerivationRequest(w))
            ~> at[w] \in {"answered", "interrupted"}
=============================================================================
