----------------------------- MODULE LiveIngress -----------------------------
(***************************************************************************)
(* Live source ingress: scripts/p1c2_live_public_source_acceptance.py and  *)
(* the adapter of adapters/public_product_source.  A run asks the ingress  *)
(* service to admit one request.  The service looks for the admission of   *)
(* the same key, resolves the governed heads, has the adapter capture the  *)
(* source through the host's transport, resolves the heads again, and      *)
(* appends the admission, if the record store still has those heads.       *)
(* Every resolver call, the capture and the append are awaited: operators, *)
(* other runs and the clock move in between.                               *)
(*                                                                         *)
(* The service and the record store belong to ace-core, which is not in    *)
(* this repository; their steps are marked (external) and follow the calls *)
(* the script makes, the answers its checks and                            *)
(* test_market_intelligence_live_source_conformance.py expect, and         *)
(* docs/audits/ace-market-intelligence-p1c2-live-source-ingress-2026-08-06. *)
(***************************************************************************)
EXTENDS GovernedState

CONSTANTS
    Workers,        \* runs of the ingress service
    Requests,       \* the requests they make
    RequestOf,      \* the request of a run
    Keys,           \* product and idempotency key
    KeyOf,          \* the key of a request
    InScope,        \* requests of the exact product, actor and definition
    Adaptable,      \* requests the registered adapter can serve
    Expiry,         \* when the grant expires
    Horizon,        \* bound on the clock
    Nothing         \* no admission

ASSUME IngressAssumption ==
    /\ RequestOf \in [Workers -> Requests]
    /\ KeyOf \in [Requests -> Keys]
    /\ InScope \subseteq Requests
    /\ Adaptable \subseteq Requests
    /\ Expiry \in Nat
    /\ Horizon \in Nat
    /\ Nothing \notin [request : Requests, heads : [Governed -> Nat],
                       under : [Governed -> Nat], started : Nat,
                       observed : Nat, captured : Nat, rechecked : Nat,
                       faithful : BOOLEAN]

VARIABLES
    now,        \* the host's clock
    pc,         \* where a run is
    draft,      \* what a run has put together so far
    confirmed,  \* the heads a run has resolved again after its capture
    calls,      \* how often a run had the adapter capture (capture_calls)
    ledger,     \* the admission every key holds
    returned    \* the admission a run has returned to its caller

ingressVars == <<now, pc, draft, confirmed, calls, ledger, returned>>
vars == <<governedVars, ingressVars>>

Working == {"resolve", "retrieve", "captured", "recheck", "append"}
Ended == {"admitted", "replayed", "conflict", "failed"}

(* `under` is history: the heads as they were when the source was read.    *)
Drafts == [request   : Requests,
           heads     : [Governed -> Nat],
           under     : [Governed -> Nat],
           started   : Nat,
           observed  : Nat,
           captured  : Nat,
           rechecked : Nat,
           faithful  : BOOLEAN]

Unresolved == [g \in Governed |-> 0]

Start(r) == [request   |-> r,
             heads     |-> Unresolved,
             under     |-> Unresolved,
             started   |-> 0,
             observed  |-> 0,
             captured  |-> 0,
             rechecked |-> 0,
             faithful  |-> FALSE]

TypeOK ==
    /\ GovernedTypeOK
    /\ now \in Nat
    /\ pc \in [Workers -> {"idle"} \cup Working \cup Ended]
    /\ draft \in [Workers -> Drafts]
    /\ confirmed \in [Workers -> SUBSET Governed]
    /\ calls \in [Workers -> Nat]
    /\ ledger \in [Keys -> Drafts \cup {Nothing}]
    /\ returned \in [Workers -> Drafts \cup {Nothing}]

Init ==
    /\ GovernedInit
    /\ now = 0
    /\ pc = [w \in Workers |-> "idle"]
    /\ draft = [w \in Workers |-> Start(RequestOf[w])]
    /\ confirmed = [w \in Workers |-> {}]
    /\ calls = [w \in Workers |-> 0]
    /\ ledger = [k \in Keys |-> Nothing]
    /\ returned = [w \in Workers |-> Nothing]

-----------------------------------------------------------------------------

Key(w) == KeyOf[RequestOf[w]]

GoTo(w, step) == pc' = [pc EXCEPT ![w] = step]

Fill(w, filled) == draft' = [draft EXCEPT ![w] = filled]

Keep(w, step, filled) ==
    GoTo(w, step) /\ Fill(w, filled) /\ UNCHANGED confirmed

(* A run that ends leaves nothing behind of what it put together. *)
End(w, outcome) ==
    /\ GoTo(w, outcome)
    /\ Fill(w, Start(RequestOf[w]))
    /\ confirmed' = [confirmed EXCEPT ![w] = {}]

(* (external) The service first looks for an admission of the same key: it *)
(* returns that of the same request and refuses a changed one.             *)
Lookup(w) ==
    /\ pc[w] = "idle"
    /\ \/ /\ ledger[Key(w)] = Nothing
          /\ Keep(w, "resolve", [draft[w] EXCEPT !.started = now])
          /\ UNCHANGED returned
       \/ /\ ledger[Key(w)] # Nothing
          /\ ledger[Key(w)].request = RequestOf[w]
          /\ returned' = [returned EXCEPT ![w] = ledger[Key(w)]]
          /\ End(w, "replayed")
       \/ /\ ledger[Key(w)] # Nothing
          /\ ledger[Key(w)].request # RequestOf[w]
          /\ End(w, "conflict")
          /\ UNCHANGED returned
    /\ UNCHANGED <<governedVars, now, calls, ledger>>

(* (external) The service takes a resolver's answer about g: before the    *)
(* capture as the head the run goes by, after it as a confirmation that it *)
(* is still that one.  A refusal or a changed head ends the run.           *)
Take(w, g, granted) ==
    /\ \/ /\ pc[w] = "resolve"
          /\ draft[w].heads[g] = 0
          /\ granted
          /\ Keep(w, "resolve", [draft[w] EXCEPT !.heads[g] = head[g]])
       \/ /\ pc[w] = "resolve"
          /\ draft[w].heads[g] = 0
          /\ ~granted
          /\ End(w, "failed")
       \/ /\ pc[w] = "recheck"
          /\ g \notin confirmed[w]
          /\ granted /\ draft[w].heads[g] = head[g]
          /\ confirmed' = [confirmed EXCEPT ![w] = @ \cup {g}]
          /\ UNCHANGED <<pc, draft>>
       \/ /\ pc[w] = "recheck"
          /\ g \notin confirmed[w]
          /\ ~(granted /\ draft[w].heads[g] = head[g])
          /\ End(w, "failed")
    /\ UNCHANGED <<governedVars, now, calls, ledger, returned>>

EvaluatedAt(w) ==
    IF pc[w] = "recheck" THEN draft[w].rechecked ELSE draft[w].started

(* Fault: the store answers a run from what it answered it before. *)
LoadHeadRemembered(w) ==
    \/ /\ pc[w] = "resolve"
       /\ Take(w, "activation", TRUE)
    \/ /\ pc[w] = "recheck"
       /\ "activation" \notin confirmed[w]
       /\ confirmed' = [confirmed EXCEPT ![w] = @ \cup {"activation"}]
       /\ UNCHANGED <<governedVars, now, pc, draft, calls, ledger, returned>>

LoadHead(w) == Take(w, "activation", TRUE)

ResolveSourceDefinition(w) ==
    /\ "source_definition" \in Governed
    /\ Take(w, "source_definition", RequestOf[w] \in InScope)

ResolveCapabilityUse(w) ==
    /\ "capability" \in Governed
    /\ Take(w, "capability", RequestOf[w] \in InScope)

ResolveAuthorityUse(w) ==
    /\ "grant" \in Governed
    /\ Take(w, "grant", /\ RequestOf[w] \in InScope
                        /\ ~revoked
                        /\ EvaluatedAt(w) < Expiry)

(* Fault: the adapter serves a request for another artifact or source.     *)
CaptureAnything(w) ==
    /\ pc[w] = "resolve"
    /\ \A g \in Governed : draft[w].heads[g] # 0
    /\ calls' = [calls EXCEPT ![w] = @ + 1]
    /\ Keep(w, "retrieve", draft[w])
    /\ UNCHANGED <<governedVars, now, ledger, returned>>

(* The adapter refuses a request for another artifact, source type or kind *)
(* of URI before it counts the capture and calls the transport.            *)
Capture(w) ==
    /\ pc[w] = "resolve"
    /\ \A g \in Governed : draft[w].heads[g] # 0
    /\ \/ /\ RequestOf[w] \in Adaptable
          /\ calls' = [calls EXCEPT ![w] = @ + 1]
          /\ Keep(w, "retrieve", draft[w])
       \/ /\ RequestOf[w] \notin Adaptable
          /\ End(w, "failed")
          /\ UNCHANGED calls
    /\ UNCHANGED <<governedVars, now, ledger, returned>>

Bodies == {"canonical", "unfaithful", "malformed"}

(* Fault: a response read before the run began is as good as a fresh one.  *)
ConformsHoweverOld(started, exact, observed, captured, body) ==
    exact /\ captured >= observed /\ body # "malformed"

(* The adapter's judgement of a retrieval: `exact` stands for the envelope *)
(* (status, media type, scope, redirects, credentials, addresses).         *)
Conforms(started, exact, observed, captured, body) ==
    /\ exact
    /\ observed >= started
    /\ captured >= observed
    /\ body # "malformed"

(* Fault: the adapter retrieves again when it does not like the answer.    *)
RetrieveAgain(w) ==
    /\ pc[w] = "retrieve"
    /\ \E exact \in BOOLEAN, observed, captured \in 0..now, body \in Bodies :
        \/ /\ Conforms(draft[w].started, exact, observed, captured, body)
           /\ Keep(w, "captured", [draft[w] EXCEPT
                                     !.under = head,
                                     !.observed = observed,
                                     !.captured = captured,
                                     !.faithful = (body = "canonical")])
           /\ UNCHANGED calls
        \/ /\ ~Conforms(draft[w].started, exact, observed, captured, body)
           /\ calls[w] < 2
           /\ calls' = [calls EXCEPT ![w] = @ + 1]
           /\ UNCHANGED <<pc, draft, confirmed>>
    /\ UNCHANGED <<governedVars, now, ledger, returned>>

(* The transport answers with whatever it has, also with what it read      *)
(* before this run began; the adapter takes it or raises.                  *)
Retrieve(w) ==
    /\ pc[w] = "retrieve"
    /\ \E exact \in BOOLEAN, observed, captured \in 0..now, body \in Bodies :
        \/ /\ Conforms(draft[w].started, exact, observed, captured, body)
           /\ Keep(w, "captured", [draft[w] EXCEPT
                                     !.under = head,
                                     !.observed = observed,
                                     !.captured = captured,
                                     !.faithful = (body = "canonical")])
        \/ /\ ~Conforms(draft[w].started, exact, observed, captured, body)
           /\ End(w, "failed")
    /\ UNCHANGED <<governedVars, now, calls, ledger, returned>>

(* (external) The second reading of the clock: the grant must still live.  *)
BeginRecheck(w) ==
    /\ pc[w] = "captured"
    /\ \/ /\ now < Expiry
          /\ Keep(w, "recheck", [draft[w] EXCEPT !.rechecked = now])
       \/ /\ now >= Expiry
          /\ End(w, "failed")
    /\ UNCHANGED <<governedVars, now, calls, ledger, returned>>

(* (external) The mapping fails on a price a JSON number cannot represent. *)
MapMaterial(w) ==
    /\ pc[w] = "recheck"
    /\ confirmed[w] = Governed
    /\ \/ draft[w].faithful /\ Keep(w, "append", draft[w])
       \/ ~draft[w].faithful /\ End(w, "failed")
    /\ UNCHANGED <<governedVars, now, calls, ledger, returned>>

Admitted(w) ==
    /\ ledger' = [ledger EXCEPT ![Key(w)] = draft[w]]
    /\ returned' = [returned EXCEPT ![w] = draft[w]]
    /\ End(w, "admitted")

(* (external) The record store appends the five records of an admission in *)
(* one transaction, if the key is free and every head is the one installed.*)
Append(w) ==
    /\ pc[w] = "append"
    /\ \/ /\ ledger[Key(w)] = Nothing
          /\ draft[w].heads = installed
          /\ Admitted(w)
       \/ /\ ~(ledger[Key(w)] = Nothing /\ draft[w].heads = installed)
          /\ End(w, "failed")
          /\ UNCHANGED <<ledger, returned>>
    /\ UNCHANGED <<governedVars, now, calls>>

(* A run dies, its transport raises, or its append is interrupted.         *)
Interrupt(w) ==
    /\ pc[w] \in Working
    /\ End(w, "failed")
    /\ UNCHANGED <<governedVars, now, calls, ledger, returned>>

Tick ==
    /\ now < Horizon
    /\ now' = now + 1
    /\ UNCHANGED <<governedVars, pc, draft, confirmed, calls, ledger, returned>>

Step(w) ==
    \/ Lookup(w)
    \/ LoadHead(w)
    \/ ResolveSourceDefinition(w)
    \/ ResolveCapabilityUse(w)
    \/ ResolveAuthorityUse(w)
    \/ Capture(w)
    \/ Retrieve(w)
    \/ BeginRecheck(w)
    \/ MapMaterial(w)
    \/ Append(w)
    \/ Interrupt(w)

Next ==
    \/ \E w \in Workers : Step(w)
    \/ GovernedNext /\ UNCHANGED ingressVars
    \/ Tick

Spec == Init /\ [][Next]_vars

-----------------------------------------------------------------------------
(* Properties *)

(* The source was read under exactly the governed heads the admission      *)
(* cites, although they were resolved before the capture and again after   *)
(* it and could move at every await in between.                            *)
CapturedUnderCitedHeads ==
    \A k \in Keys :
        ledger[k] # Nothing => ledger[k].under = ledger[k].heads

(* An admission is appended only while the heads the source was read under *)
(* are the ones installed in the record store, whatever operators did to   *)
(* them between the capture and the append.                                *)
AppendedUnderCaptureHeads ==
    [][\A k \in Keys : ledger'[k] # ledger[k] => ledger'[k].under = installed]_vars

(* The whole capture lies between the moment the use was authorised and    *)
(* the end of the grant: a response read earlier (a cache, another run's)  *)
(* and a capture that outlasted the grant are never admitted.              *)
CaptureInsideGrant ==
    \A k \in Keys : ledger[k] # Nothing =>
        /\ ledger[k].started <= ledger[k].observed
        /\ ledger[k].observed <= ledger[k].captured
        /\ ledger[k].captured < Expiry

(* What a run has returned, admitted or replayed, is for ever what the     *)
(* store holds under its key, and answers the request the run made; a run  *)
(* that replayed captured nothing, and of two runs of one key that both    *)
(* captured at most one has returned.                                      *)
ReturnedIsStored ==
    \A w \in Workers : returned[w] # Nothing =>
        /\ returned[w] = ledger[Key(w)]
        /\ returned[w].request = RequestOf[w]
        /\ calls[w] = (IF pc[w] = "admitted" THEN 1 ELSE 0)

(* The store behaves as an append-only ledger: a key is admitted once, and *)
(* only for a request of that key which the adapter serves and, where a    *)
(* resolver is asked, its exact scope allows, with faithful material.      *)
AdmissionOf(k, a) ==
    /\ a \in Drafts
    /\ KeyOf[a.request] = k
    /\ a.request \in Adaptable
    /\ Governed # {"activation"} => a.request \in InScope
    /\ a.faithful

Ledger == INSTANCE AppendOnlyLedger WITH IsAdmission <- AdmissionOf

LedgerSpec == Ledger!Spec
=============================================================================
