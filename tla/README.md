# A TLA+ model of ACE domain market intelligence

This directory specifies the parts of `ace-domain-market-intelligence` that
have behaviour: the ones that keep state, run in several steps, share a file or
a store with others, and can be interrupted. The modules are checked by TLC on
small instances, and the theorems in the `*_proofs` modules are checked by
TLAPS for every value of the constants. `PROJECT.json` maps every definition to
the lines it models.

## The system

The repository is a domain pack (immutable JSON compiled by `ace-core`) with
two adapters and a set of acceptance scripts. `ace-core` itself, that is the
cognition service behind `ace cognition ...`, the ingress, synthesis and feedback
services and the record stores, is a dependency and not in this repository. Where
a part of the repository talks to it, the model has the *other side* as an
external definition, written from the calls the code makes, the answers it
accepts and the answers its tests give; what the code does not pin down is left
open.

| Component | Code | State | Operations | Status |
|---|---|---|---|---|
| GC1 external consumer | `scripts/gc1_external_consumer.py` | a state file and its `.tmp` sibling, shared by every run; the governed records its commands leave in the service | `prepare`, `resume`, 15 commands | modelled, proved |
| Public-product source adapter | `adapters/public_product_source/.../adapter.py` | the transport it was given, `capture_calls` | `capture` | modelled, proved |
| P1C2 live source ingress | `scripts/p1c2_live_public_source_acceptance.py` | activation store (heads, revisions), record store (installed heads, records), resolvers (capability, grant, source definition, revoked), clock | `commit`, `load_head`, three resolvers, `retrieve`, `install_current_heads`, an ingress run and its replay | modelled, proved; wheel verification is not |
| Market builder | `adapters/market_builder/.../planner.py`, `executor.py` | the packaged inventory of recorded sources; what the host ports have stored for a build | `prepare` (a plan), `start` (admit, derive, first brief, query) | modelled, proved |
| Direction package | `adapters/market_builder/.../direction_package.py` | the package, a value that can be copied | construction, preparation of a delivery | modelled, proved |
| P1D1 prepared brief | `scripts/p1d1_prepared_brief_acceptance.py` | activation store, provider and its calls, Pack resolver, record store (derivations, attempts, Briefs) | admission of a derivation, synthesis, replay, upgrade, rollback | modelled, proved |
| P1E governed feedback | `scripts/p1e_governed_feedback_acceptance.py`, `releases/v0_5_0/modules/decision_outcomes.json` | record store (Decisions, Outcomes, proposals), governed store (policy revisions) | decision, outcome, proposal, approved commit, effective policy | modelled, proved |
| P1F live bridge | `scripts/p1f_live_intelligence_bridge_acceptance.py` | composes ingress and Brief; record store (admissions, derivations) | admission of two snapshots, `derive` and its replay, a LIVE Brief | modelled, proved |
| v0.8 loop | `scripts/v08_intelligence_os_acceptance.py` | composes Brief and feedback; record store (Cases) | assembly of a Case, a query of everything | Case modelled, proved; the query is not |
| Pack releases, fixtures | `domain_packs/` | none | none | not modelled: data |
| Wheel verification, `main`s | tails of the scripts | none | none | not modelled: hashing and argument parsing |

How they interact: an ingress run calls the activation store and the resolvers
(awaited calls, so other coroutines run in between), then the adapter, which
awaits the host's transport, then the resolvers again, then the record store.
Operators and hosts move the heads meanwhile. A consumer run interacts with the
service by processes (`subprocess.run`) and with other runs, and its own later
phase, only by the state file.

What is hard, and what makes each component correct:

* **GC1.** A run may die between any two commands; two runs may overlap on one
  file; other operators work on the same head. Correct means that the file, read
  as a receipt, is never more than the governed records support, that `resume`
  touches only the head `prepare` recorded, that dead runs never turn into
  evidence later, and that the last probe is a real probe.
* **Ingress and adapter.** Four heads are read one at a time, an external call
  that takes as long as it likes sits in the middle, and an append sits at the
  end. Correct means that an admission was read under the heads it cites, inside
  the grant, appended under the same heads, once per idempotency key, and that
  what a caller was told is what is stored.
* **Builder.** Four governed calls under one derivation key, any of which may be the
  last one before the start dies, over an inventory that a package upgrade can
  change between plan and start and between a start and its repetition. Correct
  means that a build's Brief rests on its own derivation, admission and authority,
  that its key is derived once, and that a repetition gets through.
* **Direction package.** A frozen value whose copies are not validated. Correct means
  that what is delivered is what was validated, under its own name. That the Brief it
  names exists is not looked up by anything in this repository.
* **Brief.** The activation is upgraded and rolled back under Briefs and under
  runs that are making one; provider calls cost. Correct means that a Brief rests
  for good on the activation, Pack and derivation it was made from, is replayed
  whatever is current now, and has cost one call.
* **Feedback.** Proposals are computed from a value that moves before they are
  approved. Correct means that no committed adjustment is lost, that every policy
  revision is evidenced down to its Decision, and that the value is a calibration.
* **Bridge.** Derivations are requested by coordinates the caller supplies, under keys
  several callers share, while the activation moves. Correct means that a LIVE Brief
  leads back to two admissions, to the moment, and that bridge and LIVE service are
  together still a governed synthesis.
* **Loop.** One store holds what synthesis, feedback and Case assembly write, over an
  activation that moves under all three. Correct means that the policy leads back
  to a Brief as it was read, and that a Case is about its Brief and appended under
  the head it was authorized under.

## Modules

```
CognitionCore  <-EXTENDS-  GC1Journey  <-EXTENDS-  MCGC1Journey,
                              |                    GC1Journey_proofs <-EXTENDS- GC1Serial_proofs
                              |  INSTANCE (refinement)
                              v
                        EvidenceReceipt

GovernedState  <-EXTENDS-  LiveIngress <-EXTENDS-  MCLiveIngress, LiveIngress_proofs
                              |  INSTANCE (refinement)
                              v
                        AppendOnlyLedger
                              ^
                              |  INSTANCE (refinement)
ActivationLineage <-EXTENDS- BriefSynthesis <-EXTENDS- MCBriefSynthesis, BriefSynthesis_proofs

                          GovernedFeedback <-EXTENDS- MCGovernedFeedback, GovernedFeedback_proofs
                              |  INSTANCE (refinement)
                              v
                         Calibration

BriefSynthesis <-EXTENDS- LiveBridge <-EXTENDS- MCLiveBridge, LiveBridge_proofs

BriefSynthesis <-EXTENDS- IntelligenceLoop <-EXTENDS- MCIntelligenceLoop, IntelligenceLoop_proofs
GovernedFeedback <-INSTANCE-  (its variables are the loop's)

MarketBuilder <-EXTENDS- DirectionPackage <-EXTENDS- MCMarket, MCDirection, DirectionPackage_proofs
      |  INSTANCE (refinement)
      v
AppendOnlyLedger
```

### CognitionCore (external)

The cognition service as the consumer script sees it. A stable key has one head
`[generation, active, lifecycle]`; `Teach`, `Approve`, `Retire` and `Use` are the
commands, with the `--expected-generation` comparison as a guard and the
idempotent repetition of a request as a second disjunct (`reviews`,
`retirements` and `tasks` are the service's receipts). `OtherOperator` is anybody
else with review authority. A completed use reports one revision: that a task
may select revisions of other keys as well is abstracted, since the script only
asks whether its own is among them.

### GC1Journey

One run of the script is one process with a program counter; a step is one
command or one file operation, in the order of the script.

| Variable | Code |
|---|---|
| `pc[p]` | the next command of run `p` |
| `draft[p]` | the locals of `prepare` or `resume` that end up in the receipt |
| `statePath`, `tmpPath`, `disk`, `fd` | the state file, its `.tmp` sibling, the inodes behind them and the open descriptors |
| `disturbed` | history, for the liveness property only |

`_write_new` is three steps (`RecheckAbsent`, `OpenStateFile`, which truncates,
and `FlushStateFile`), `_replace` is `OpenTemporary`, `FlushTemporary` and
`Publish`. Inodes matter because a rename moves a file under a descriptor
another run still has open. A file two runs wrote is the later text or, when the
shorter text leaves a tail of the longer, no JSON (`Torn`). `Abandon` is a crash
or a failing command; a `JourneyError` from a check is the `~ok` side of
`Advance`. The hash comparisons of `resume` are equality of what is hashed.

### EvidenceReceipt

What the state file promises: recorded once, by evidence about one revision, and
completed once, by evidence about that same revision, with everything recorded
carried over. `GC1Journey` implements it when runs do not overlap
(`ReceiptSpec`); a torn file counts as no receipt.

### GovernedState

The stores and resolvers that `build_environment` sets up. A head is its
sequence number, because a revision id is derived from content that holds the
sequence. `Commit` is `MemoryGovernedStateStore.commit`. A resolver's definition,
capability or grant gets a newer head from outside the repository (`AdvanceHead`,
external). The record store learns of a moved head, of whichever of the four, only by
`InstallCurrentHeads`, which is `install_current_heads`, or by `InstallHead`, which is
one `set_governed_state_head`; until then it compares with the older one. `RevokeGrant`
sets `revoked` and leaves the head alone.

### LiveIngress

Runs (`Workers`) of the ingress service. The service is external; the resolvers,
the store of activations, the clock, the transport and the adapter are the
repository's. `Take(w, g, granted)` is the step the four resolver actions share:
before the capture the answer is the head the run goes by, after it a
confirmation that it is still that one; the order of the resolvers is left open.
`Capture` is the adapter up to its call of the transport, `Retrieve` the
transport's answer and the adapter's judgement of it (`Conforms`). The transport
may answer with anything it has, also with a response read before the run began.
The envelope of a response (status, media type, redirects, scope, credentials,
addresses) is one condition, `exact`; its body is `canonical`, `malformed`, or
`unfaithful`, that is canonical text with a price that a JSON number cannot
represent, which the mapping refuses.

Assumptions about the other side: a transport does not claim a time later than
the host's clock (the adapter does not check that); an append under a key that is
taken is refused; the record store compares all heads of an admission with the
ones installed, in one transaction; a run's locals vanish with it.

### AppendOnlyLedger

A key holds no admission or one, and never another. `LiveIngress` implements it
(`LedgerSpec`) for its idempotency keys, `BriefSynthesis` for its synthesis
keys and `MarketBuilder` for its derivation keys. In the ingress an admission of a key (`AdmissionOf`) is about a request of
that key which the adapter serves, in the exact scope wherever a resolver is asked,
and holds faithful material.

### ActivationLineage

The revisions of one logical activation. A revision names its Pack and, when it
is a rollback, the revision whose spec it takes again (`restores`).
`PrepareActivationRevision` is a local computation from the head an
administrator saw, `Commit` the compare-and-swap of
`MemoryGovernedStateStore.commit`, `SetGovernedStateHead` the call by which the
record store learns of the new head. `MaxRevisions` bounds the lineage.

### BriefSynthesis

Runs of the synthesis service, each answering the request it was given
(`RequestOf`) with the Pack, archive and provider it was configured with
(`ServicePack`, `Archive`, `Provider`), as `run_positive` configures a fresh and
a restarted one. `Synthesize` looks for a Brief under the key; `LoadExact` is the
replay, which loads the Brief's own activation revision and its exact Pack
(`PackArchive`, `WrongPackResolver`); a fresh run goes `LoadHead`, `LoadContext`,
`Accept`, `Execute`, `Answer`, `Assemble`, `AppendBrief`.

| Variable | Code |
|---|---|
| `lineage`, `installed`, `proposal` | the activation store, the record store's head, a prepared revision |
| `derived[d]` | the derivation batch of key `d` with its attention receipt, and the revision it was admitted under |
| `reasoning[k]` | the attempt accepted under key `k` and its result |
| `briefs[k]` | the Brief with its receipt under synthesis key `k` |
| `calls[w]` | `provider.calls` of the run's provider |
| `at`, `existing`, `returned` | where a run is, whether it found its request answered, and its result |

A draft is the reviewed one (`exact`) or one of the seven mutations of
`FixtureProvider._draft`; all of them fail the assembly. A resource set of a
derivation is one value: what matters is under which revision it was admitted and
whether it contains a Brief.

Assumptions about the service and the record store: an attempt key is accepted
once, and a later run with it finds the result of its own request or is refused;
a derivation must have been admitted under the request's revision; an append
under a taken key is refused, and so is one whose activation is not the
installed head (the pinned receipts of a Brief name that head among their
preconditions). Capability and authority use are always granted, as
`ExactRuntimeUse` grants them.

### GovernedFeedback

`RecordDecision` and `RecordOutcome` are the two recordings; what is not
`Eligible`, that is of another persona, measure, disposition or time, leaves
nothing. A proposal carries the policy revision and value it was computed from
(`base`, `prior`) and the moment it was made, which tells two proposals about one
Outcome apart as in the pinned `stale_feedback_proposal`. `ProposeFeedback` reads
the policy and awaits the authorizer (`AuthorizeAction`), `CommitFeedback` finds
the proposal fresh, committed already (a replay) or stale, then awaits the
approval (`ResolveApproval`) and the store (`Commit`). `policy[n]` is the
proposal that became policy revision `n`. Values are integers of hundredths:
0.5, bounds 0 and 1, adjustments 0.05 and -0.1.

Assumptions about the service: a value out of bounds is clamped; a proposal that
is the source of the head is answered as a replay; any other that does not
start from the head is refused. That the same Outcome may be proposed again
after a commit is left open, and so allowed.

### Calibration

What a policy promises its readers: a value that starts at the Pack's, moves by
one declared adjustment at a time and keeps its bounds. `GovernedFeedback`
implements it through its effective value (`CalibrationSpec`).

### MarketBuilder

Starts of the executor (`Starts`), each called with an authorized build
(`CallOf`), over one installed package.

| Variable | Code |
|---|---|
| `inventory` | the content of the packaged inventory file; `InstallInventory` is another release over this one |
| `plans[b]` | the inventory `prepare` planned build `b` over |
| `at[w]`, `pair[w]`, `attention[w]` | where a start is, its materials and the Entity pair of them, the derivation it was answered with |
| `pages[w]` | the page it answers with: the first Briefs on it, and whether the page was whole or cut at `PageSize` |
| `admitted`, `derivations`, `firstBriefs` | what the three host ports have stored |

`Start` is everything before the first await: the six refusals (`Authorized`) and
the inventory by its shape. `Admit`, `Derive`, `CreateFirstBrief` and `Query` are
the four awaited calls with what the executor does with the answer; `Interrupt`
is a start that dies between two of them. A content of the inventory matters by
four things only: whether it has the digest the planner pins (`Reviewed`), the
shape the executor asks for (`Shaped`), two points in time of one subject
(`Progressing`), and a material move of the price (`Moving`).

Assumptions about the host: only a planned build is authorized; a derivation key
and a build's first Brief are made once, the same request is answered with what is
held and a changed one refused; a derivation without a material move stores
nothing; a page shows Briefs requested no later than the time it is asked
for (`AsOf`). The admission may be refused for reasons of its own.

The query is for every kind of resource of the product, asks for `page_size=200` and no
order, and `start` follows no cursor. `Query` therefore counts: there are the Briefs
as of that time and some number of other resources (`Others`); if all of it fits on
a page of `PageSize` the page is whole, and if not it is cut, and which Briefs
are left on it is open, down to none.

### DirectionPackage

What is made of a first Brief, or of a reference that looks like one: the validators
compare the contract of the two references and look neither of them up (the tests
construct, prepare and validate a package over a made-up Brief), so a content may
refer to the Brief of a build, stored or not, or to none (`briefOf`), and the package
shares no state with the starts. A package has a content and a name, which is the
content whose digest `package_id` and `package_digest` are. `Construct` applies
the validators (`IsDirection`, `IsApprovedClaim`) with the least and the most entries
of each field (`IsRequired`, `IsOptional`; the several maxima of the code are the
one `MaxEntries`) and gives the name; a copy
(`CopyUnvalidated`, pydantic's `model_copy`) changes the content and keeps the
name; `PrepareDelivery` validates again, name and all. `Deliver` is Core's AC5:
it is asked for a package's artifact and gives the destination the one that was
prepared, if they are the same.

### LiveBridge

`BriefSynthesis` with the bridge that gives it its derivations. A snapshot is
admitted once and is dated (`available`); `LiveIngress` has that step in
detail. A call of `derive` asks under its key with coordinates (`Coordinates`),
which a forger dates otherwise, and then passes the activation, the
coordinates and the authorization to the append of Shift, Signal and attention
receipt, whose preconditions name the head. `SynthesizeLive` is a step of a run
of `BriefSynthesis`, or the refusal of a PREPARED request.

Assumptions about the bridge: it looks for its key first, it compares both
coordinates with the admissions, and its append is refused when the key is
taken or the installed head is another.

### IntelligenceLoop

`BriefSynthesis` and `GovernedFeedback` (by INSTANCE, over the loop's own
variables) with what connects them. `LoadBriefRecord` is the load of the exact
record in `build_environment`; a Decision names that record (`subject`).
`CloseCase`, `AuthorizeCase` and `AppendCase` are `_assemble_case`: the closure
of the Brief and the installed head in one stretch of code, then the awaited
authorization, which requires that head, then the append with the preconditions
of the authorization. The fourth activation revision of `build_environment` is
one more `Upgrade` of the lineage.

## What the runs check

Deadlock checking is off in every configuration but `direction`'s because the system
stops: runs end, and nobody is obliged to start another. A package can always be
constructed, so `direction` never stops.

| Run | Instance | Shows |
|---|---|---|
| `gc1_serial` | 2 prepares, the second after the scenario file was edited, 2 resumes of the first scenario, 2 revisions, one key in use, 4 generations, no overlap | `ReceiptSpec`: the file implements `EvidenceReceipt`. `ReportedIsRecorded`: what a run printed is what the file holds. `OutdatedIsFinal`: a receipt whose head has moved on can never be completed, whoever reactivates the revision. `OrphanIsNeverRecorded`: an approval no receipt records is never adopted. Under weak fairness, `UndisturbedResumeCompletes`: a resume that nobody disturbs completes the receipt. `TypeOK` |
| `gc1_overlap` | 2 prepares (of different scenarios), 2 resumes, overlapping | `ReceiptIsBacked`: a readable file is backed by the governed records. `RetiresRecordedHead`: at the moment of retirement the head is still the recorded one |
| `gc1_replace` | 2 prepares overlap | **violated**: `PrepareNeverReplaces` (below) |
| `gc1_gate` | one resume, one other operator | **violated**: `GateSeesIneligibility` (below) |
| `live_heads` | 1 run, all 4 kinds of head, each moved and installed on its own, 2 operators, 2 revisions of each head, 3 clock values, grant expires at 2 | `CapturedUnderCitedHeads`, `CaptureInsideGrant`, `AppendedUnderCaptureHeads`, `HistoryIsLinear`, `TypeOK` |
| `live_rivals` | 5 runs, 4 requests on one key: one made twice, another admissible one, one without an adapter, one out of scope; no head moves | `ReturnedIsStored`: a run that admitted or replayed returned what is stored about its own request, and one that replayed captured nothing. `LedgerSpec` |
| `brief_rivals` | 5 runs over 2 synthesis and 2 attempt keys: a request, the same again from a service with a mutated draft, the same from one with the older Pack and a wrong resolver, another request of the same synthesis key, another of the same attempt key; 2 administrators, 2 revisions | `BriefFromOneCall`: what is returned is stored, and a Brief cost one call of one provider. `LedgerSpec`. `BriefRestsOnItsRevision`, here against two commits over one head |
| `feedback_race` | 3 proposers, 3 approvers, outcomes of all kinds, 2 moments, value 0.05 between 0 and 0.1 | `NoUpdateLost`, `RevisionsAreEvidenced`, `CalibrationSpec`, `TypeOK` |
| `loop` | 1 run that makes the Brief, 1 that finds it, 1 that binds the rollback, 3 revisions, 2 Packs; 1 analyst, Decision, Outcome, proposer and approver | `BriefRestsOnItsRevision`: derivation, Pack and installed head are those of the Brief's own revision, for good. `ReplaySurvivesRollback`: a run that found its request answered is refused only for want of the exact Pack, and calls no provider. `LoopIsClosed`: the policy leads back to a Brief as it was read. `CaseRestsOnItsBrief`, `CaseUnderAuthorizedHead`, `LoopTypeOK` |
| `market` | 4 starts of one build: one and its repetition, one under a later authority use, one under another build's; 3 inventories (the reviewed one, one whose price does not move, one that is no pair); a page of 1 resource, and 0 or 1 others to find | `FirstBriefIsItsBuilds`, `LedgerSpec`, `TypeOK`. `AnsweredShowsOwnBrief`: a page that was not cut shows the Brief of the start's own build. Under fairness `RetryCompletes` |
| `direction` | 2 packages, 6 contents: two valid ones, one of them about no stored Brief and with as many entries as there may be, and four that a validator refuses; no starts | `DeliveredIsExactDirection` |
| `live_bridge` | 3 calls of `derive`: one, its repetition, a divergent one that forges a time; 2 snapshots; 3 synthesis runs: one, its replay, a PREPARED one; 2 revisions | `SynthesisSpec`: bridge and LIVE service implement `BriefSynthesis`. `LiveBriefFromAdmissions`, `ReplayedDerivationIsHeld`, `BridgeTypeOK` |

Why the bounds are enough. Every hazard of GC1 involves at most two runs of a kind
and one foreign operator; 4 generations let a head be approved, retired,
reactivated and retired once more. In the ingress a head matters only by being the
same or not at the points where a run looks, so two values distinguish
everything; a clock with three values places a start, a capture and an expiry in
every order; two runs of one request are a race and a repetition, and three more let
the three ways a request can differ meet them. A page of one resource is whole or cut
by a single other one. Two packages let a delivery be asked for under the name of the
other's content. Three revisions hold an activation, its upgrade and a
rollback to the first; two administrators are a race of two. The loop has one
administrator, since the race for the head is `brief_rivals`'s and the race of
approvers `feedback_race`'s, and there the interest is in what moves under a Case and
a Decision. No instance has a derivation that holds a Brief before any run (`Prebuilt`):
its runs end at `LoadContext`, and the theorems have them. Four starts of one build are the least that have a repetition, a changed
request and a foreign authority at once; a foreign build could only reach this
one's records by its key or its authority. In `feedback_race`
the bounds are so narrow that two adjustments of one sign reach them, and three
commits let a value be moved back from a bound. The runs `brief_rivals` and `feedback_race` declare symmetry:
administrators, proposers and approvers are interchangeable in their actions and
in every property checked with them. The theorems remove the bounds altogether for every
safety property of a passing run.

Every property has a mutant of the code (the definitions marked `Fault:` in the
modules) that TLC finds violating it.

**Fairness.** Two runs assume any. `gc1_serial` has weak fairness of the next
step of a run that has been started (`FairSpec`). That is what straight-line code
guarantees if a command returns: `subprocess.run` has no timeout
(`gc1_external_consumer.py:54`), so that it does is an assumption about `ace` and
its service. `Abandon` and other operators are possible at every moment, so the
property promises completion only while neither has happened, and nothing obliges
anyone to start a run. It speaks of runs that do not overlap; of two resumes that do,
either can make the other fail (below). `market` has weak fairness of the host calls
of a start that is at one (`KeepsGoing` in `DirectionPackage`): `start` awaits them
one after another with nothing of its own in between, so this says that the host
answers, which is the host's promise and not the repository's. `RetryCompletes` needs
it, and still leaves a start the right to die. In both, fairness is stated for each
process by name. No liveness is claimed for the ingress: the adapter awaits its transport
without a timeout, so a run can wait for ever.

### Two disagreements

* `PrepareNeverReplaces`. The documentation (`docs/gc1-external-consumer.md:45`)
  and the message in `_write_new` say that prepare refuses to replace an existing
  state file. `_write_new` looks (`path.exists()`) and then writes: a second
  prepare that looked before the first one wrote truncates the receipt of the
  first.
* `GateSeesIneligibility`. The documentation (`docs/gc1-external-consumer.md:64`)
  says that unrelated command failures cannot satisfy the fail-closed gate. The
  gate accepts `cognition_use_not_completed`, the code of any task that did not
  complete, so a head reactivated between the retirement and the probe, together
  with a task that fails for its own reasons, satisfies it.

Both statements hold where nothing interferes, and that is proved:
`SerialPrepareKeeps` for runs that do not overlap, `GateHoldsUndisturbed` until a
run dies or another operator acts.

### Limits the model makes explicit

These follow from the code and no property contradicts them. Two resumes that overlap
write through the one `.tmp` sibling: the file one of them publishes may be torn, and
either may fail although nobody else has acted. A head that moves between a run's second
look and its append, the activation's or any other, is not seen by the append until
`install_current_heads` runs. A revocation in the same interval is not seen either, since
it moves no head. (What comes before the second look is seen, and that is proved:
`OvertakenStays`, `RevocationShuts`.) A
grant may expire between the second look and the admission. An attempt whose run
dies between acceptance and result blocks its key, and a synthesis between the
commit of a revision and `set_governed_state_head` is refused at its append. A prepare that dies
after its review leaves an active head that no run of the script will ever touch
again: that is safe (`OrphanIsNeverRecorded`), and it needs an operator.
The executor does not compare the inventory it starts with to the one that was
planned: a release installed in between is admitted by its shape, and a build may so
rest on a pair nobody planned. A start repeated under a later authority use meets a
conflict once its build has a derivation. A start succeeds with whatever page it is given:
once a product holds more than 200 resources of the kinds asked for, the page may lack the
Brief the start has just made. Only one build is planned in the instance of `market`;
the theorems have any number. A direction package names a Brief and a
Decision that nothing looks up or compares with each other: a package about a Brief nobody
stored is delivered like any other. A Case is dated by its
authorization and appended later, so a page asked for as of a time in between may
lack it once and show it when it is opened again.

## What is proved

All proofs are for arbitrary constants under the named assumptions of the
modules (`CoreAssumption`, `JourneyAssumption`, `GovernedAssumption`,
`IngressAssumption`, `LineageAssumption`,
`SynthesisAssumption`, `FeedbackAssumption`, `BuilderAssumption`,
`DirectionAssumption`, `BridgeAssumption`, `LoopAssumption`): the kinds of `None`, disjointness of prepare and resume
runs, functions with the right domains. None bounds a
set; `BridgeAssumption` has finitely many snapshots, because admissions are counted. In `GovernedFeedback` the initial value must lie between the bounds.

`GC1Journey_proofs`:

* `TypeCorrect`: `Spec => []TypeOK`. `TypeOK` alone is not inductive for the
  receipt a descriptor points to, so the invariant is `Typed`, which adds where a
  descriptor is open.
* `ReceiptsAreBacked`: `Spec => []ReceiptIsBacked`. The file's backing cannot be
  inductive by itself, because a file is written from a draft and through a
  descriptor. `IInv` says of every program point what its draft has already
  established (`AfterTeach`, `AfterReview`, ... `AfterObserve`), that every inode,
  reachable or not, holds a backed receipt or a torn one (`DiskBacked`), and
  that a recorded retirement lies in the past of its head (`RetirementsPast`).
  The service only grows (`CoreGrows`: approvals, retirements and generations
  never go back), which is why another operator cannot take backing away.
* `RetirementIsExact`: `Spec => RetiresRecordedHead`, from the same invariant: a
  head at the recorded generation is the recorded head.
* `GateHoldsUndisturbed`: until a run dies or another operator acts, and however
  runs overlap, a resume passes its gate only if no use of its key could have been
  answered. `GateShut` is the invariant: a run at its probe has a retired head, which
  nobody but another operator reactivates (a prepare could only if its key had no
  head yet), and no task has answered the third prompt.

`GC1Serial_proofs`, under `~Overlap` (runs of the script do not overlap), wherever a
run dies and whatever other operators do:

* `IInv` speaks of what the service knows and holds with any overlap; what a *file*
  holds next needs that nobody else writes it. `SInv` says so of the one live run
  (`OneLive`): a prepare past its check has found no state file and still finds
  none, or has it open, torn; a resume works on a copy whose evidence is the
  file's (`SameEvidence`), writes to an inode that the state path does not name
  (`PathsOK`), and renames it when it is whole. So exactly three steps change the file
  (`StateFileWrites`: `Opens`, `Fills`, `Replaces`), and every theorem below is a
  case split on them.
* `ReportsAreRecorded` (`Spec => []ReportedIsRecorded`) and `ReceiptIsImplemented`
  (`Spec => ReceiptSpec`, the refinement: `Fills` is `Record`, `Replaces` is
  `Complete`, everything else stutters).
* `OutdatedStays` (`Spec => OutdatedIsFinal`): generations only grow, and the first
  thing a resume does is to compare the recorded one. `OrphansStay`
  (`Spec => OrphanIsNeverRecorded`): past its review a prepare has either been there
  before or found generation 0 (`LateStep`); that a repeated review request is not
  answered from an earlier receipt rests on the proposal having been selectable
  when it was taught. Neither holds of runs that overlap: TLC finds a counterexample
  to each on the instance of `gc1_overlap`, so `~Overlap` is needed and not a
  convenience.
* `SerialPrepareKeeps` (`Spec => PrepareNeverReplaces`): what the documentation
  says of prepare holds of runs that do not overlap, since the one live prepare still finds
  no state file when it opens it.
* `OnlyDisturbanceFails`: a resume that has begun fails only where it is killed, a run
  before it has died, or another operator has acted (`disturbed`). `UInv` says, while
  none of these has happened, that the head of the receipt is at its recorded generation
  until the resume retires it, that the tasks it waits for are tasks of the current
  head, and what prepare has seen of them before it wrote them down; each command
  of a resume then succeeds (`ResumeSucceeds`).
* `UndisturbedCompletes` (`~Overlap` and `FairSpec /\ []ResumesCanGoOn` give
  `UndisturbedResumeCompletes`): the steps of a resume are ordered (`ResumeOrder`),
  fairness takes each, and none of them can fail.

`LiveIngress_proofs`:

* `TypeCorrect`, and `LinearHistory` from `HistoryOK`: all sequences up to the
  head occur once, and an operator's `prior` never exceeds the head.
* `CapturedUnderCited`, `CapturedInsideGrant` and `AnswersAreStored` from `RunsOK`
  (one predicate, `RunOK`, about one run) and `StoreOK`. The heart is that heads
  only grow: a run knows that the head it resolved was at most the head under
  which it captured, and that was at most the head it resolved again, so when
  the two resolutions agree all three are equal.
* `AppendIsSteady` (`Spec => AppendedUnderCaptureHeads`) and `LedgerIsAppendOnly`
  (`Spec => LedgerSpec`, the refinement), by cases on the one action that writes
  the ledger.
* How far the gap after the second look reaches.
  `OvertakenStays`: a run one of whose heads moves before its second look at it never
  admits, for sequences do not come back. `RevocationShuts`, where grants are
  governed: nor does one whose grant is revoked before its second look. Both are
  step properties of a predicate that, once true of a run, stays true
  (`Overtaken`, `Shut`), and that no admitted run satisfies.

`BriefSynthesis_proofs`:

* The stores only grow (`Kept`): a revision, a derivation, a Brief and the result
  of an attempt stay what they are. `RunOK` says of each point of a run what it has
  checked, which `Kept` keeps true while others move (`RunFrame`), and `BriefOK`
  is what a Brief inherits of it at its append. From these: `TypeCorrect`,
  `BriefsRest` and `ReplaysSurvive`.
* `BriefsCostOneCall` needs one thing more, which `BriefOK` cannot say: that of all
  runs with one attempt key only one can be at its provider. `AttemptOK` gives an
  accepted attempt an owner and keeps every other run silent.
* `BriefsAreALedger` (`Spec => LedgerSpec`), from `BriefWrites`, the only step that
  writes a Brief.
* `AbandonedIsFinal`: an attempt that was accepted, has no result and no run on its
  way to one never gets one, because only the run that accepted an attempt ever
  calls for it (`CallingBegins`); and `NoBriefFromAbandoned`. That a later run of
  the key is refused is the modelled service's answer (`Accept` is external).
* `RollbacksRestore`: the acceptance asserts of one lineage that the rollback restored
  its first revision; here every rollback in every lineage has the Pack of the revision it
  names, which is older than the one it replaces. The proposals that wait for their
  commit are part of the invariant (`RestoresOK`): they name a place in a
  lineage that grows meanwhile (`RestoresStays`).

`GovernedFeedback_proofs`:

* `NoUpdateLost` is not inductive: a proposal waits in the record store, or in an
  approver's hands, while the policy moves. `Computed(p)` says that `p` was computed
  from the revision it names, which is about the past and stays true
  (`ComputedForGood`); the comparison in `Commit` makes that past the present.
  From it: `TypeCorrect`, `NothingIsLost`, `RevisionsEvidenced` and
  `FeedbackCalibrates` (`Spec => CalibrationSpec`, the refinement).
* Since a revision's base is its own place (`PolicyOK`), a proposal is committed at
  most once (`ProposalsCommitOnce`), and approvers who are given one revision had
  submitted one proposal (`ApproversAreToldTheirOwn`).
* `StaleIsFinal`: a proposal that another commit has overtaken is never committed, whether
  it was recorded, waits for its authorization or is approved; the acceptance
  pins one such refusal (`stale_feedback_proposal`), in one order.

`DirectionPackage_proofs` (for `MarketBuilder` as well):

* The host's stores are written once and kept, so a start may go by what it was
  answered with. The invariant says of each point of a start what the host
  holds of it by then; from it `TypeCorrect`, `BriefsBelong`, `AnswersShow`,
  `DeliveriesExact` and the refinement `LedgerRefinement`
  (`Spec => LedgerSpec`). `AnswersShow` is about a page that was not cut.
* `RoomyPageShows` says when that is: if the Briefs of all builds and what else there
  can be fit on one page, every start that answers shows its Brief. Nothing in the
  repository keeps a product that small.
* `ConflictsAreChanges`: a start meets a conflict only if it asks for another
  derivation than its build has, so no conflict is due to an earlier start that
  died half-way. The Brief a start names is the one its derivation has or will be
  given (`RetryOK`), which is why a repetition is answered at every call.
* `RetriesComplete` (`FairSpec /\ []StartsCanGoOn => RetryCompletes`): a start that
  repeats a held derivation only moves forward through its calls (`RepeatSteps`),
  and no other start takes that from it.

`LiveBridge_proofs`:

* `BridgeImplements` (`BridgeSpec => SynthesisSpec`): a step of the bridge is an
  `AdmitDerivation` of `BriefSynthesis` or leaves it alone. With it the theorems of
  `BriefSynthesis_proofs` hold of LIVE Briefs (`LiveBriefsRest`,
  `LiveBriefsCostOneCall`, `LiveReplaysSurvive`).
* `BridgeTypes`, `LiveBriefsLeadBack` and `DerivationsStay` from an invariant about
  what a call has compared by each of its points; a snapshot's date never changes
  (finitely many are counted), nor does a derivation.

`IntelligenceLoop_proofs`:

* `LoopImplementsSynthesis` and `LoopImplementsFeedback`: the loop is both systems at
  once, so what is proved of either is cited here and not proved again
  (`LoopBriefsRest`, `LoopReplays`, `LoopBriefsCostOneCall`, `LoopLosesNothing`, and
  the evidence of a policy revision in `LoopCloses`).
* `LoopTypes`, `LoopCloses`, `CasesRest` and `CasesUnderHead` from an invariant that
  joins them: the record on an analyst's desk is what the store still holds, a
  Decision names such a record, and a head that was read is at most the head now.
* `PolicyIsTraceable` joins what the two systems prove separately: a policy revision leads
  through its Outcome and its Decision to a Brief that its key still holds, and
  from there to the Shift and the Signal, the revision and the Pack it rests on and the
  one call of one run that drafted it.

The two liveness theorems rest on fairness as the specification states it and on
one hypothesis each that the prover cannot discharge: `StartsCanGoOn` and
`ResumesCanGoOn` say that a step is `ENABLED`, and an `ENABLED` predicate is
opaque to the backends (temporal logic treats it as an atom, SMT and Zenon do not
unfold it). Both hold by the shape of the actions, whose branches are complementary, so
they say nothing about the code and no run checks them; TLC checks the conclusions
without them, in `market` and `gc1_serial`.

Only model-checked: that conclusion without its hypothesis, and the two disagreements,
which are violations (the theorems about them have a hypothesis those runs break). `UndisturbedCompletes` and the other theorems of
`GC1Serial_proofs` are for runs of the script that do not overlap, as the code
expects (the state file has no lock); the overlapping ones are checked by TLC in
`gc1_overlap` for what holds of them, and proved in `GC1Journey_proofs` for it.

## Not modelled

* The query of the resource plane (`v08_intelligence_os_acceptance.py` from line
  207): it reads the store through external readers, keeps nothing and writes
  nothing; what it could show wrong is in the records, which the properties above
  are about.
* The services of `ace-core` beyond what the repository's calls and tests say of
  them. Where the model has them they are marked external.
* Pack releases and fixtures, which are data, and the tails of the scripts: wheel
  verification (hashes of installed files), argument parsing, projections that
  render a result, and the tables of expected values. They have no state.
* The inventories of refusals in the acceptance scripts are modelled by the guard
  each of them exercises and not case by case.
