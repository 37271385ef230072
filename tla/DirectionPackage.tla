--------------------------- MODULE DirectionPackage ---------------------------
(***************************************************************************)
(* What becomes of a first Brief: direction_package.py.  An author puts    *)
(* the reference of a Brief, that of a user Decision, approved claims and  *)
(* sections of text into a package, which is validated and named by the    *)
(* digest of its content; its preparation for Core's AC5 delivery          *)
(* validates it again, and a destination is given exactly the artifact     *)
(* that was prepared.  The contract is frozen but its copies are not       *)
(* validated (model_copy), so a package may hold a content it is not named *)
(* after.  Of the references only the contract is looked at: nobody looks  *)
(* up the Brief (the tests refer to a made-up one), so the package shares  *)
(* no state with the starts that make Briefs.                              *)
(*                                                                         *)
(* A digest is the content it is the digest of.  A text is bounded and     *)
(* trimmed, which is left out, and so are the approval and the objective;  *)
(* what limits the number of entries is one bound, MaxEntries.  Core's     *)
(* delivery service is not in this repository: Deliver is (external).      *)
(***************************************************************************)
EXTENDS MarketBuilder, Functions, Sequences

CONSTANTS
    Packages,       \* packages their authors work on
    Contents,       \* direction material an author may write
    MaxEntries      \* most entries of a section or a claim, and most claims

Contracts == {"ace.intelligence.brief/v1alpha1", "ace.core.decision/v1alpha1"}

(* The fields of a content whose validators can refuse it, and the build   *)
(* whose first Brief it refers to, if there is one.  A claim is its        *)
(* citations and limitations, under its id; `section` stands for any of    *)
(* the five sections that must not be empty, `questions` for the one that  *)
(* may be.                                                                 *)
IsContent(c) ==
    /\ DOMAIN c = {"briefOf", "briefContract", "decisionContract", "claims",
                   "section", "questions"}
    /\ c.briefOf \in Builds \cup {Nothing}
    /\ {c.briefContract, c.decisionContract} \subseteq Contracts
    /\ DOMAIN c.section = 1..Len(c.section)
    /\ DOMAIN c.questions = 1..Len(c.questions)
    /\ DOMAIN c.claims = 1..Len(c.claims)
    /\ \A n \in DOMAIN c.claims :
          DOMAIN c.claims[n] = {"id", "citations", "limitations"}

ASSUME DirectionAssumption ==
    /\ MaxEntries \in Nat
    /\ \A c \in Contents : IsContent(c)
    /\ Nothing \notin Contents
    /\ Nothing \notin [content : Contents, name : Contents]

VARIABLES
    package,        \* the package as it is now
    handoffs,       \* the deliveries prepared for AC5
    mailbox         \* the artifacts the destination has acknowledged

directionVars == <<package, handoffs, mailbox>>
vars == <<builderVars, directionVars>>

(* `name` is the content whose digest package_id and package_digest are.   *)
PackageValues == [content : Contents, name : Contents]

(* `of` is the content that was prepared, `artifact` the exact reference.  *)
Handoffs == [of : Contents, artifact : Contents]

TypeOK ==
    /\ BuilderTypeOK
    /\ package \in [Packages -> PackageValues \cup {Nothing}]
    /\ handoffs \subseteq Handoffs
    /\ mailbox \subseteq Contents

Init ==
    /\ BuilderInit
    /\ package = [p \in Packages |-> Nothing]
    /\ handoffs = {}
    /\ mailbox = {}

-----------------------------------------------------------------------------

(* No entry twice, and not too many; a field without a default is never    *)
(* empty.                                                                  *)
IsOptional(entries) == IsInjective(entries) /\ Len(entries) <= MaxEntries
IsRequired(entries) == entries # <<>> /\ IsOptional(entries)

IsApprovedClaim(claim) ==
    IsRequired(claim.citations) /\ IsOptional(claim.limitations)

(* MarketDirectionPackage: an exact Brief and Decision, no claim id twice. *)
IsDirection(c) ==
    /\ c.briefContract = "ace.intelligence.brief/v1alpha1"
    /\ c.decisionContract = "ace.core.decision/v1alpha1"
    /\ c.claims # <<>> /\ Len(c.claims) <= MaxEntries
    /\ IsInjective([n \in DOMAIN c.claims |-> c.claims[n].id])
    /\ \A n \in DOMAIN c.claims : IsApprovedClaim(c.claims[n])
    /\ IsRequired(c.section) /\ IsOptional(c.questions)

(* A package is constructed without a name, or with the one of an earlier  *)
(* package, which must be its own.                                         *)
Construct(p) ==
    /\ \E c \in Contents, given \in Contents \cup {Nothing} :
          /\ IsDirection(c)
          /\ given \in {Nothing, c}
          /\ package' = [package EXCEPT ![p] = [content |-> c, name |-> c]]
    /\ UNCHANGED <<builderVars, handoffs, mailbox>>

(* A copy with another content keeps the name and is not validated.        *)
CopyUnvalidated(p) ==
    /\ package[p] # Nothing
    /\ \E c \in Contents : package' = [package EXCEPT ![p].content = c]
    /\ UNCHANGED <<builderVars, handoffs, mailbox>>

(* Fault: the package is taken as it is, without validating it again.      *)
PrepareAsIs(p) ==
    /\ package[p] # Nothing
    /\ handoffs' = handoffs \cup {[of       |-> package[p].content,
                                   artifact |-> package[p].name]}
    /\ UNCHANGED <<builderVars, package, mailbox>>

(* Validated again, name and all; the exact reference is to that name.     *)
PrepareDelivery(p) ==
    /\ package[p] # Nothing
    /\ IsDirection(package[p].content)
    /\ package[p].name = package[p].content
    /\ handoffs' = handoffs \cup {[of       |-> package[p].content,
                                   artifact |-> package[p].name]}
    /\ UNCHANGED <<builderVars, package, mailbox>>

(* (external) AC5 is asked for the artifact of some package and delivers   *)
(* the artifact of the handoff, if they are the same.                      *)
Deliver(p) ==
    /\ package[p] # Nothing
    /\ \E h \in handoffs :
          /\ package[p].name = h.artifact
          /\ mailbox' = mailbox \cup {h.artifact}
    /\ UNCHANGED <<builderVars, package, handoffs>>

DirectionNext ==
    \E p \in Packages : \/ Construct(p)
                        \/ CopyUnvalidated(p)
                        \/ PrepareDelivery(p)
                        \/ Deliver(p)

Next == DirectionNext \/ (BuilderNext /\ UNCHANGED directionVars)

(* A start that runs goes on to its next call and the host answers it; the *)
(* executor has no timeout of its own.  Nobody has to start a build.       *)
GoesOn(w) == HostCall(w) /\ UNCHANGED directionVars

KeepsGoing(w) == WF_vars(GoesOn(w))

Fairness == \A w \in Starts : KeepsGoing(w)

Spec == Init /\ [][Next]_vars
FairSpec == Spec /\ Fairness

-----------------------------------------------------------------------------
(* Properties *)

(* What a destination acknowledges is direction that was validated as it   *)
(* is: it was prepared under the digest of its own content, however the    *)
(* package was copied before or after, it rests on a Decision, and every   *)
(* claim leads to a citation and has an id of its own.  That the Brief it  *)
(* names was ever stored is not promised (direction_package.py).           *)
DeliveredIsExactDirection ==
    /\ \A h \in handoffs : h.artifact = h.of
    /\ \A c \in mailbox :
          /\ \E h \in handoffs : h.of = c
          /\ c.decisionContract = "ace.core.decision/v1alpha1"
          /\ c.claims # <<>> /\ c.section # <<>>
          /\ \A n \in DOMAIN c.claims :
                /\ c.claims[n].citations # <<>>
                /\ \A m \in DOMAIN c.claims :
                      c.claims[m].id = c.claims[n].id => m = n
=============================================================================
