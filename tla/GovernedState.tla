---------------------------- MODULE GovernedState ----------------------------
(***************************************************************************)
(* The governed heads a live source ingress depends on, as the fixture     *)
(* services of scripts/p1c2_live_public_source_acceptance.py keep them:    *)
(* the activation store with its compare-and-swap commit, the runtime-use  *)
(* resolver with the capability and the grant, the source definition, and  *)
(* the heads installed in the record store, which an append compares with. *)
(* A head moves in its resolver first and is installed later, if at all:   *)
(* the store's copies trail.                                               *)
(*                                                                         *)
(* A head is its sequence number: a revision id is derived from the        *)
(* revision's content, which holds the sequence, so it never comes back.   *)
(***************************************************************************)
EXTENDS Naturals

CONSTANTS
    Governed,       \* the kinds of governed state
    Operators,      \* those who prepare and commit activation revisions
    Founder,        \* the author of the activation committed at the start
    MaxSequence     \* bound on the revisions of every head

ASSUME GovernedAssumption ==
    /\ "activation" \in Governed
    /\ Governed \subseteq {"activation", "source_definition",
                           "capability", "grant"}
    /\ Founder \notin Operators
    /\ MaxSequence \in Nat

VARIABLES
    head,       \* what the resolvers answer now, per kind
    installed,  \* what the record store was told last, per kind
    revoked,    \* has the grant been revoked?
    prior,      \* the activation sequence an operator's revision builds on
    revisions   \* the activation revisions in the store

governedVars == <<head, installed, revoked, prior, revisions>>

Revisions == [sequence : Nat \ {0}, author : Operators \cup {Founder}]

GovernedTypeOK ==
    /\ head \in [Governed -> Nat \ {0}]
    /\ installed \in [Governed -> Nat \ {0}]
    /\ revoked \in BOOLEAN
    /\ prior \in [Operators -> Nat]
    /\ revisions \subseteq Revisions

GovernedInit ==
    /\ head = [g \in Governed |-> 1]
    /\ installed = [g \in Governed |-> 1]
    /\ revoked = FALSE
    /\ prior = [o \in Operators |-> 0]
    /\ revisions = {[sequence |-> 1, author |-> Founder]}

-----------------------------------------------------------------------------

(* An operator prepares the successor of the activation revision it read.  *)
PrepareRevision(o) ==
    /\ prior[o] = 0
    /\ head["activation"] < MaxSequence
    /\ prior' = [prior EXCEPT ![o] = head["activation"]]
    /\ UNCHANGED <<head, installed, revoked, revisions>>

(* Fault: the commit does not compare the head with the one expected.      *)
CommitUnconditionally(o) ==
    /\ prior[o] # 0
    /\ head' = [head EXCEPT !["activation"] = prior[o] + 1]
    /\ revisions' = revisions \cup {[sequence |-> prior[o] + 1, author |-> o]}
    /\ prior' = [prior EXCEPT ![o] = 0]
    /\ UNCHANGED <<installed, revoked>>

(* commit: a compare-and-swap on the revision the caller expects at the    *)
(* head; a caller that lost the race is told so, and may prepare again.    *)
Commit(o) ==
    /\ prior[o] # 0
    /\ \/ /\ head["activation"] = prior[o]
          /\ head' = [head EXCEPT !["activation"] = prior[o] + 1]
          /\ revisions' = revisions
                            \cup {[sequence |-> prior[o] + 1, author |-> o]}
       \/ /\ head["activation"] # prior[o]
          /\ UNCHANGED <<head, revisions>>
    /\ prior' = [prior EXCEPT ![o] = 0]
    /\ UNCHANGED <<installed, revoked>>

(* (external) Whoever governs the source definition, the capability or the *)
(* grant gives its resolver a new head; the record store is not told.      *)
AdvanceHead(g) ==
    /\ g # "activation"
    /\ head[g] < MaxSequence
    /\ head' = [head EXCEPT ![g] = @ + 1]
    /\ UNCHANGED <<installed, revoked, prior, revisions>>

(* set_governed_state_head: the record store learns of one head.           *)
InstallHead(g) ==
    /\ installed[g] # head[g]
    /\ installed' = [installed EXCEPT ![g] = head[g]]
    /\ UNCHANGED <<head, revoked, prior, revisions>>

(* Fault: the heads installed replace the others instead of joining them.  *)
InstallActivationOnly ==
    /\ installed # head
    /\ installed' = [g \in {"activation"} |-> head[g]]
    /\ UNCHANGED <<head, revoked, prior, revisions>>

(* install_current_heads: it learns of all of them in one stretch of code. *)
InstallCurrentHeads ==
    /\ installed # head
    /\ installed' = head
    /\ UNCHANGED <<head, revoked, prior, revisions>>

(* A revocation leaves the head of the grant where it is.                  *)
RevokeGrant ==
    /\ ~revoked
    /\ revoked' = TRUE
    /\ UNCHANGED <<head, installed, prior, revisions>>

GovernedNext ==
    \/ \E o \in Operators : PrepareRevision(o) \/ Commit(o)
    \/ \E g \in Governed : AdvanceHead(g) \/ InstallHead(g)
    \/ InstallCurrentHeads
    \/ RevokeGrant

-----------------------------------------------------------------------------

(* The activation has one revision per sequence number, up to the head:    *)
(* of two operators who build on the same revision one loses, and no       *)
(* committed revision is ever shadowed by another (commit, lines 106-131). *)
HistoryIsLinear ==
    /\ \A r, s \in revisions : r.sequence = s.sequence => r = s
    /\ \A n \in 1..head["activation"] : \E r \in revisions : r.sequence = n
=============================================================================
