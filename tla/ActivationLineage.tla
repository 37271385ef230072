-------------------------- MODULE ActivationLineage --------------------------
(***************************************************************************)
(* The revisions of one logical activation, as the activation store of     *)
(* scripts/p1d1_prepared_brief_acceptance.py keeps them: each names the    *)
(* compiled Pack it activates, and a rollback is a new revision with the   *)
(* spec of an older one.  The acceptance of governed feedback goes on with *)
(* the same store and commits a fourth revision.                           *)
(*                                                                         *)
(* A revision is its number in the lineage; its id is derived from its     *)
(* content, which holds the number and the prior revision.                 *)
(***************************************************************************)
EXTENDS Naturals, Sequences

CONSTANTS
    Packs,          \* compiled Packs
    FirstPack,      \* the Pack of the first revision
    Administrators, \* those who prepare and commit revisions
    MaxRevisions    \* bound on the lineage

ASSUME LineageAssumption == FirstPack \in Packs /\ MaxRevisions \in Nat

VARIABLES
    lineage,        \* the committed revisions, the last one is the head
    installed,      \* the revision the record store compares appends with
    proposal        \* the revision an administrator has prepared

lineageVars == <<lineage, installed, proposal>>

Revisions == [pack : Packs, restores : Nat]

(* `prior` is the head the revision builds on, 0 when there is none.       *)
Proposals == [prior : Nat, revision : Revisions]

First == [pack |-> FirstPack, restores |-> 0]

NoProposal == [prior |-> 0, revision |-> First]

LineageTypeOK ==
    /\ lineage \in Seq(Revisions)
    /\ installed \in 1..Len(lineage)
    /\ proposal \in [Administrators -> Proposals]

LineageInit ==
    /\ lineage = <<First>>
    /\ installed = 1
    /\ proposal = [a \in Administrators |-> NoProposal]

-----------------------------------------------------------------------------

Current == Len(lineage)

PrepareActivationRevision(a, revision) ==
    /\ proposal[a] = NoProposal
    /\ Current < MaxRevisions
    /\ proposal' = [proposal EXCEPT ![a] = [prior |-> Current,
                                            revision |-> revision]]
    /\ UNCHANGED <<lineage, installed>>

Upgrade(a) ==
    \E p \in Packs :
        PrepareActivationRevision(a, [pack |-> p, restores |-> 0])

(* A rollback takes the spec of the revision it names.                     *)
Rollback(a) ==
    \E n \in 1..Current - 1 :
        PrepareActivationRevision(a, [pack |-> lineage[n].pack, restores |-> n])

(* Fault: the commit does not compare the head with the one expected.      *)
CommitUnconditionally(a) ==
    /\ proposal[a] # NoProposal
    /\ lineage' = Append(SubSeq(lineage, 1, proposal[a].prior),
                         proposal[a].revision)
    /\ proposal' = [proposal EXCEPT ![a] = NoProposal]
    /\ UNCHANGED installed

(* commit: a compare-and-swap on the expected head.                        *)
Commit(a) ==
    /\ proposal[a] # NoProposal
    /\ \/ /\ Current = proposal[a].prior
          /\ lineage' = Append(lineage, proposal[a].revision)
       \/ /\ Current # proposal[a].prior
          /\ UNCHANGED lineage
    /\ proposal' = [proposal EXCEPT ![a] = NoProposal]
    /\ UNCHANGED installed

(* The record store learns of a committed head only by this call.          *)
SetGovernedStateHead ==
    /\ installed # Current
    /\ installed' = Current
    /\ UNCHANGED <<lineage, proposal>>

LineageNext ==
    \/ \E a \in Administrators : Upgrade(a) \/ Rollback(a) \/ Commit(a)
    \/ SetGovernedStateHead
=============================================================================
