---------------------------- MODULE CognitionCore ----------------------------
(***************************************************************************)
(* The governed-cognition service as scripts/gc1_external_consumer.py sees *)
(* it through the `ace cognition` command line.  The service is not in     *)
(* this repository: its state and its commands are modelled from how the   *)
(* script and tests/test_gc1_external_consumer.py use them, and every      *)
(* answer the script does not pin down is left open.                       *)
(*                                                                         *)
(* A stable key has one head.  Teaching makes a proposal; approving the    *)
(* proposal makes a revision and moves the head, if the head is still at   *)
(* the generation the caller expects.  A proposal and the revision it      *)
(* becomes are one element of Revisions.                                   *)
(***************************************************************************)
EXTENDS Naturals

CONSTANTS
    Keys,           \* stable keys, each with its own head
    Revisions,      \* proposals, and the revisions they become
    None,           \* "no revision", "no key"
    MaxGeneration   \* bound on the changes other operators make to a head

ASSUME CoreAssumption ==
    /\ None \notin Revisions
    /\ None \notin Keys
    /\ MaxGeneration \in Nat

VARIABLES
    proposedFor,    \* the key a proposal was taught for, or None
    approved,       \* the proposals approved by anyone: selectable revisions
    reviews,        \* those approved under request id market-gc1-approve-v1
    head,           \* the head of every key
    retirements,    \* <<key, expected generation>> of market-gc1-retire-v1
    tasks           \* <<key, prompt, revision>> of tasks that completed

coreVars == <<proposedFor, approved, reviews, head, retirements, tasks>>

(* The three prompts of a scenario.  The service replays an identical task *)
(* request, so what matters of a prompt is whether it was used before.     *)
Prompts == {"fresh_use", "restart_use", "post_retirement_use"}

Lifecycles == {"absent", "active", "retired"}

Heads == [generation : Nat,
          active     : Revisions \cup {None},
          lifecycle  : Lifecycles]

CoreTypeOK ==
    /\ proposedFor \in [Revisions -> Keys \cup {None}]
    /\ approved \subseteq Revisions
    /\ reviews \subseteq approved
    /\ head \in [Keys -> Heads]
    /\ retirements \subseteq (Keys \X Nat)
    /\ tasks \subseteq (Keys \X Prompts \X Revisions)

CoreInit ==
    /\ proposedFor = [r \in Revisions |-> None]
    /\ approved = {}
    /\ reviews = {}
    /\ head = [k \in Keys |-> [generation |-> 0,
                               active     |-> None,
                               lifecycle  |-> "absent"]]
    /\ retirements = {}
    /\ tasks = {}

-----------------------------------------------------------------------------
(* Answers to commands.                                                    *)

Selectable(r) == r \in approved

(* A completed `cognition use` reports one of these: the active revision,  *)
(* or what an identical earlier request reported.                          *)
Answers(k, prompt) ==
    {r \in Revisions : \/ head[k].lifecycle = "active" /\ head[k].active = r
                       \/ <<k, prompt, r>> \in tasks}

-----------------------------------------------------------------------------
(* Commands that change the service.                                       *)

(* `cognition teach`: a new proposal, or the one already taught for k.     *)
Teach(k, r) ==
    /\ proposedFor[r] \in {None, k}
    /\ proposedFor' = [proposedFor EXCEPT ![r] = k]
    /\ UNCHANGED <<approved, reviews, head, retirements, tasks>>

MoveHead(k, r, lifecycle) ==
    head' = [head EXCEPT ![k] = [generation |-> head[k].generation + 1,
                                 active     |-> r,
                                 lifecycle  |-> lifecycle]]

CanApprove(k, r, expected) ==
    /\ proposedFor[r] = k
    /\ r \notin approved
    /\ head[k].generation = expected

(* `cognition review --disposition approve --expected-generation`.  The    *)
(* same request for the same proposal may be answered from its receipt.    *)
Approve(k, r, expected) ==
    \/ /\ CanApprove(k, r, expected)
       /\ approved' = approved \cup {r}
       /\ reviews' = reviews \cup {r}
       /\ MoveHead(k, r, "active")
       /\ UNCHANGED <<proposedFor, retirements, tasks>>
    \/ /\ r \in reviews
       /\ UNCHANGED coreVars

CanRetire(k, expected) ==
    /\ head[k].lifecycle = "active"
    /\ head[k].generation = expected

(* `cognition lifecycle --action retire --expected-generation`, likewise.  *)
Retire(k, expected) ==
    \/ /\ CanRetire(k, expected)
       /\ MoveHead(k, head[k].active, "retired")
       /\ retirements' = retirements \cup {<<k, expected>>}
       /\ UNCHANGED <<proposedFor, approved, reviews, tasks>>
    \/ /\ <<k, expected>> \in retirements
       /\ UNCHANGED coreVars

(* `cognition use`: a task that completed with r is remembered.            *)
Use(k, prompt, r) ==
    /\ r \in Answers(k, prompt)
    /\ tasks' = tasks \cup {<<k, prompt, r>>}
    /\ UNCHANGED <<proposedFor, approved, reviews, head, retirements>>

-----------------------------------------------------------------------------
(* Other operators with review authority work on the same heads.           *)

OtherApproves(k, r) ==
    /\ head[k].generation < MaxGeneration
    /\ proposedFor[r] \in {None, k}
    /\ r \notin approved
    /\ proposedFor' = [proposedFor EXCEPT ![r] = k]
    /\ approved' = approved \cup {r}
    /\ MoveHead(k, r, "active")
    /\ UNCHANGED <<reviews, retirements, tasks>>

OtherRetires(k) ==
    /\ head[k].generation < MaxGeneration
    /\ head[k].lifecycle = "active"
    /\ MoveHead(k, head[k].active, "retired")
    /\ UNCHANGED <<proposedFor, approved, reviews, retirements, tasks>>

OtherReactivates(k) ==
    /\ head[k].generation < MaxGeneration
    /\ head[k].lifecycle = "retired"
    /\ MoveHead(k, head[k].active, "active")
    /\ UNCHANGED <<proposedFor, approved, reviews, retirements, tasks>>

OtherOperator(k) ==
    \/ \E r \in Revisions : OtherApproves(k, r)
    \/ OtherRetires(k)
    \/ OtherReactivates(k)

=============================================================================
