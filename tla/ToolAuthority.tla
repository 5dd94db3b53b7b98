---------------------------- MODULE ToolAuthority ----------------------------
(***************************************************************************)
(* What a tool service sees of the workflow it works for: the generation   *)
(* of the newest claim, and what that claim still allows.  This is the     *)
(* queue of module DurableQueue reduced to what OperationStore.authorize   *)
(* reads, and the queue is shown to implement it.                          *)
(***************************************************************************)
EXTENDS Naturals

CONSTANT MaxGeneration  \* bound on claims

ASSUME GenerationAssumption == MaxGeneration \in Nat

VARIABLES
  generation,  \* WorkflowJobRow.generation
  mode         \* what the row's status and lease amount to

authority == <<generation, mode>>

\* While the newest claim passes the fence, the status of the row; "shut" once
\* no claim passes it.
Mode == {"running", "pause_requested", "cancel_requested", "shut"}

AuthorityTypeOK == generation \in 0..MaxGeneration /\ mode \in Mode

AuthorityInit == generation = 0 /\ mode = "shut"

\* DurableRepository.fence.
Fenced(g) == g = generation /\ mode # "shut"

\* A queued row, or one whose lease has ended, is claimed; what was requested
\* of the worker before is still requested of this one.
TakeOver ==
  /\ mode = "shut" /\ generation < MaxGeneration
  /\ generation' = generation + 1
  /\ mode' \in Mode \ {"shut"}

RequestPause ==
  /\ mode = "running"
  /\ mode' = "pause_requested"
  /\ UNCHANGED generation

RequestCancel ==
  /\ mode \in {"running", "pause_requested"}
  /\ mode' = "cancel_requested"
  /\ UNCHANGED generation

\* The lease ends, or the worker saves and gives the row back.
Shut ==
  /\ mode # "shut"
  /\ mode' = "shut"
  /\ UNCHANGED generation

AuthorityNext == TakeOver \/ RequestPause \/ RequestCancel \/ Shut

AuthoritySpec == AuthorityInit /\ [][AuthorityNext]_authority
==============================================================================
