------------------------------ MODULE EventFeed ------------------------------
(***************************************************************************)
(* What a person watching a task is promised, whatever pages, streams and  *)
(* reconnections it takes: the log only grows; from the point where the    *)
(* view opened it shows every event once and in order; and it says that    *)
(* the task is over only when it has shown the event that ended it.        *)
(***************************************************************************)
EXTENDS Naturals

VARIABLES
  length,    \* events published so far
  closedAt,  \* the event that ended the task, 0 while it is open
  opened,    \* the view has loaded its first page
  shown,     \* the newest event the view has shown
  done       \* the view says that the task is over

vars == <<length, closedAt, opened, shown, done>>

Init ==
  /\ length \in Nat
  /\ closedAt = 0
  /\ opened = FALSE
  /\ shown = 0
  /\ done = FALSE

\* A transaction publishes its events together; one of them may end the task.
Publish ==
  /\ length' \in Nat /\ length' > length
  /\ \/ closedAt' = closedAt
     \/ closedAt = 0 /\ closedAt' = length'
  /\ UNCHANGED <<opened, shown, done>>

\* The first page: a recent part of the log, up to an event already published.
Open ==
  /\ ~opened
  /\ opened' = TRUE
  /\ shown' \in 0..length
  /\ UNCHANGED <<length, closedAt, done>>

Show ==
  /\ opened /\ ~done
  /\ shown < length
  /\ shown' = shown + 1
  /\ UNCHANGED <<length, closedAt, opened, done>>

Finish ==
  /\ opened /\ ~done
  /\ closedAt # 0 /\ closedAt <= shown
  /\ done' = TRUE
  /\ UNCHANGED <<length, closedAt, opened, shown>>

Next == Publish \/ Open \/ Show \/ Finish

Spec == Init /\ [][Next]_vars
==============================================================================
