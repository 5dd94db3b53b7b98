------------------------- MODULE DurableQueueProofs -------------------------
(***************************************************************************)
(* Proofs about DurableQueue, for every set of workers, calls, units and   *)
(* clients and every bound.                                                *)
(***************************************************************************)
EXTENDS DurableQueue, TLAPS

(***************************************************************************)
(* The row as enqueue commits it is well typed.                            *)
(***************************************************************************)
LEMMA TypeStart == Init => TypeOK
BY OwnerAssumption, CallAssumption, UnitAssumption, BoundAssumption
   DEF Init, TypeOK, Started, Status, Parked, Operation, Version, Snapshot,
       ApprovalStatus

(***************************************************************************)
(* Every transaction leaves a well-typed row.                              *)
(***************************************************************************)
LEMMA TypeStep == TypeOK /\ [Next]_vars => TypeOK'
<1> USE OwnerAssumption, CallAssumption, UnitAssumption, BoundAssumption
<1> SUFFICES ASSUME TypeOK, [Next]_vars PROVE TypeOK'
  OBVIOUS
<1> USE DEF TypeOK, Started, claimVars, callVars, checkpointVars, approvalVars
<1>1. ASSUME NEW w \in Owner, Claim(w) PROVE TypeOK'
  BY <1>1 DEF Claim, WorkflowClaim, Status, Leased, Parked, Terminal
<1>2. ASSUME NEW c \in claims, Fenced(c) PROVE TypeOK'
  <2>1. CASE Heartbeat(c)
    BY <2>1 DEF Heartbeat
  <2>2. CASE Quarantine(c)
    BY <2>2 DEF Quarantine, Release, Status, Parked
  <2>3. CASE ReconcileCalls(c)
    BY <2>3 DEF ReconcileCalls, DropReceipted
  <2>4. ASSUME NEW u \in Unit, NEW h \in BOOLEAN,
               h => u \in Gated, Begin(c, u, h)
        PROVE  TypeOK'
    BY <2>4 DEF Begin, Begun, Spend, Operation, ApprovalStatus
  <2>5. ASSUME NEW u \in Gated, Gate(c, u) PROVE TypeOK'
    BY <2>5 DEF Gate, Operation, ApprovalStatus
  <2>6. ASSUME NEW n \in 0..MaxModelCalls, JournalBudget(c, n) PROVE TypeOK'
    BY <2>6 DEF JournalBudget, Larger
  <2>7. ASSUME NEW n \in 0..MaxModelCalls, NEW k \in Call,
               JournalStart(c, k, n)
        PROVE  TypeOK'
    <3>1. c.generation \in 1..MaxGeneration
      BY DEF WorkflowClaim
    <3>2. /\ started' \in [Call -> 0..MaxGeneration]
          /\ started' = [started EXCEPT ![k] = c.generation]
          /\ pending' = pending \cup {k}
      BY <2>7, <3>1 DEF JournalStart
    <3>3. Started \subseteq Started' /\ k \in Started'
      BY <3>1, <3>2
    <3>4. pending' \subseteq Started' /\ receipts \subseteq Started' \cap ToolCall
      BY <3>2, <3>3
    <3>5. QED
      BY <2>7, <3>2, <3>4 DEF JournalStart, Larger
  <2>8. ASSUME NEW n \in 0..MaxModelCalls, NEW k \in Call,
               JournalFinish(c, k, n)
        PROVE  TypeOK'
    BY <2>8 DEF JournalFinish, Larger
  <2>9. ASSUME NEW n \in 0..MaxModelCalls, NEW k \in Call,
               JournalRejected(c, k, n)
        PROVE  TypeOK'
    BY <2>9 DEF JournalRejected, Larger
  <2>10. ASSUME NEW n \in 0..MaxModelCalls, NEW s \in SaveStatus,
                NEW v \in Version, Save(c, s, checkpoint, v, n)
         PROVE  TypeOK'
    <3>1. status' \in Status
      BY <2>10 DEF Save, SavedStatus, SaveStatus, Status, Parked, Terminal
    <3>2. QED
      BY <2>10, <3>1 DEF Save, Release, Larger
  <2>11. QED
    BY <1>2, <2>1, <2>2, <2>3, <2>4, <2>5, <2>6, <2>7, <2>8, <2>9, <2>10
       DEF Fenced
<1>3. CASE Tick
  BY <1>3 DEF Tick
<1>4. ASSUME NEW c \in claims, NEW k \in Call, CompleteReceipt(c, k) PROVE TypeOK'
  BY <1>4 DEF CompleteReceipt
<1>5. CASE Operate
  BY <1>5 DEF Operate, ReconcileCallsByOperator, DropReceipted,
              QueueReconciled, Status, Parked
<1>6. CASE Pause \/ Resume \/ Cancel
  BY <1>6 DEF Pause, Resume, Cancel, Control, Status, Leased, Parked, Terminal
<1>7. ASSUME NEW op \in Operation, Lapse(op) PROVE TypeOK'
  BY <1>7 DEF Lapse
<1>8. CASE DecideApproval
  <2>1. ASSUME NEW d \in Client, ReadSnapshot(d) PROVE TypeOK'
    BY <2>1 DEF ReadSnapshot, Snapshot
  <2>2. ASSUME NEW d \in Client, NEW u \in Gated, Approve(d, u) PROVE TypeOK'
    BY <2>2 DEF Approve, Decide, ApprovalStatus, Status, Parked
  <2>3. ASSUME NEW d \in Client, NEW u \in Gated, Reject(d, u) PROVE TypeOK'
    BY <2>3 DEF Reject, Decide, ApprovalStatus, Status, Parked
  <2>4. ASSUME NEW d \in Client, NEW u \in Gated, Modify(d, u) PROVE TypeOK'
    <3>1. /\ prior[d].checkpoint \in 0..MaxCheckpoint
          /\ prior[d].version + 1 \in Version
      BY <2>4 DEF Modify, Snapshot, Version
    <3>2. /\ status' \in Status
          /\ approval' \in [Operation -> ApprovalStatus]
      BY <2>4 DEF Modify, Decide, ApprovalStatus, Status, Parked
    <3>3. checkpoint' \in 1..MaxCheckpoint
      BY <2>4 DEF Modify
    <3>4. QED
      BY <2>4, <3>1, <3>2, <3>3 DEF Modify, Decide
  <2>5. QED
    BY <1>8, <2>1, <2>2, <2>3, <2>4 DEF DecideApproval
<1>9. CASE UNCHANGED vars
  BY <1>9 DEF vars
<1>10. QED
  BY <1>1, <1>2, <1>3, <1>4, <1>5, <1>6, <1>7, <1>8, <1>9 DEF Next

(***************************************************************************)
(* Every state reached holds values of the declared types; in particular   *)
(* the model never leaves the statuses, claims and counters the code knows.*)
(***************************************************************************)
THEOREM TypeCorrect == Spec => []TypeOK
BY TypeStart, TypeStep, PTL DEF Spec

-----------------------------------------------------------------------------

(***************************************************************************)
(* The inductive invariant.  The parts lean on each other: a fenced caller *)
(* is known to hold a leased row only by OwnerIffLeased, so that is what   *)
(* keeps a journalled call out of a parked row.                            *)
(***************************************************************************)
IInv ==
  /\ TypeOK
  /\ OwnerIffLeased
  /\ NewestClaimHolds
  /\ DoubtIsNeverRequeued
  /\ OneCallInDoubt
  /\ GatedUnitPaid
  /\ NoLostCheckpoint

(***************************************************************************)
(* A caller that passes the fence holds a row some worker is on.           *)
(***************************************************************************)
LEMMA FencedRowIsLeased ==
  ASSUME TypeOK, OwnerIffLeased, NEW c \in claims, Fence(c)
  PROVE  status \in Leased /\ owner # NoOwner /\ c.generation = generation
BY OwnerAssumption DEF TypeOK, OwnerIffLeased, Fence, WorkflowClaim

(***************************************************************************)
(* The status save writes is never one a worker holds.                     *)
(***************************************************************************)
LEMMA SavedStatusIsReleased ==
  ASSUME NEW s \in SaveStatus
  PROVE  /\ SavedStatus(s) \in Parked \cup Terminal
         /\ SavedStatus(s) \notin Leased
         /\ pending # {} => SavedStatus(s) \in {"recovery_required",
                                                "cancelled", "budget_exceeded"}
BY DEF SavedStatus, SaveStatus, Parked, Terminal, Leased

(***************************************************************************)
(* Ownership follows the status through every step (claim, save,           *)
(* quarantine, control, decide).                                           *)
(***************************************************************************)
LEMMA OwnerIffLeasedStep ==
  IInv /\ [Next]_vars => OwnerIffLeased'
<1> SUFFICES ASSUME IInv, [Next]_vars PROVE OwnerIffLeased'
  OBVIOUS
<1> USE DEF IInv, OwnerIffLeased, claimVars, callVars, checkpointVars,
            approvalVars
<1>1. ASSUME NEW w \in Owner, Claim(w) PROVE OwnerIffLeased'
  BY <1>1, OwnerAssumption DEF Claim, Leased
<1>2. ASSUME NEW c \in claims, Fenced(c) PROVE OwnerIffLeased'
  <2>1. CASE Heartbeat(c) \/ ReconcileCalls(c)
    BY <2>1 DEF Heartbeat, ReconcileCalls, DropReceipted
  <2>2. CASE Quarantine(c)
    BY <2>2 DEF Quarantine, Release, Leased
  <2>3. ASSUME NEW u \in Unit, NEW h \in BOOLEAN,
                 h => u \in Gated, Begin(c, u, h)
          PROVE  OwnerIffLeased'
    BY <2>3 DEF Begin
  <2>4. ASSUME NEW u \in Gated, Gate(c, u) PROVE OwnerIffLeased'
    BY <2>4 DEF Gate
  <2>5. ASSUME NEW n, NEW k, \/ JournalBudget(c, n) \/ JournalStart(c, k, n)
                            \/ JournalFinish(c, k, n)
                            \/ JournalRejected(c, k, n)
        PROVE  OwnerIffLeased'
    BY <2>5 DEF JournalBudget, JournalStart, JournalFinish, JournalRejected
  <2>6. ASSUME NEW n, NEW v, NEW s \in SaveStatus, NEW b, Save(c, s, b, v, n)
        PROVE  OwnerIffLeased'
    BY <2>6, SavedStatusIsReleased DEF Save, Release
  <2>7. QED
    BY <1>2, <2>1, <2>2, <2>3, <2>4, <2>5, <2>6 DEF Fenced
<1>3. CASE Tick
  BY <1>3 DEF Tick
<1>4. ASSUME NEW c \in claims, NEW k \in Call, CompleteReceipt(c, k) PROVE OwnerIffLeased'
  BY <1>4 DEF CompleteReceipt
<1>5. CASE Operate
  BY <1>5 DEF Operate, ReconcileCallsByOperator, DropReceipted,
              QueueReconciled, Leased
<1>6. CASE Pause \/ Resume \/ Cancel
  BY <1>6 DEF Pause, Resume, Cancel, Control, Leased, Parked
<1>7. ASSUME NEW op \in Operation, Lapse(op) PROVE OwnerIffLeased'
  BY <1>7 DEF Lapse
<1>8. CASE DecideApproval
  BY <1>8 DEF DecideApproval, ReadSnapshot, Approve, Reject, Modify, Decide,
              Decidable, Leased
<1>9. CASE UNCHANGED vars
  BY <1>9 DEF vars
<1>10. QED
  BY <1>1, <1>2, <1>3, <1>4, <1>5, <1>6, <1>7, <1>8, <1>9 DEF Next

(***************************************************************************)
(* Only claim hands out claims and moves the generation, and no step puts  *)
(* owner and generation back to an older claim.                            *)
(***************************************************************************)
LEMMA NewestClaimStep ==
  IInv /\ [Next]_vars => NewestClaimHolds'
<1> SUFFICES ASSUME IInv, [Next]_vars PROVE NewestClaimHolds'
  OBVIOUS
<1> USE DEF claimVars, callVars, checkpointVars, approvalVars
<1>1. TypeOK /\ NewestClaimHolds
  BY DEF IInv
<1>2. ASSUME NEW w \in Owner, Claim(w) PROVE NewestClaimHolds'
  <2>1. /\ generation' = generation + 1 /\ generation \in Nat
        /\ claims' = claims \cup {[owner |-> w, generation |-> generation']}
        /\ claims \subseteq WorkflowClaim
    BY <1>1, <1>2, BoundAssumption DEF Claim, TypeOK
  <2>2. \A c \in claims : c.generation \in Nat /\ c.generation <= generation
    BY <1>1, <2>1, BoundAssumption DEF NewestClaimHolds, WorkflowClaim
  <2>3. \A c, d \in claims' : /\ c.generation <= generation'
                              /\ c.generation = d.generation => c = d
    BY <1>1, <2>1, <2>2 DEF NewestClaimHolds
  <2>4. \A c \in claims' : Fence(c)' => c.generation = generation'
    BY DEF Fence
  <2>5. QED
    BY <2>3, <2>4 DEF NewestClaimHolds
<1>3. ASSUME UNCHANGED <<generation, claims>> PROVE NewestClaimHolds'
  BY <1>1, <1>3 DEF NewestClaimHolds, Fence
<1>4. ASSUME NEW c \in claims, Fenced(c) PROVE UNCHANGED <<generation, claims>>
  BY <1>4 DEF Fenced, Heartbeat, Quarantine, Release, ReconcileCalls,
              DropReceipted, Begin, Gate, JournalBudget, JournalStart,
              JournalFinish, JournalRejected, Save
<1>5. CASE Tick
  BY <1>3, <1>5 DEF Tick
<1>6. ASSUME NEW c \in claims, NEW k \in Call, CompleteReceipt(c, k) PROVE NewestClaimHolds'
  BY <1>3, <1>6 DEF CompleteReceipt
<1>7. CASE Operate
  BY <1>3, <1>7 DEF Operate, ReconcileCallsByOperator, DropReceipted,
                    QueueReconciled
<1>8. CASE Pause \/ Resume \/ Cancel
  BY <1>3, <1>8 DEF Pause, Resume, Cancel, Control
<1>9. ASSUME NEW op \in Operation, Lapse(op) PROVE NewestClaimHolds'
  BY <1>3, <1>9 DEF Lapse
<1>10. CASE DecideApproval
  BY <1>3, <1>10 DEF DecideApproval, ReadSnapshot, Approve, Reject, Modify,
                     Decide
<1>11. CASE UNCHANGED vars
  BY <1>3, <1>11 DEF vars
<1>12. QED
  BY <1>2, <1>3, <1>4, <1>5, <1>6, <1>7, <1>8, <1>9, <1>10, <1>11 DEF Next

(***************************************************************************)
(* A call in doubt stays with a leased, quarantined or ended row: the      *)
(* journal adds one only under the fence, and everything that parks a row  *)
(* looks at pending_calls first.                                           *)
(***************************************************************************)
LEMMA DoubtStep ==
  IInv /\ [Next]_vars => DoubtIsNeverRequeued' /\ OneCallInDoubt'
<1> SUFFICES ASSUME IInv, [Next]_vars
             PROVE  DoubtIsNeverRequeued' /\ OneCallInDoubt'
  OBVIOUS
<1> DEFINE Goal == DoubtIsNeverRequeued' /\ OneCallInDoubt'
<1> USE DEF claimVars, callVars, checkpointVars, approvalVars
<1>1. TypeOK /\ OwnerIffLeased /\ DoubtIsNeverRequeued /\ OneCallInDoubt
  BY DEF IInv
<1>2. ASSUME NEW w \in Owner, Claim(w) PROVE Goal
  BY <1>1, <1>2 DEF Claim, DoubtIsNeverRequeued, OneCallInDoubt, Leased
<1>3. ASSUME pending' \subseteq pending, status' = status PROVE Goal
  BY <1>1, <1>3 DEF DoubtIsNeverRequeued, OneCallInDoubt
<1>4. ASSUME NEW c \in claims, Fenced(c) PROVE Goal
  <2>1. CASE Heartbeat(c) \/ ReconcileCalls(c)
    BY <1>3, <2>1 DEF Heartbeat, ReconcileCalls, DropReceipted
  <2>2. CASE Quarantine(c)
    BY <1>1, <2>2 DEF Quarantine, DoubtIsNeverRequeued, OneCallInDoubt
  <2>3. ASSUME NEW u \in Unit, NEW h \in BOOLEAN,
                 h => u \in Gated, Begin(c, u, h)
          PROVE  Goal
    BY <1>3, <2>3 DEF Begin
  <2>4. ASSUME NEW u \in Gated, Gate(c, u) PROVE Goal
    BY <1>3, <2>4 DEF Gate
  <2>5. ASSUME NEW n, NEW k, \/ JournalBudget(c, n) \/ JournalFinish(c, k, n)
                            \/ JournalRejected(c, k, n)
        PROVE  Goal
    BY <1>3, <2>5 DEF JournalBudget, JournalFinish, JournalRejected
  <2>6. ASSUME NEW n, NEW k, JournalStart(c, k, n) PROVE Goal
    <3>1. status \in Leased
      BY <1>1, <2>6, FencedRowIsLeased DEF JournalStart
    <3>2. pending' = {k} /\ status' = status
      BY <2>6 DEF JournalStart, MayStart
    <3>3. QED
      BY <3>1, <3>2 DEF DoubtIsNeverRequeued, OneCallInDoubt
  <2>7. ASSUME NEW n, NEW v, NEW s \in SaveStatus, NEW b, Save(c, s, b, v, n) PROVE Goal
    BY <1>1, <2>7, SavedStatusIsReleased
       DEF Save, DoubtIsNeverRequeued, OneCallInDoubt
  <2>8. QED
    BY <1>4, <2>1, <2>2, <2>3, <2>4, <2>5, <2>6, <2>7 DEF Fenced
<1>5. CASE Tick
  BY <1>3, <1>5 DEF Tick
<1>6. ASSUME NEW c \in claims, NEW k \in Call, CompleteReceipt(c, k) PROVE Goal
  BY <1>3, <1>6 DEF CompleteReceipt
<1>7. CASE Operate
  BY <1>1, <1>7 DEF Operate, ReconcileCallsByOperator, DropReceipted,
                    QueueReconciled, DoubtIsNeverRequeued, OneCallInDoubt
<1>8. CASE Pause \/ Resume \/ Cancel
  BY <1>1, <1>8 DEF Pause, Resume, Cancel, Control, Leased, Parked,
                    DoubtIsNeverRequeued, OneCallInDoubt
<1>9. ASSUME NEW op \in Operation, Lapse(op) PROVE Goal
  BY <1>3, <1>9 DEF Lapse
<1>10. CASE DecideApproval
  BY <1>1, <1>10 DEF DecideApproval, ReadSnapshot, Approve, Reject, Modify,
                     Decide, Decidable, Leased, DoubtIsNeverRequeued,
                     OneCallInDoubt
<1>11. CASE UNCHANGED vars
  BY <1>3, <1>11 DEF vars
<1>12. QED
  BY <1>2, <1>4, <1>5, <1>6, <1>7, <1>8, <1>9, <1>10, <1>11 DEF Next

(***************************************************************************)
(* Nothing takes "consumed" away from the approval of the unit in the row, *)
(* and every new checkpoint extends the newest one.                        *)
(***************************************************************************)
LEMMA PaidAndExtendedStep ==
  IInv /\ [Next]_vars => GatedUnitPaid' /\ NoLostCheckpoint'
<1> SUFFICES ASSUME IInv, [Next]_vars
             PROVE  GatedUnitPaid' /\ NoLostCheckpoint'
  OBVIOUS
<1> DEFINE Goal == GatedUnitPaid' /\ NoLostCheckpoint'
<1> USE DEF claimVars, callVars, checkpointVars, approvalVars
<1>1. TypeOK /\ GatedUnitPaid /\ NoLostCheckpoint
  BY DEF IInv
<1>2. ASSUME UNCHANGED <<active, approval, checkpoint, basis>> PROVE Goal
  BY <1>1, <1>2 DEF GatedUnitPaid, NoLostCheckpoint
<1>3. active # NoUnit /\ active[3] => <<active[1], active[2]>> \in Operation
  BY <1>1 DEF TypeOK, Begun, Operation
<1>4. ASSUME NEW w \in Owner, Claim(w) PROVE Goal
  BY <1>2, <1>4 DEF Claim
<1>5. ASSUME NEW c \in claims, Fenced(c) PROVE Goal
  <2>1. CASE Heartbeat(c) \/ ReconcileCalls(c) \/ Quarantine(c)
    BY <1>2, <2>1 DEF Heartbeat, ReconcileCalls, DropReceipted, Quarantine
  <2>2. ASSUME NEW u \in Unit, NEW h \in BOOLEAN,
                 h => u \in Gated, Begin(c, u, h)
          PROVE  Goal
    <3>1. NoLostCheckpoint'
      BY <1>1, <2>2 DEF Begin, NoLostCheckpoint
    <3>2. active' = <<version, u, h>> /\ version' = version
      BY <2>2 DEF Begin
    <3>3. CASE h
      <4>1. <<version, u>> \in Operation
        BY <1>1, <2>2, <3>3 DEF TypeOK, Operation
      <4>2. approval'[<<version, u>>] = "consumed"
        BY <1>1, <2>2, <3>3, <4>1 DEF Begin, Spend, TypeOK
      <4>3. QED
        BY <3>1, <3>2, <4>2 DEF GatedUnitPaid
    <3>4. CASE ~h
      BY <3>1, <3>2, <3>4 DEF GatedUnitPaid
    <3>5. QED
      BY <3>3, <3>4
  <2>3. ASSUME NEW u \in Gated, Gate(c, u) PROVE Goal
    <3>1. \A op \in Operation :
            approval[op] = "consumed" => approval'[op] = "consumed"
      BY <1>1, <2>3 DEF Gate, TypeOK
    <3>2. UNCHANGED <<active, checkpoint, basis>>
      BY <2>3 DEF Gate
    <3>3. QED
      BY <1>1, <1>3, <3>1, <3>2 DEF GatedUnitPaid, NoLostCheckpoint
  <2>4. ASSUME NEW n, NEW k, \/ JournalBudget(c, n) \/ JournalStart(c, k, n)
                            \/ JournalFinish(c, k, n)
                            \/ JournalRejected(c, k, n)
        PROVE  Goal
    BY <1>2, <2>4 DEF JournalBudget, JournalStart, JournalFinish,
                      JournalRejected
  <2>5. ASSUME NEW n, NEW v, NEW s \in SaveStatus,
               Save(c, s, checkpoint, v, n)
        PROVE  Goal
    <3>1. NoLostCheckpoint'
      BY <1>1, <2>5 DEF Save, NoLostCheckpoint, TypeOK
    <3>2. GatedUnitPaid'
      BY <1>1, <2>5 DEF Save, GatedUnitPaid
    <3>3. QED
      BY <3>1, <3>2
  <2>6. QED
    BY <1>5, <2>1, <2>2, <2>3, <2>4, <2>5 DEF Fenced
<1>6. CASE Tick
  BY <1>2, <1>6 DEF Tick
<1>7. ASSUME NEW c \in claims, NEW k \in Call, CompleteReceipt(c, k) PROVE Goal
  BY <1>2, <1>7 DEF CompleteReceipt
<1>8. CASE Operate
  BY <1>2, <1>8 DEF Operate, ReconcileCallsByOperator, DropReceipted,
                    QueueReconciled
<1>9. CASE Pause \/ Resume \/ Cancel
  BY <1>2, <1>9 DEF Pause, Resume, Cancel, Control
<1>10. ASSUME NEW op \in Operation, Lapse(op) PROVE Goal
  BY <1>2, <1>10 DEF Lapse
<1>11. CASE DecideApproval
  <2>1. ASSUME NEW d \in Client, ReadSnapshot(d) PROVE Goal
    BY <1>2, <2>1 DEF ReadSnapshot
  <2>2. ASSUME NEW d \in Client, NEW u \in Gated, Approve(d, u) \/ Reject(d, u)
        PROVE  Goal
    <3>1. \A op \in Operation :
            approval[op] = "consumed" => approval'[op] = "consumed"
      BY <1>1, <2>2 DEF Approve, Reject, Decide, TypeOK
    <3>2. UNCHANGED <<active, checkpoint, basis>>
      BY <2>2 DEF Approve, Reject, Decide
    <3>3. QED
      BY <1>1, <1>3, <3>1, <3>2 DEF GatedUnitPaid, NoLostCheckpoint
  <2>3. ASSUME NEW d \in Client, NEW u \in Gated, Modify(d, u) PROVE Goal
    <3>1. GatedUnitPaid'
      <4>1. \A op \in Operation :
              approval[op] = "consumed" => approval'[op] = "consumed"
        BY <1>1, <2>3 DEF Modify, Decide, TypeOK
      <4>2. QED
        BY <1>1, <1>3, <2>3, <4>1 DEF Modify, Decide, GatedUnitPaid
    <3>2. NoLostCheckpoint'
      BY <1>1, <2>3 DEF Modify, Decide, Decidable, NoLostCheckpoint, TypeOK
    <3>3. QED
      BY <3>1, <3>2
  <2>4. QED
    BY <1>11, <2>1, <2>2, <2>3 DEF DecideApproval
<1>12. CASE UNCHANGED vars
  BY <1>2, <1>12 DEF vars
<1>13. QED
  BY <1>4, <1>5, <1>6, <1>7, <1>8, <1>9, <1>10, <1>11, <1>12 DEF Next

(***************************************************************************)
(* The invariant holds at first and through every step.                    *)
(***************************************************************************)
LEMMA InvariantStart == Init => IInv
BY TypeStart, OwnerAssumption, UnitAssumption
   DEF Init, IInv, OwnerIffLeased, Leased, NewestClaimHolds,
       DoubtIsNeverRequeued, OneCallInDoubt, GatedUnitPaid, NoLostCheckpoint,
       Operation, Version

LEMMA InvariantStep == IInv /\ [Next]_vars => IInv'
BY TypeStep, OwnerIffLeasedStep, NewestClaimStep, DoubtStep, PaidAndExtendedStep
   DEF IInv

(***************************************************************************)
(* The invariant holds throughout.                                         *)
(***************************************************************************)
THEOREM InvariantHolds == Spec => []IInv
BY InvariantStart, InvariantStep, PTL DEF Spec

(***************************************************************************)
(* The promises of the row, one by one.                                    *)
(***************************************************************************)

\* owner is set exactly while a worker is on the row.
THEOREM OwnerFollowsStatus == Spec => []OwnerIffLeased
BY InvariantHolds, PTL DEF IInv

\* Only the newest claim passes the fence.
THEOREM OnlyNewestClaimPasses == Spec => []NewestClaimHolds
BY InvariantHolds, PTL DEF IInv

\* A call in doubt never returns to the queue, and there is at most one.
THEOREM DoubtIsParked == Spec => [](DoubtIsNeverRequeued /\ OneCallInDoubt)
BY InvariantHolds, PTL DEF IInv

\* A gated experiment in progress has spent its approval.
THEOREM ExperimentsArePaid == Spec => []GatedUnitPaid
BY InvariantHolds, PTL DEF IInv

\* No checkpoint overwrites another one.
THEOREM CheckpointsExtend == Spec => []NoLostCheckpoint
BY InvariantHolds, PTL DEF IInv

(***************************************************************************)
(* A fenced step can only happen to a leased row.                          *)
(***************************************************************************)
LEMMA FencedStepIsLeased ==
  ASSUME IInv, NEW c \in claims, Fenced(c)
  PROVE  status \in Leased /\ owner # NoOwner
<1>1. Fence(c)
  BY DEF Fenced, Heartbeat, Quarantine, ReconcileCalls, Begin, Gate,
         JournalBudget, JournalStart, JournalFinish, JournalRejected, Save
<1>2. QED
  BY <1>1, FencedRowIsLeased DEF IInv

(***************************************************************************)
(* As long as a claim stays good nobody else writes a checkpoint: save and *)
(* quarantine release the row, claim moves the generation on, and a        *)
(* decision needs a row nobody holds.                                      *)
(***************************************************************************)
LEMMA GoodClaimKeepsCheckpoint ==
  ASSUME IInv, [Next]_vars, NEW c \in claims, Fence(c)'
  PROVE  Fence(c) /\ checkpoint' = checkpoint /\ version' = version
<1> DEFINE Goal == Fence(c) /\ checkpoint' = checkpoint /\ version' = version
<1> USE DEF claimVars, callVars, checkpointVars, approvalVars
<1>1. /\ c.owner \in Owner /\ c.owner # NoOwner
      /\ c.generation \in Nat /\ c.generation <= generation
      /\ generation \in Nat
      /\ lease \in Int /\ OwnerIffLeased
  BY OwnerAssumption, BoundAssumption
     DEF IInv, TypeOK, WorkflowClaim, NewestClaimHolds
<1>2. ASSUME NEW w \in Owner, Claim(w) PROVE FALSE
  BY <1>1, <1>2 DEF Claim, Fence
<1>3. ASSUME UNCHANGED <<owner, generation, checkpoint, version>>,
             lease' > 0 => lease > 0
      PROVE  Goal
  BY <1>3 DEF Fence
<1>4. ASSUME owner' = NoOwner PROVE FALSE
  BY <1>1, <1>4 DEF Fence
<1>5. ASSUME NEW d \in claims, Fenced(d) PROVE Goal
  <2>1. CASE Heartbeat(d)
    BY <1>3, <2>1 DEF Heartbeat, Fence
  <2>2. CASE ReconcileCalls(d)
    BY <1>3, <2>2 DEF ReconcileCalls, DropReceipted
  <2>3. CASE Quarantine(d)
    BY <1>4, <2>3 DEF Quarantine, Release
  <2>4. ASSUME NEW u \in Unit, NEW h \in BOOLEAN, Begin(d, u, h) PROVE Goal
    BY <1>3, <2>4 DEF Begin
  <2>5. ASSUME NEW u \in Gated, Gate(d, u) PROVE Goal
    BY <1>3, <2>5 DEF Gate
  <2>6. ASSUME NEW n, NEW k, \/ JournalBudget(d, n) \/ JournalStart(d, k, n)
                            \/ JournalFinish(d, k, n)
                            \/ JournalRejected(d, k, n)
        PROVE  Goal
    BY <1>3, <2>6 DEF JournalBudget, JournalStart, JournalFinish,
                      JournalRejected
  <2>7. ASSUME NEW n, NEW v, NEW s, NEW b, Save(d, s, b, v, n) PROVE Goal
    BY <1>4, <2>7 DEF Save, Release
  <2>8. QED
    BY <1>5, <2>1, <2>2, <2>3, <2>4, <2>5, <2>6, <2>7 DEF Fenced
<1>6. CASE Tick
  BY <1>1, <1>3, <1>6 DEF Tick
<1>7. ASSUME NEW d \in claims, NEW k \in Call, CompleteReceipt(d, k) PROVE Goal
  BY <1>3, <1>7 DEF CompleteReceipt
<1>8. CASE Operate
  BY <1>3, <1>8 DEF Operate, ReconcileCallsByOperator, DropReceipted,
                    QueueReconciled
<1>9. CASE Pause \/ Resume \/ Cancel
  BY <1>3, <1>9 DEF Pause, Resume, Cancel, Control
<1>10. ASSUME NEW op \in Operation, Lapse(op) PROVE Goal
  BY <1>3, <1>10 DEF Lapse
<1>11. CASE DecideApproval
  <2>1. ASSUME NEW d \in Client, ReadSnapshot(d) PROVE Goal
    BY <1>3, <2>1 DEF ReadSnapshot
  <2>2. ASSUME NEW d, NEW u, Approve(d, u) \/ Reject(d, u) PROVE Goal
    BY <1>3, <2>2 DEF Approve, Reject, Decide
  <2>3. ASSUME NEW d, NEW u, Modify(d, u) PROVE Goal
    <3>1. owner = NoOwner /\ owner' = owner
      BY <1>1, <2>3 DEF Modify, Decide, Decidable, OwnerIffLeased, Leased
    <3>2. QED
      BY <1>4, <3>1
  <2>4. QED
    BY <1>11, <2>1, <2>2, <2>3 DEF DecideApproval
<1>12. CASE UNCHANGED vars
  BY <1>3, <1>12 DEF vars
<1>13. QED
  BY <1>2, <1>5, <1>6, <1>7, <1>8, <1>9, <1>10, <1>11, <1>12 DEF Next

(***************************************************************************)
(* A claim, once handed out, is never taken back.                          *)
(***************************************************************************)
LEMMA ClaimsStay == [Next]_vars => claims \subseteq claims'
<1> SUFFICES ASSUME [Next]_vars PROVE claims \subseteq claims'
  OBVIOUS
<1> USE DEF claimVars, callVars, checkpointVars, approvalVars
<1>1. ASSUME NEW c \in claims, Fenced(c) PROVE claims' = claims
  BY <1>1 DEF Fenced, Heartbeat, Quarantine, Release, ReconcileCalls,
              DropReceipted, Begin, Gate, JournalBudget, JournalStart,
              JournalFinish, JournalRejected, Save
<1>2. CASE DecideApproval
  BY <1>2 DEF DecideApproval, ReadSnapshot, Approve, Reject, Modify, Decide
<1>3. CASE Operate
  BY <1>3 DEF Operate, ReconcileCallsByOperator, DropReceipted, QueueReconciled
<1>4. CASE UNCHANGED vars
  BY <1>4 DEF vars
<1>5. QED
  BY <1>1, <1>2, <1>3, <1>4 DEF Next, Claim, Tick, CompleteReceipt, Pause,
     Resume, Cancel, Control, Lapse

(***************************************************************************)
(* A finished workflow is never touched again.                             *)
(***************************************************************************)
THEOREM FinishedIsFinished == Spec => TerminalIsFinal
<1>1. IInv /\ [Next]_vars => [(status \in Terminal) => UNCHANGED recordVars]_vars
  <2> SUFFICES ASSUME IInv, [Next]_vars, status \in Terminal
               PROVE  UNCHANGED recordVars
    OBVIOUS
  <2> USE DEF recordVars, claimVars, callVars, checkpointVars, approvalVars
  <2>1. status \notin Leased /\ status \notin Parked
    BY DEF Terminal, Leased, Parked
  <2>2. ASSUME NEW w \in Owner, Claim(w) PROVE FALSE
    BY <2>1, <2>2 DEF Claim, Parked
  <2>3. ASSUME NEW c \in claims, Fenced(c) PROVE FALSE
    BY <2>1, <2>3, FencedStepIsLeased
  <2>4. CASE Tick
    BY <2>4 DEF Tick
  <2>5. ASSUME NEW c \in claims, NEW k \in Call, CompleteReceipt(c, k) PROVE UNCHANGED recordVars
    BY <2>5 DEF CompleteReceipt
  <2>6. CASE Operate
    BY <2>1, <2>6 DEF Operate, ReconcileCallsByOperator, QueueReconciled, Parked
  <2>7. CASE Pause \/ Resume \/ Cancel
    BY <2>1, <2>7 DEF Pause, Resume, Cancel, Control, Leased, Parked
  <2>8. ASSUME NEW op \in Operation, Lapse(op) PROVE UNCHANGED recordVars
    BY <2>8 DEF Lapse
  <2>9. CASE DecideApproval
    BY <2>1, <2>9 DEF DecideApproval, ReadSnapshot, Approve, Reject, Modify,
                      Decide, Decidable, Parked
  <2>10. CASE UNCHANGED vars
    BY <2>10 DEF vars
  <2>11. QED
    BY <2>2, <2>3, <2>4, <2>5, <2>6, <2>7, <2>8, <2>9, <2>10 DEF Next
<1>2. QED
  BY <1>1, InvariantHolds, PTL DEF Spec, TerminalIsFinal

(***************************************************************************)
(* A unit that was begun is forgotten only with the checkpoint that        *)
(* settles it.                                                             *)
(***************************************************************************)
THEOREM UnitsAreSettled == Spec => UnitClosedByCheckpoint
<1> DEFINE Settled ==
      active # NoUnit /\ active' # active =>
        /\ active' = NoUnit
        /\ checkpoint' = checkpoint + 1
        /\ pending = {} \/ status' \in {"cancelled", "budget_exceeded"}
<1>1. IInv /\ [Next]_vars => [Settled]_vars
  <2> SUFFICES ASSUME IInv, [Next]_vars, active # NoUnit, active' # active
               PROVE  Settled
    OBVIOUS
  <2> USE DEF claimVars, callVars, checkpointVars, approvalVars
  <2>1. ASSUME NEW w \in Owner, Claim(w) PROVE FALSE
    BY <2>1 DEF Claim
  <2>2. ASSUME NEW c \in claims, Fenced(c) PROVE Settled
    <3>1. ASSUME NEW n, NEW v, NEW s \in SaveStatus, NEW b, Save(c, s, b, v, n)
          PROVE  Settled
      BY <3>1, SavedStatusIsReleased DEF Save
    <3>2. QED
      BY <2>2, <3>1
         DEF Fenced, Heartbeat, Quarantine, ReconcileCalls, DropReceipted,
             Begin, Gate, JournalBudget, JournalStart, JournalFinish,
             JournalRejected
  <2>3. QED
    BY <2>1, <2>2
       DEF Next, Tick, CompleteReceipt, Operate, ReconcileCallsByOperator,
           DropReceipted, QueueReconciled, Pause, Resume, Cancel, Control,
           Lapse, DecideApproval, ReadSnapshot, Approve, Reject, Modify,
           Decide, vars
<1>2. QED
  BY <1>1, InvariantHolds, PTL DEF Spec, UnitClosedByCheckpoint

(***************************************************************************)
(* After a cancellation was requested nothing new starts.                  *)
(***************************************************************************)
THEOREM CancellationIsHonoured == Spec => CancelIsHonoured
<1> DEFINE Honoured ==
      status = "cancel_requested" =>
        /\ status' \in {"cancel_requested", "cancelled", "recovery_required"}
        /\ pending' \subseteq pending
        /\ active' \in {active, NoUnit}
<1>1. IInv /\ [Next]_vars => [Honoured]_vars
  <2> SUFFICES ASSUME IInv, [Next]_vars, status = "cancel_requested"
               PROVE  Honoured
    OBVIOUS
  <2> USE DEF claimVars, callVars, checkpointVars, approvalVars
  <2>1. ASSUME NEW w \in Owner, Claim(w) PROVE Honoured
    BY <2>1 DEF Claim
  <2>2. ASSUME NEW c \in claims, Fenced(c) PROVE Honoured
    <3>1. ASSUME NEW n, NEW v, NEW s, NEW b, Save(c, s, b, v, n) PROVE Honoured
      BY <3>1 DEF Save, SavedStatus
    <3>2. QED
      BY <2>2, <3>1
         DEF Fenced, Heartbeat, Quarantine, ReconcileCalls, DropReceipted,
             Begin, Gate, JournalBudget, JournalStart, MayStart,
             JournalFinish, JournalRejected
  <2>3. CASE Operate
    BY <2>3 DEF Operate, ReconcileCallsByOperator, QueueReconciled
  <2>4. CASE DecideApproval
    BY <2>4 DEF DecideApproval, ReadSnapshot, Approve, Reject, Modify, Decide,
                Decidable
  <2>5. CASE Pause \/ Resume \/ Cancel
    BY <2>5 DEF Pause, Resume, Cancel, Control, Parked
  <2>6. QED
    BY <2>1, <2>2, <2>3, <2>4, <2>5
       DEF Next, Tick, CompleteReceipt, Lapse, vars
<1>2. QED
  BY <1>1, InvariantHolds, PTL DEF Spec, CancelIsHonoured

(***************************************************************************)
(* While nobody holds the row only a receipt clears a call in doubt.       *)
(***************************************************************************)
THEOREM ReceiptsResolveDoubt == Spec => DoubtResolvedByReceipt
<1> DEFINE Resolved == owner = NoOwner => pending \ pending' \subseteq receipts
<1>1. IInv /\ [Next]_vars => [Resolved]_vars
  <2> SUFFICES ASSUME IInv, [Next]_vars, owner = NoOwner
               PROVE  pending \ pending' \subseteq receipts
    OBVIOUS
  <2> USE DEF claimVars, callVars, checkpointVars, approvalVars
  <2>1. ASSUME NEW c \in claims, Fenced(c) PROVE FALSE
    BY <2>1, FencedStepIsLeased
  <2>2. ASSUME pending' = pending \/ pending' = pending \ receipts
        PROVE  pending \ pending' \subseteq receipts
    BY <2>2
  <2>3. QED
    BY <2>1, <2>2
       DEF Next, Claim, Tick, CompleteReceipt, Operate,
           ReconcileCallsByOperator, DropReceipted, QueueReconciled, Pause,
           Resume, Cancel, Control, Lapse, DecideApproval, ReadSnapshot,
           Approve, Reject, Modify, Decide, vars
<1>2. QED
  BY <1>1, InvariantHolds, PTL DEF Spec, DoubtResolvedByReceipt

(***************************************************************************)
(* The queue implements ToolAuthority: a claim is a takeover, a request    *)
(* of the user narrows what the claim allows, and whatever ends the lease  *)
(* or gives the row back shuts it.  Every other transaction is a stutter.  *)
(***************************************************************************)
THEOREM QueueImplementsAuthority == Spec => AuthorityIsImplemented
<1>1. Init => Authority!AuthorityInit
  BY DEF Init, Authority!AuthorityInit, Granted
<1>2. IInv /\ [Next]_vars => [Authority!AuthorityNext]_<<generation, Granted>>
  <2> SUFFICES ASSUME IInv, [Next]_vars
               PROVE  \/ Authority!AuthorityNext
                      \/ UNCHANGED <<generation, Granted>>
    OBVIOUS
  <2> DEFINE Goal == \/ Authority!AuthorityNext
                     \/ UNCHANGED <<generation, Granted>>
  <2> USE DEF claimVars, callVars, checkpointVars, approvalVars
  <2>1. /\ OwnerIffLeased /\ status \in Status
        /\ lease \in Int /\ LeaseTicks \in Nat \ {0}
    BY BoundAssumption DEF IInv, TypeOK
  <2>2. ASSUME UNCHANGED <<generation, owner, lease, status>> PROVE Goal
    BY <2>2 DEF Granted
  <2>3. ASSUME owner' = NoOwner, generation' = generation PROVE Goal
    BY <2>3 DEF Granted, Authority!AuthorityNext, Authority!Shut
  <2>4. ASSUME NEW w \in Owner, Claim(w) PROVE Goal
    <3>1. Granted = "shut"
      BY <2>1, <2>4 DEF Claim, Granted, OwnerIffLeased, Leased
    <3>2. Granted' = status' /\ status' \in Leased
      BY <2>1, <2>4, OwnerAssumption DEF Claim, Granted, Leased
    <3>3. QED
      BY <2>4, <3>1, <3>2
         DEF Claim, Leased, Authority!AuthorityNext, Authority!TakeOver,
             Authority!Mode
  <2>5. ASSUME NEW c \in claims, Fenced(c) PROVE Goal
    <3>1. CASE Heartbeat(c)
      BY <2>1, <3>1 DEF Heartbeat, Fence, Granted
    <3>2. CASE Quarantine(c)
      BY <2>3, <3>2 DEF Quarantine, Release
    <3>3. ASSUME NEW n, NEW v, NEW s, NEW b, Save(c, s, b, v, n) PROVE Goal
      BY <2>3, <3>3 DEF Save, Release
    <3>4. QED
      BY <2>2, <2>5, <3>1, <3>2, <3>3
         DEF Fenced, ReconcileCalls, DropReceipted, Begin, Gate,
             JournalBudget, JournalStart, JournalFinish, JournalRejected
  <2>6. CASE Tick
    BY <2>1, <2>6
       DEF Tick, Granted, Authority!AuthorityNext, Authority!Shut
  <2>7. CASE DecideApproval
    BY <2>1, <2>2, <2>7
       DEF DecideApproval, ReadSnapshot, Approve, Reject, Modify, Decide,
           Decidable, Granted, OwnerIffLeased, Leased
  <2>8. CASE Operate
    BY <2>1, <2>8
       DEF Operate, ReconcileCallsByOperator, DropReceipted, QueueReconciled,
           Granted, OwnerIffLeased, Leased
  <2>9. CASE Pause \/ Resume \/ Cancel
    BY <2>1, <2>9
       DEF Pause, Resume, Cancel, Control, Granted, OwnerIffLeased, Leased,
           Parked, Authority!AuthorityNext, Authority!RequestPause,
           Authority!RequestCancel
  <2>10. QED
    BY <2>2, <2>4, <2>5, <2>6, <2>7, <2>8, <2>9
       DEF Next, CompleteReceipt, Lapse, vars
<1>3. QED
  BY <1>1, <1>2, InvariantHolds, PTL
     DEF Spec, AuthorityIsImplemented, Authority!AuthoritySpec,
         Authority!authority

(***************************************************************************)
(* A spent approval stays spent.                                           *)
(***************************************************************************)
THEOREM ApprovalsAreSpentOnce == Spec => ApprovalSpentOnce
<1> DEFINE Spent(op) == approval[op] \in {"consumed", "superseded"}
<1> DEFINE Kept == \A op \in Operation : Spent(op) => approval'[op] = approval[op]
<1>1. IInv /\ [Next]_vars => [Kept]_vars
  <2> SUFFICES ASSUME IInv, [Next]_vars PROVE Kept
    OBVIOUS
  <2> USE DEF claimVars, callVars, checkpointVars, approvalVars
  <2>1. approval \in [Operation -> ApprovalStatus]
    BY DEF IInv, TypeOK
  <2>2. ASSUME NEW op, NEW s, ~Spent(op),
               approval' = [approval EXCEPT ![op] = s]
        PROVE  Kept
    BY <2>1, <2>2
  <2>3. CASE approval' = approval
    BY <2>3
  <2>4. ASSUME NEW c \in claims, Fenced(c) PROVE Kept
    <3>1. ASSUME NEW u \in Unit, NEW h \in BOOLEAN,
                 h => u \in Gated, Begin(c, u, h)
          PROVE  Kept
      BY <2>2, <2>3, <3>1 DEF Begin, Spend, Approved
    <3>2. ASSUME NEW u \in Gated, Gate(c, u) PROVE Kept
      BY <2>2, <3>2 DEF Gate
    <3>3. QED
      BY <2>3, <2>4, <3>1, <3>2
         DEF Fenced, Heartbeat, Quarantine, ReconcileCalls, DropReceipted,
             JournalBudget, JournalStart, JournalFinish, JournalRejected, Save
  <2>5. CASE DecideApproval
    <3>1. ASSUME NEW d, NEW u, Approve(d, u) PROVE Kept
      BY <2>2, <3>1 DEF Approve, Decide
    <3>2. ASSUME NEW d, NEW u, Reject(d, u) PROVE Kept
      BY <2>2, <3>2 DEF Reject, Decide
    <3>3. ASSUME NEW d, NEW u, Modify(d, u) PROVE Kept
      BY <2>2, <3>3 DEF Modify, Decide
    <3>4. QED
      BY <2>3, <2>5, <3>1, <3>2, <3>3 DEF DecideApproval, ReadSnapshot
  <2>6. QED
    BY <2>3, <2>4, <2>5
       DEF Next, Claim, Tick, CompleteReceipt, Operate,
           ReconcileCallsByOperator, DropReceipted, QueueReconciled, Pause,
           Resume, Cancel, Control, Lapse, vars
<1>2. QED
  BY <1>1, InvariantHolds, PTL DEF Spec, ApprovalSpentOnce
=============================================================================
