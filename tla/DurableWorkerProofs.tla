------------------------- MODULE DurableWorkerProofs -------------------------
(***************************************************************************)
(* Proof that DurableWorker implements DurableQueue, for every number of   *)
(* workers, steps and faults: what workers, operators and users do to the  *)
(* row is always one of its transactions, and in particular a worker that  *)
(* saves has read the newest checkpoint.  What is proved of the queue then *)
(* holds of the whole.                                                     *)
(***************************************************************************)
EXTENDS DurableWorker, DurableQueueProofs

PC == {"idle", "load", "calls", "evidence", "gate", "park", "begin", "charge",
       "start", "work", "calling", "record", "save"}

\* A run is a record, whatever its state field holds.
IsRun(r) ==
  /\ r = [base |-> r.base, version |-> r.version, state |-> r.state,
          unit |-> r.unit, used |-> r.used, call |-> r.call,
          outcome |-> r.outcome, want |-> r.want]
  /\ r.base \in Int
  /\ r.version \in Version
  /\ r.unit \in Begun \cup {NoUnit}
  /\ r.used \in 0..MaxModelCalls
  /\ r.want \in SaveStatus

Shape ==
  /\ pc \in [Owner -> PC]
  /\ held \in [Owner -> Nat]
  /\ run = [w \in Owner |-> run[w]]
  /\ \A w \in Owner : IsRun(run[w])

\* An execution holds a claim that was handed out to its worker.
Claimed(w) == pc[w] # "idle" => Held(w) \in claims

\* As long as its claim is good, a run was computed from the newest checkpoint.
Current(w) ==
  pc[w] \notin {"idle", "load"} /\ Fence(Held(w)) =>
    /\ run[w].base = checkpoint
    /\ \/ run[w].version = version
       \/ pc[w] \in {"record", "save"} /\ run[w].version = version + 1

\* A unit at the gate or about to begin is one that begin accepts.
Beginnable(w) ==
  /\ pc[w] \in {"gate", "begin"} => run[w].unit \in Begun
  /\ pc[w] = "gate" => run[w].unit[2] \in Gated

WInv ==
  /\ IInv
  /\ Shape
  /\ \A w \in Owner : Claimed(w) /\ Current(w) /\ Beginnable(w)

-----------------------------------------------------------------------------

(***************************************************************************)
(* No worker starts with a claim.                                          *)
(***************************************************************************)
LEMMA WorkerStart == WorkerInit => WInv
<1> SUFFICES ASSUME WorkerInit PROVE WInv
  OBVIOUS
<1>1. Init /\ IInv
  BY InvariantStart DEF WorkerInit
<1>2. IsRun(NoRun)
  BY BoundAssumption DEF IsRun, NoRun, Version, SaveStatus, Parked
<1>3. QED
  BY <1>1, <1>2 DEF WorkerInit, WInv, Shape, PC, Claimed, Current, Beginnable

(***************************************************************************)
(* What an execution does to the row is a fenced transaction with the      *)
(* claim it holds, or nothing.                                             *)
(***************************************************************************)
LEMMA FencedIsNext ==
  ASSUME NEW c \in claims, Fenced(c)
  PROVE  Next
BY DEF Next

LEMMA WorkRefines ==
  ASSUME WInv, NEW w \in Owner, Work(w)
  PROVE  [Next]_vars
<1> DEFINE Goal == [Next]_vars
<1>1. ASSUME UNCHANGED vars PROVE Goal
  BY <1>1
<1>2. ASSUME pc[w] # "idle", Fenced(Held(w)) PROVE Goal
  BY <1>2, FencedIsNext DEF WInv, Claimed
<1>3. IsRun(run[w]) /\ run[w].used \in 0..MaxModelCalls
  BY DEF WInv, Shape, IsRun
<1>4. pending \subseteq Call
  BY DEF WInv, IInv, TypeOK, Started
<1>5. CASE LoadStopped(w) \/ LoadUncertain(w) \/ LoadFresh(w)
  BY <1>1, <1>5 DEF LoadStopped, LoadUncertain, LoadFresh, Loading
<1>6. CASE LoadCorrupt(w)
  BY <1>2, <1>6 DEF LoadCorrupt, Fenced
<1>7. CASE ReconcileHeld(w)
  BY <1>2, <1>7 DEF ReconcileHeld, Fenced
<1>8. CASE Reconcile(w) \/ GateOpen(w)
  BY <1>1, <1>8 DEF Reconcile, GateOpen
<1>9. CASE GateShut(w)
  <2>1. run[w].unit[2] \in Gated /\ pc[w] # "idle"
    BY <1>9 DEF GateShut, Gating, WInv, Beginnable
  <2>2. CASE Gate(Held(w), run[w].unit[2])
    BY <1>2, <2>1, <2>2 DEF Fenced
  <2>3. QED
    BY <1>1, <1>9, <2>2 DEF GateShut
<1>10. CASE BeginUnit(w)
  <2>1. /\ run[w].unit[2] \in Unit /\ run[w].unit[3] \in BOOLEAN
        /\ run[w].unit[3] => run[w].unit[2] \in Gated
        /\ pc[w] # "idle"
    BY <1>10 DEF BeginUnit, WInv, Beginnable, Begun
  <2>2. CASE Begin(Held(w), run[w].unit[2], run[w].unit[3])
    BY <1>2, <2>1, <2>2 DEF Fenced
  <2>3. QED
    BY <1>1, <1>10, <2>2 DEF BeginUnit
<1>11. CASE Charge(w)
  BY <1>2, <1>3, <1>11 DEF Charge, Fenced
<1>12. CASE StartStep(w) \/ EndStep(w) \/ RecordStep(w) \/ Replan(w)
            \/ RecordPlan(w) \/ EndStage(w) \/ FailStage(w)
  BY <1>1, <1>12 DEF StartStep, EndStep, RecordStep, Replan, RecordPlan,
                     EndStage, PlannerEnds, AdvanceEnds, QualityEnds,
                     ReviewerEnds, WriterEnds, Ending, FailStage
<1>13. ASSUME NEW k \in Call, StartCall(w, k) PROVE Goal
  <2>1. Reserved(w, k) \in 0..MaxModelCalls
    BY <1>3, <1>13, BoundAssumption DEF StartCall, Reserved
  <2>2. QED
    BY <1>2, <1>13, <2>1 DEF StartCall, Working, Fenced
<1>14. CASE FinishCall(w)
  BY <1>2, <1>3, <1>4, <1>14 DEF FinishCall, JournalFinish, Fenced
<1>15. CASE RejectCall(w)
  <2>1. Larger(0, run[w].used - 1) \in 0..MaxModelCalls
    BY <1>3, BoundAssumption DEF Larger
  <2>2. run[w].call \in Call
    BY <1>4, <1>15 DEF RejectCall, JournalRejected
  <2>3. Fenced(Held(w))
    BY <1>15, <2>1, <2>2 DEF RejectCall, Fenced
  <2>4. QED
    BY <1>2, <1>15, <2>3 DEF RejectCall
<1>16. CASE LoseAnswer(w) \/ RefuseCall(w) \/ OutOfBudget(w) \/ LoseLease(w)
  BY <1>1, <1>16 DEF LoseAnswer, RefuseCall, OutOfBudget, LoseLease
<1>17. CASE SaveRun(w)
  <2>1. Save(Held(w), run[w].want, run[w].base, run[w].version, run[w].used)
        /\ pc[w] \in {"save", "park"}
    BY <1>17 DEF SaveRun
  <2>2. run[w].base = checkpoint /\ run[w].version \in {version, version + 1}
    BY <2>1 DEF Save, WInv, Current
  <2>3. run[w].version \in Version /\ run[w].want \in SaveStatus
    BY <1>3 DEF IsRun
  <2>4. Fenced(Held(w))
    BY <1>3, <2>1, <2>2, <2>3 DEF Fenced
  <2>5. QED
    BY <1>2, <2>1, <2>4
<1>18. QED
  BY <1>5, <1>6, <1>7, <1>8, <1>9, <1>10, <1>11, <1>12, <1>13, <1>14, <1>15,
     <1>16, <1>17 DEF Work

(***************************************************************************)
(* Every step of the whole is a transaction of the row or leaves it alone. *)
(***************************************************************************)
LEMMA StepRefines ==
  ASSUME WInv, [WorkerNext]_allVars
  PROVE  [Next]_vars
<1>1. ASSUME NEW w \in Owner, WorkerClaim(w) PROVE Next
  BY <1>1 DEF WorkerClaim, Next
<1>2. ASSUME NEW w \in Owner, Interrupt(w) \/ Renew(w) PROVE [Next]_vars
  <2>1. Held(w) \in claims
    BY <1>2 DEF Interrupt, Renew, WInv, Claimed
  <2>2. CASE Heartbeat(Held(w))
    BY <2>1, <2>2, FencedIsNext DEF Fenced
  <2>3. QED
    BY <1>2, <2>2 DEF Interrupt, Renew
<1>3. ASSUME NEW w \in Owner, Crash(w) PROVE UNCHANGED vars
  BY <1>3 DEF Crash
<1>4. CASE Desk
  <2>1. CASE DeskOpen \/ DeskEvidence \/ DeskConflict
    BY <2>1 DEF DeskOpen, DeskEvidence, DeskConflict
  <2>2. ASSUME DeskCalls \/ DeskQueue PROVE Operate
    <3>1. checkpoint = desk.seq /\ checkpoint \in 0..MaxCheckpoint
      BY <2>2 DEF DeskCalls, DeskQueue, ReconcileCallsByOperator,
                  QueueReconciled, WInv, IInv, TypeOK
    <3>2. QED
      BY <2>2, <3>1 DEF DeskCalls, DeskQueue, Operate
  <2>3. QED
    BY <1>4, <2>1, <2>2 DEF Desk, Next
<1>5. CASE UserControl
  BY <1>5 DEF UserControl, Next
<1>6. CASE UserDecision
  BY <1>6 DEF UserDecision, DecideApproval, Next
<1>7. CASE Corrupt
  BY <1>7 DEF Corrupt
<1>8. CASE Clock
  BY <1>8 DEF Clock, Next
<1>9. CASE Outside
  BY <1>9 DEF Outside, Next
<1>10. CASE UNCHANGED allVars
  BY <1>10 DEF allVars
<1>11. QED
  BY <1>1, <1>2, <1>3, <1>4, <1>5, <1>6, <1>7, <1>8, <1>9, <1>10, WorkRefines
     DEF WorkerNext

-----------------------------------------------------------------------------

(***************************************************************************)
(* An execution that takes no part in a step keeps its claim, and its run  *)
(* stays current: GoodClaimKeepsCheckpoint.                                *)
(***************************************************************************)
LEMMA OthersKeep ==
  ASSUME WInv, [Next]_vars, NEW x \in Owner,
         pc'[x] = pc[x], held'[x] = held[x], run'[x] = run[x]
  PROVE  Claimed(x)' /\ Current(x)' /\ Beginnable(x)'
<1>1. Held(x)' = Held(x)
  BY DEF Held
<1>2. Claimed(x)' /\ Beginnable(x)'
  BY <1>1, ClaimsStay DEF WInv, Claimed, Beginnable
<1>3. ASSUME pc[x] \notin {"idle", "load"}, Fence(Held(x))' PROVE Current(x)'
  <2>1. PICK c \in claims : c = Held(x)
    BY <1>3 DEF WInv, Claimed
  <2>2. Fence(c)'
    BY <1>1, <1>3, <2>1 DEF Fence
  <2>3. Fence(c) /\ checkpoint' = checkpoint /\ version' = version
    BY <2>2, GoodClaimKeepsCheckpoint DEF WInv
  <2>4. Fence(Held(x))
    BY <2>1, <2>3
  <2>5. QED
    BY <1>3, <2>3, <2>4 DEF WInv, Current
<1>4. QED
  BY <1>2, <1>3 DEF Current

(***************************************************************************)
(* So a step of one worker only has to answer for that worker.             *)
(***************************************************************************)
LEMMA OneWorkerMoves ==
  ASSUME WInv, [Next]_vars, NEW w \in Owner, NEW p \in PC, NEW r, IsRun(r),
         Goto(w, p, r), NEW g \in Nat, held' = [held EXCEPT ![w] = g],
         Claimed(w)', Current(w)', Beginnable(w)'
  PROVE  WInv'
<1>1. IInv'
  BY InvariantStep DEF WInv
<1>2. Shape'
  BY DEF WInv, Shape, Goto
<1>3. ASSUME NEW x \in Owner, x # w
      PROVE  Claimed(x)' /\ Current(x)' /\ Beginnable(x)'
  <2>1. pc'[x] = pc[x] /\ held'[x] = held[x] /\ run'[x] = run[x]
    BY <1>3 DEF WInv, Shape, Goto
  <2>2. QED
    BY <2>1, OthersKeep
<1>4. QED
  BY <1>1, <1>2, <1>3 DEF WInv

(***************************************************************************)
(* Nor does a step of nobody: operators, users, the clock.                 *)
(***************************************************************************)
LEMMA NobodyMoves ==
  ASSUME WInv, [Next]_vars, UNCHANGED <<pc, held, run>>
  PROVE  WInv'
<1>1. IInv' /\ Shape'
  BY InvariantStep DEF WInv, Shape
<1>2. QED
  BY <1>1, OthersKeep DEF WInv

(***************************************************************************)
(* An execution that ends gives up its claim.                              *)
(***************************************************************************)
LEMMA LeavingKeeps ==
  ASSUME WInv, [Next]_vars, NEW w \in Owner, Leave(w)
  PROVE  WInv'
<1>1. IsRun(NoRun)
  BY BoundAssumption DEF IsRun, NoRun, Version, SaveStatus, Parked
<1>2. pc'[w] = "idle"
  BY DEF Leave, Goto, WInv, Shape
<1>3. Claimed(w)' /\ Current(w)' /\ Beginnable(w)'
  BY <1>2 DEF Claimed, Current, Beginnable
<1>4. QED
  BY <1>1, <1>3, OneWorkerMoves DEF Leave, PC

(***************************************************************************)
(* An execution that has read its checkpoint goes on with the same one.    *)
(***************************************************************************)
LEMMA GoingOnKeeps ==
  ASSUME WInv, [Next]_vars, NEW w \in Owner, held' = held,
         pc[w] \notin {"idle", "load"},
         NEW p \in PC \ {"idle", "load", "gate"}, NEW r, IsRun(r),
         Goto(w, p, r),
         p = "begin" => r.unit \in Begun,
         r.base = run[w].base,
         \/ /\ r.version = run[w].version
            /\ pc[w] \in {"record", "save"} => p \in {"record", "save"}
         \/ /\ r.version = run[w].version + 1
            /\ pc[w] \notin {"record", "save"} /\ p \in {"record", "save"}
  PROVE  WInv'
<1>1. /\ held[w] \in Nat /\ held' = [held EXCEPT ![w] = held[w]]
      /\ held'[w] = held[w]
      /\ pc'[w] = p /\ run'[w] = r
  BY DEF Goto, WInv, Shape
<1>2. Held(w)' = Held(w)
  BY <1>1 DEF Held
<1>3. Claimed(w)' /\ Beginnable(w)'
  BY <1>1, <1>2, ClaimsStay DEF WInv, Claimed, Beginnable
<1>4. ASSUME Fence(Held(w))' PROVE Current(w)'
  <2>1. PICK c \in claims : c = Held(w)
    BY DEF WInv, Claimed
  <2>2. Fence(c)'
    BY <1>2, <1>4, <2>1 DEF Fence
  <2>3. Fence(c) /\ checkpoint' = checkpoint /\ version' = version
    BY <2>2, GoodClaimKeepsCheckpoint DEF WInv
  <2>4. /\ run[w].base = checkpoint
        /\ \/ run[w].version = version
           \/ pc[w] \in {"record", "save"} /\ run[w].version = version + 1
    BY <2>1, <2>3 DEF WInv, Current
  <2>5. QED
    BY <1>1, <2>3, <2>4 DEF Current
<1>5. QED
  BY <1>1, <1>3, <1>4, OneWorkerMoves DEF Current

(***************************************************************************)
(* An execution that has just read its checkpoint.                         *)
(***************************************************************************)
LEMMA LoadingKeeps ==
  ASSUME WInv, UNCHANGED vars, NEW w \in Owner, held' = held, pc[w] = "load",
         NEW p \in PC \ {"idle", "load", "record"}, NEW r, IsRun(r),
         Goto(w, p, r), r.base = checkpoint, r.version = version,
         p \in {"gate", "begin"} => r.unit \in Begun,
         p = "gate" => r.unit[2] \in Gated
  PROVE  WInv'
<1>1. /\ held[w] \in Nat /\ held' = [held EXCEPT ![w] = held[w]]
      /\ held'[w] = held[w]
      /\ pc'[w] = p /\ run'[w] = r
  BY DEF Goto, WInv, Shape
<1>2. Held(w)' = Held(w)
  BY <1>1 DEF Held
<1>3. claims' = claims /\ checkpoint' = checkpoint /\ version' = version
  BY DEF vars, claimVars, checkpointVars
<1>4. Claimed(w)'
  BY <1>1, <1>2, <1>3 DEF WInv, Claimed
<1>5. Current(w)'
  BY <1>1, <1>3 DEF Current
<1>6. Beginnable(w)'
  BY <1>1 DEF Beginnable
<1>7. QED
  BY <1>1, <1>4, <1>5, <1>6, OneWorkerMoves

-----------------------------------------------------------------------------

(***************************************************************************)
(* What an execution changes in its run.                                   *)
(***************************************************************************)
Follows(q, r) ==
  IsRun(q) /\ q.base = r.base /\ q.version = r.version

LEMMA Updates ==
  ASSUME NEW r, NEW q, Follows(r, q)
  PROVE  /\ \A s \in SaveStatus : Follows([r EXCEPT !.want = s], q)
         /\ \A n \in 0..MaxModelCalls : Follows([r EXCEPT !.used = n], q)
         /\ \A k : Follows([r EXCEPT !.call = k], q)
         /\ \A o : Follows([r EXCEPT !.outcome = o], q)
         /\ \A x : Follows([r EXCEPT !.state = x], q)
BY DEF Follows, IsRun

LEMMA EndingUpdates ==
  ASSUME NEW r, NEW q, Follows(r, q), NEW k, NEW o, NEW u, NEW x,
         NEW s \in SaveStatus
  PROVE  Follows([r EXCEPT !.outcome = o, !.want = s, !.call = k,
                           !.state.results[u] = x], q)
<1> DEFINE r1 == [r EXCEPT !.outcome = o]
           r2 == [r1 EXCEPT !.want = s]
           r3 == [r2 EXCEPT !.call = k]
<1>1. Follows(r1, q)
  BY Updates
<1>2. Follows(r2, q)
  BY <1>1, Updates
<1>3. Follows(r3, q)
  BY <1>2, Updates
<1>4. QED
  BY <1>3, Updates

LEMMA WorkKeeps ==
  ASSUME WInv, NEW w \in Owner, Work(w)
  PROVE  WInv'
<1> DEFINE Goal == WInv'
<1>1. [Next]_vars
  BY WorkRefines
<1>2. IsRun(run[w]) /\ Follows(run[w], run[w])
  BY DEF WInv, Shape, Follows
<1>3. ASSUME NEW p \in PC \ {"idle", "load", "gate", "begin"}, NEW q,
             Follows(q, run[w]), Goto(w, p, q), held' = held,
             pc[w] \notin {"idle", "load"},
             pc[w] \in {"record", "save"} => p \in {"record", "save"}
      PROVE  Goal
  BY <1>1, <1>3, GoingOnKeeps DEF Follows
<1>4. ASSUME NEW s \in SaveStatus, SaveAs(w, s), held' = held,
             pc[w] \notin {"idle", "load"}
      PROVE  Goal
  <2>1. Follows([run[w] EXCEPT !.want = s], run[w])
    BY <1>2, Updates
  <2>2. QED
    BY <1>3, <1>4, <2>1 DEF SaveAs, PC
<1>5. CASE LoadCorrupt(w) \/ LoseLease(w) \/ SaveRun(w)
  BY <1>1, <1>5, LeavingKeeps DEF LoadCorrupt, LoseLease, SaveRun
<1>6. CASE ReconcileHeld(w)
  BY <1>2, <1>3, <1>4, <1>6 DEF ReconcileHeld, PC, SaveStatus, Parked
<1>7. CASE GateOpen(w)
  BY <1>1, <1>2, <1>7, GoingOnKeeps
     DEF GateOpen, Gating, PC, WInv, Beginnable
<1>8. CASE Charge(w)
  BY <1>2, <1>3, <1>8 DEF Charge, PC
<1>9. CASE StartStep(w)
  BY <1>2, <1>3, <1>9 DEF StartStep, PC
<1>10. CASE BeginUnit(w)
  BY <1>2, <1>3, <1>4, <1>10 DEF BeginUnit, Refusal, PC, SaveStatus, Parked, Terminal
<1>11. CASE FailStage(w)
  BY <1>2, <1>3, <1>4, <1>11 DEF FailStage, Working, SaveStatus, Parked, Terminal
<1>12. ASSUME NEW o, NEW s \in SaveStatus, StepEnds(w, o, s), held' = held,
              pc[w] \in {"work", "calling"}
       PROVE  Goal
  BY <1>2, <1>3, <1>12, EndingUpdates DEF StepEnds, PC
<1>13. CASE EndStep(w)
  BY <1>12, <1>13 DEF EndStep, Working, SaveStatus, Parked, Terminal
<1>14. CASE OutOfBudget(w)
  BY <1>4, <1>12, <1>14 DEF OutOfBudget, Abort, SaveStatus, Parked, Terminal
<1>15. ASSUME NEW k \in Call, StartCall(w, k) PROVE Goal
  <2>1. Reserved(w, k) \in 0..MaxModelCalls
    BY <1>2, <1>15, BoundAssumption DEF StartCall, Reserved, IsRun
  <2>2. Follows([run[w] EXCEPT !.call = k, !.used = Reserved(w, k)], run[w])
    BY <1>2, <2>1, Updates
  <2>3. QED
    BY <1>3, <1>15, <2>2 DEF StartCall, Working, PC
<1>16. CASE FinishCall(w)
  <2>1. Follows([run[w] EXCEPT !.call = NoCall], run[w])
    BY <1>2 DEF Follows, IsRun
  <2>2. QED
    BY <1>3, <1>16, <2>1 DEF FinishCall, Working, PC
<1>17. CASE RejectCall(w)
  <2> DEFINE n == Larger(0, run[w].used - 1)
             r == [run[w] EXCEPT !.used = Larger(0, @ - 1), !.call = NoCall]
  <2>1. n \in 0..MaxModelCalls
    BY <1>2, BoundAssumption DEF Larger, IsRun
  <2>2. r = [run[w] EXCEPT !.used = n, !.call = NoCall]
    OBVIOUS
  <2>3. Follows(r, run[w])
    <3> HIDE DEF n
    <3>1. QED
      BY <1>2, <2>1, <2>2, Updates
  <2>4. "failed" \in SaveStatus
    BY DEF SaveStatus, Terminal
  <2>5. Follows([r EXCEPT !.want = "failed"], run[w])
    <3> HIDE DEF r
    <3>1. QED
      BY <2>3, <2>4, Updates
  <2>6. Follows([r EXCEPT !.outcome = "failed", !.want = "failed",
                          !.state.results[r.unit[2]] = "failed"], run[w])
    <3> HIDE DEF r
    <3>1. DEFINE r1 == [r EXCEPT !.outcome = "failed"]
    <3>2. Follows(r1, run[w])
      BY <2>3, Updates
    <3>3. Follows([r1 EXCEPT !.want = "failed"], run[w])
      BY <2>4, <3>2, Updates
    <3>4. QED
      BY <3>3, Updates
  <2>7. QED
    BY <1>3, <1>17, <2>5, <2>6 DEF RejectCall, Working, PC
<1>18. CASE LoseAnswer(w)
  <2>1. Follows([run[w] EXCEPT !.call = NoCall], run[w])
    BY <1>2 DEF Follows, IsRun
  <2>2. QED
    BY <1>3, <1>4, <1>12, <1>18, <2>1
       DEF LoseAnswer, Working, PC, SaveStatus, Parked, Terminal
<1>19. CASE RefuseCall(w)
  <2>1. PICK n \in {run[w].used, run[w].used + 1} :
          /\ n <= MaxModelCalls
          /\ IF InStep(w)
             THEN StepEnds(w, "failed", "queued")
             ELSE Goto(w, "save", [run[w] EXCEPT !.used = n, !.want = "failed"])
    BY <1>19 DEF RefuseCall
  <2>2. n \in 0..MaxModelCalls /\ "failed" \in SaveStatus
    BY <1>2, <2>1, BoundAssumption DEF IsRun, SaveStatus, Terminal
  <2>3. Follows([run[w] EXCEPT !.used = n, !.want = "failed"], run[w])
    BY <1>2, <2>2, Updates
  <2>4. QED
    BY <1>3, <1>12, <1>19, <2>1, <2>3
       DEF RefuseCall, Working, PC, SaveStatus, Parked
<1>20. CASE RecordStep(w)
  BY <1>2, <1>3, <1>20 DEF RecordStep, PC, Follows, IsRun
<1>21. CASE RecordPlan(w)
  BY <1>2, <1>3, <1>21 DEF RecordPlan, PC, Follows, IsRun
<1>22. CASE EndStage(w)
  <2> USE DEF EndStage, PlannerEnds, AdvanceEnds, QualityEnds, ReviewerEnds,
              WriterEnds, Ending
  <2>1. pc[w] = "work" /\ held' = held
    BY <1>22
  <2>2. ASSUME NEW stage, NEW want \in SaveStatus, MoveTo(w, stage, want)
        PROVE  Goal
    <3>1. Follows([run[w] EXCEPT !.state.stage = stage, !.want = want], run[w])
      BY <1>2, Updates
    <3>2. QED
      BY <1>3, <2>1, <2>2, <3>1 DEF MoveTo, PC
  <2>3. CASE QualityEnds(w)
    <3>1. PICK stage : Goto(w, "save", [run[w] EXCEPT !.state.phase = @ + 1,
                                                      !.state.stage = stage])
      BY <2>3
    <3>2. Follows([run[w] EXCEPT !.state.phase = @ + 1, !.state.stage = stage],
                  run[w])
      BY <1>2, Updates
    <3>3. QED
      BY <1>3, <2>1, <3>1, <3>2 DEF PC
  <2>4. "queued" \in SaveStatus /\ "succeeded" \in SaveStatus
    BY DEF SaveStatus, Parked, Terminal
  <2>5. QED
    BY <1>22, <2>2, <2>3, <2>4
<1>23. CASE Replan(w)
  <2>1. PICK set \in SUBSET Step :
          Goto(w, "record", [run[w] EXCEPT
            !.version = @ + 1,
            !.state.results = Forget(@, set), !.state.phase = 0])
    BY <1>23 DEF Replan, Revisions
  <2> DEFINE r == [run[w] EXCEPT !.version = @ + 1]
             q == [run[w] EXCEPT
                     !.version = @ + 1,
                     !.state.results = Forget(@, set), !.state.phase = 0]
  <2>2. /\ run[w].version < MaxVersion /\ pc[w] \in {"work", "calling"}
        /\ held' = held
    BY <1>23 DEF Replan, Working
  <2>3. IsRun(r) /\ r.base = run[w].base /\ r.version = run[w].version + 1
    BY <1>2, <2>2, BoundAssumption DEF IsRun, Version
  <2>4. Follows(q, r)
    <3>1. Follows(r, r)
      BY <2>3 DEF Follows
    <3>2. QED
      BY <3>1, Updates
  <2>5. QED
    <3>1. IsRun(q) /\ q.base = run[w].base /\ q.version = run[w].version + 1
      BY <2>3, <2>4 DEF Follows
    <3>2. Goto(w, "record", q)
      BY <2>1
    <3> HIDE DEF q
    <3>3. QED
      BY <1>1, <2>2, <3>1, <3>2, GoingOnKeeps DEF PC
<1>24. CASE Reconcile(w)
  BY <1>2, <1>3, <1>4, <1>24 DEF Reconcile, PC, Follows, IsRun, SaveStatus, Parked
<1>25. CASE GateShut(w)
  <2>1. Follows([run[w] EXCEPT !.want = "awaiting_approval"], run[w])
    BY <1>2, Updates DEF SaveStatus, Parked
  <2>2. QED
    BY <1>3, <1>25, <2>1 DEF GateShut, Gating, PC
<1>26. CASE LoadStopped(w) \/ LoadUncertain(w) \/ LoadFresh(w)
  <2>1. pc[w] = "load" /\ UNCHANGED vars /\ held' = held
    BY <1>26 DEF LoadStopped, LoadUncertain, LoadFresh, Loading
  <2>2. ASSUME NEW u \in Begun \cup {NoUnit}
        PROVE  /\ Follows(Restored(u), Restored(u))
               /\ Restored(u).base = checkpoint
               /\ Restored(u).version = version
               /\ Restored(u).unit = u
    <3>1. /\ checkpoint \in Int /\ version \in Version
          /\ modelCalls \in 0..MaxModelCalls
      BY BoundAssumption DEF WInv, IInv, TypeOK
    <3> DEFINE r1 == [NoRun EXCEPT !.base = checkpoint]
               r2 == [r1 EXCEPT !.version = version]
               r3 == [r2 EXCEPT !.state = saved]
               r4 == [r3 EXCEPT !.used = modelCalls]
    <3>2. IsRun(NoRun)
      BY BoundAssumption DEF IsRun, NoRun, Version, SaveStatus, Parked
    <3>3. IsRun(r1) /\ r1.base = checkpoint
      <4> HIDE DEF NoRun
      <4>1. QED
        BY <3>1, <3>2 DEF IsRun
    <3> HIDE DEF r1
    <3>4. IsRun(r2) /\ r2.base = checkpoint /\ r2.version = version
      BY <3>1, <3>3 DEF IsRun
    <3> HIDE DEF r2
    <3>5. Follows(r3, r2)
      BY <3>4, Updates DEF Follows
    <3>6. Follows(r4, r2)
      <4> HIDE DEF r3
      <4>1. QED
        BY <3>1, <3>5, Updates
    <3>7. LET r == [r4 EXCEPT !.unit = u]
          IN  Follows(r, r2) /\ r.unit = u
      <4> HIDE DEF r4
      <4>1. QED
        BY <2>2, <3>6 DEF Follows, IsRun
    <3>8. Restored(u) = [r4 EXCEPT !.unit = u]
      BY DEF Restored, r1, r2
    <3>9. QED
      BY <3>4, <3>7, <3>8 DEF Follows
  <2>3. active \in Begun \cup {NoUnit} /\ version \in Version
    BY DEF WInv, IInv, TypeOK
  <2>4. ASSUME NEW u \in Begun \cup {NoUnit}, NEW s \in SaveStatus,
               Goto(w, "save", [Restored(u) EXCEPT !.want = s])
        PROVE  Goal
    <3>1. Follows([Restored(u) EXCEPT !.want = s], Restored(u))
      BY <2>2, Updates
    <3>2. QED
      BY <2>1, <2>2, <2>4, <3>1, LoadingKeeps DEF PC, Follows
  <2>5. CASE LoadStopped(w)
    BY <2>3, <2>4, <2>5 DEF LoadStopped, SaveStatus, Parked, Terminal
  <2>6. CASE LoadUncertain(w)
    BY <2>1, <2>2, <2>3, <2>6, LoadingKeeps DEF LoadUncertain, PC, Follows
  <2>7. CASE LoadFresh(w)
    <3>1. PICK u \in Unit :
            LET gated == NeedsApproval(u, version, saved.results)
                r == Restored(<<version, u, gated>>)
            IN \/ Goto(w, IF gated THEN "gate" ELSE "begin", r)
               \/ Goto(w, "save", [r EXCEPT !.want = "budget_exceeded"])
               \/ Goto(w, "save", [r EXCEPT !.want = "recovery_required"])
      BY <2>7 DEF LoadFresh
    <3> DEFINE gated == NeedsApproval(u, version, saved.results)
               b == <<version, u, gated>>
    <3>2. b \in Begun /\ gated \in BOOLEAN /\ (gated => u \in Gated)
          /\ b[2] = u
      BY <2>3 DEF Begun, NeedsApproval
    <3> HIDE DEF gated
    <3>3. CASE Goto(w, IF gated THEN "gate" ELSE "begin", Restored(b))
      <4>1. CASE gated
        BY <2>1, <2>2, <3>2, <3>3, <4>1, LoadingKeeps DEF PC, Follows
      <4>2. CASE ~gated
        BY <2>1, <2>2, <3>2, <3>3, <4>2, LoadingKeeps DEF PC, Follows
      <4>3. QED
        BY <4>1, <4>2
    <3>4. QED
      BY <2>4, <3>1, <3>2, <3>3 DEF gated, SaveStatus, Parked, Terminal
  <2>8. QED
    BY <1>26, <2>5, <2>6, <2>7
<1>27. QED
  BY <1>5, <1>6, <1>7, <1>8, <1>9, <1>10, <1>11, <1>13, <1>14, <1>15, <1>16,
     <1>17, <1>18, <1>19, <1>20, <1>21, <1>22, <1>23, <1>24, <1>25, <1>26
     DEF Work

(***************************************************************************)
(* A worker that claims the row starts a new execution.                    *)
(***************************************************************************)
LEMMA ClaimKeeps ==
  ASSUME WInv, NEW w \in Owner, WorkerClaim(w)
  PROVE  WInv'
<1>1. [Next]_vars
  BY DEF WorkerClaim, Next
<1>2. /\ generation + 1 \in Nat
      /\ [owner |-> w, generation |-> generation + 1] \in claims'
  BY BoundAssumption DEF WorkerClaim, Claim, WInv, IInv, TypeOK
<1>3. IsRun(NoRun)
  BY BoundAssumption DEF IsRun, NoRun, Version, SaveStatus, Parked
<1>4. pc'[w] = "load" /\ held'[w] = generation + 1
  BY DEF WorkerClaim, Goto, WInv, Shape
<1>5. Claimed(w)' /\ Current(w)' /\ Beginnable(w)'
  BY <1>2, <1>4 DEF Claimed, Held, Current, Beginnable
<1>6. QED
  BY <1>1, <1>2, <1>3, <1>5, OneWorkerMoves DEF WorkerClaim, PC

(***************************************************************************)
(* The invariant of the whole survives every step.                         *)
(***************************************************************************)
LEMMA WorkerStepKeeps ==
  ASSUME WInv, [WorkerNext]_allVars
  PROVE  WInv'
<1>1. [Next]_vars
  BY StepRefines
<1>2. ASSUME NEW w \in Owner, Interrupt(w) PROVE WInv'
  <2>1. IsRun(run[w]) /\ Follows(run[w], run[w])
    BY DEF WInv, Shape, Follows
  <2>2. /\ pc[w] \in {"calls", "evidence", "gate", "park", "begin", "charge",
                      "start", "work", "calling", "record"}
        /\ held' = held
    BY <1>2 DEF Interrupt
  <2>3. "recovery_required" \in SaveStatus
    BY DEF SaveStatus, Parked
  <2>4. CASE pc[w] \in {"work", "calling"} /\ InStep(w)
    <3> DEFINE q == [run[w] EXCEPT
                       !.outcome = "interrupted", !.want = "recovery_required",
                       !.call = NoCall,
                       !.state.results[run[w].unit[2]] = "failed"]
    <3>1. Goto(w, "record", q)
      BY <1>2, <2>4 DEF Interrupt, Abort, StepEnds
    <3>2. Follows(q, run[w])
      BY <2>1, <2>3, EndingUpdates
    <3> HIDE DEF q
    <3>3. QED
      BY <1>1, <2>2, <2>4, <3>1, <3>2, GoingOnKeeps DEF PC, Follows
  <2>5. CASE ~(pc[w] \in {"work", "calling"} /\ InStep(w))
    <3>1. SaveAs(w, "recovery_required")
      BY <1>2, <2>5 DEF Interrupt, Abort
    <3>2. Follows([run[w] EXCEPT !.want = "recovery_required"], run[w])
      BY <2>1, <2>3, Updates
    <3>3. QED
      BY <1>1, <2>2, <3>1, <3>2, GoingOnKeeps DEF SaveAs, PC, Follows
  <2>6. QED
    BY <2>4, <2>5
<1>3. ASSUME NEW w \in Owner, Renew(w) PROVE WInv'
  BY <1>1, <1>3, NobodyMoves DEF Renew, workerVars
<1>4. ASSUME NEW w \in Owner, Crash(w) PROVE WInv'
  BY <1>1, <1>4, LeavingKeeps DEF Crash
<1>5. CASE Desk \/ UserControl \/ UserDecision \/ Corrupt \/ Clock \/ Outside
  <2>1. UNCHANGED <<pc, held, run>>
    BY <1>5 DEF Desk, DeskOpen, DeskCalls, DeskEvidence, DeskQueue,
                DeskConflict, AtDesk, UserControl, UserDecision, Corrupt,
                Clock, Outside, workerVars
  <2>2. QED
    BY <1>1, <2>1, NobodyMoves
<1>6. CASE UNCHANGED allVars
  BY <1>1, <1>6, NobodyMoves DEF allVars, workerVars
<1>7. QED
  BY <1>2, <1>3, <1>4, <1>5, <1>6, WorkKeeps, ClaimKeeps DEF WorkerNext

-----------------------------------------------------------------------------

(***************************************************************************)
(* Workers, operators and users implement the row: every behaviour of      *)
(* DurableWorker is one of DurableQueue (the property Spec of the runs     *)
(* worker_race and worker_approvals).                                      *)
(***************************************************************************)
THEOREM WorkersImplementQueue == WorkerSpec => Spec
<1>1. WorkerInit => WInv /\ Init
  BY WorkerStart DEF WorkerInit
<1>2. WInv /\ [WorkerNext]_allVars => WInv'
  BY WorkerStepKeeps
<1>3. WInv /\ [WorkerNext]_allVars => [Next]_vars
  BY StepRefines
<1>4. QED
  BY <1>1, <1>2, <1>3, PTL DEF WorkerSpec, Spec

(***************************************************************************)
(* An execution whose claim is good was computed from the newest           *)
(* checkpoint, and only an execution with a claim acts.                    *)
(***************************************************************************)
THEOREM RunsAreCurrent == WorkerSpec => []WInv
<1>1. WInv /\ [WorkerNext]_allVars => WInv'
  BY WorkerStepKeeps
<1>2. QED
  BY <1>1, WorkerStart, PTL DEF WorkerSpec

(***************************************************************************)
(* So what the queue promises, workers, operators and users keep together. *)
(***************************************************************************)
THEOREM WorkersKeepThePromises ==
  WorkerSpec => /\ []IInv
                /\ TerminalIsFinal /\ CancelIsHonoured /\ UnitClosedByCheckpoint
                /\ DoubtResolvedByReceipt /\ ApprovalSpentOnce
BY WorkersImplementQueue, InvariantHolds, FinishedIsFinished,
   CancellationIsHonoured, UnitsAreSettled, ReceiptsResolveDoubt,
   ApprovalsAreSpentOnce, PTL

=============================================================================
