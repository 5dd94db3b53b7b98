------------------------- MODULE WorkerRecordsProofs -------------------------
(***************************************************************************)
(* Proofs about the records the units of a workflow leave in tables of     *)
(* their own, task_plans, task_steps and task_reviews.  Nothing fences     *)
(* them: an execution that lost its claim still writes its step, its plan  *)
(* and its verdict.  What keeps them sound is the unit in the row: it is   *)
(* begun once, and only a checkpoint that settles it clears it.            *)
(*                                                                         *)
(* The argument has two sides.  Placed says where any execution may still  *)
(* write, with or without a claim; Faithful says what the execution that   *)
(* holds the row carries towards its save; and Open says how a checkpoint  *)
(* agrees with the tables while the workflow is not over.                  *)
(***************************************************************************)
EXTENDS DurableWorkerProofs, FiniteSetTheorems

AtWork == {"charge", "start", "work", "calling", "record"}
Early == {"planner", "executor", "quality", "reviewer"}
Going == {"queued", "paused", "awaiting_approval"}
Ended == {"succeeded", "failed", "interrupted"}
AsResult(s) == IF s = "succeeded" THEN "succeeded" ELSE "failed"

ActiveIs(u) == active # NoUnit /\ active[2] = u

\* An execution at p with run r is in a step, or in a review.
SteppingAt(p, r) == p \in AtWork /\ r.unit[2] \in Step
ReviewingAt(p, r) == p \in {"work", "calling"} /\ r.unit[2] = "reviewer"
Stepping(w) == SteppingAt(pc[w], run[w])
Reviewing(w) == ReviewingAt(pc[w], run[w])
Row(r) == <<r.version, r.unit[2]>>

\* A checkpoint's state is a record, whatever its phase.
IsState(s) ==
  /\ s = [stage |-> s.stage, results |-> s.results, phase |-> s.phase]
  /\ s.stage \in Stage
  /\ s.results \in [Step -> Outcome]

\* Every table holds values of its type, and no row was started twice.
RecordTypes ==
  /\ plans \subseteq Version
  /\ stepRow \in [Version \X Step -> StepStatus \ {"duplicate"}]
  /\ reviews \in [Version -> {"absent", "PASS", "REPLAN"}]
  /\ IsState(saved)
  /\ \A w \in Owner : IsState(run[w].state)

\* Nothing is on record of a plan version that is still to come.
Future ==
  \A v \in Version : v > version =>
    /\ \A s \in Step : stepRow[<<v, s>>] = "absent"
    /\ reviews[v] = "absent"

\* While the workflow is not over, what its checkpoint says of steps, plan and
\* review is on record, the unit in the row being the exception.
ResultsRecorded ==
  \A s \in Step : ~ActiveIs(s) =>
    /\ saved.results[s] = "succeeded" =>
         \E v \in 1..version : stepRow[<<v, s>>] = "succeeded"
    /\ saved.results[s] = "none" => stepRow[<<version, s>>] = "absent"

StageRecorded ==
  /\ saved.stage \notin {"planner", "replanner"} => version \in plans
  /\ saved.stage \in {"writer", "done"} => reviews[version] = "PASS"
  /\ saved.stage \in Early /\ ~ActiveIs("reviewer") => reviews[version] = "absent"

ActiveRecorded ==
  active # NoUnit =>
    /\ active[2] # "replanner" => active[1] = version
    /\ active[2] \notin {"planner", "replanner"} => version \in plans
    /\ active[2] = "writer" => reviews[version] = "PASS"
    /\ active[2] \notin {"reviewer", "replanner", "writer", "done"} =>
         reviews[version] = "absent"

Open ==
  status \notin Terminal => ResultsRecorded /\ StageRecorded /\ ActiveRecorded

\* What an execution may write, whether or not it still has its claim.
PlacedAt(p, r) ==
  /\ p \in AtWork => r.unit \in Begun
  /\ p \in {"charge", "start"} => r.unit[2] \in Step
  /\ SteppingAt(p, r) \/ ReviewingAt(p, r) =>
       /\ r.unit[1] = r.version /\ r.version <= version
       /\ status \in Terminal \/ active = r.unit
  /\ SteppingAt(p, r) =>
       stepRow[Row(r)] = IF p \in {"charge", "start"} THEN "absent" ELSE "running"
  /\ ReviewingAt(p, r) => reviews[r.version] = "absent"
  /\ p = "record" =>
       IF r.unit[2] \in Step
       THEN /\ r.outcome \in Ended
            /\ r.state.results[r.unit[2]] = AsResult(r.outcome)
       ELSE r.unit[2] = "replanner"

Placed(w) == PlacedAt(pc[w], run[w])

\* There is one step, and one review, at a time.
Alone ==
  \A x, y \in Owner : /\ Stepping(x) /\ Stepping(y) => x = y
                      /\ Reviewing(x) /\ Reviewing(y) => x = y

StageFits(stage, u) ==
  IF u \in Step \cup {"advance"} THEN stage = "executor" ELSE stage = u

\* How the run of the execution that holds the row differs from the
\* checkpoint: by the unit in the row only, or by the plan that replaces it.
RunRecorded(r) ==
  /\ r.version # version => ActiveIs("replanner") /\ r.version = version + 1
  /\ \A s \in Step : \/ r.state.results[s] = saved.results[s]
                     \/ r.state.results[s] = "none" /\ r.version = version + 1
                     \/ ActiveIs(s)
  /\ r.state.stage \notin {"planner", "replanner"} => r.version \in plans
  /\ r.state.stage \in {"writer", "done"} => reviews[r.version] = "PASS"
  /\ r.state.stage \in Early /\ ~ActiveIs("reviewer") =>
       reviews[r.version] = "absent"

\* A save that lets the workflow go on has settled the unit in the row.
Settles(r) ==
  /\ \A s \in Step : ActiveIs(s) =>
       /\ stepRow[<<version, s>>] \in Ended
       /\ r.state.results[s] = AsResult(stepRow[<<version, s>>])
  /\ ActiveIs("reviewer") =>
       reviews[version] # "absent" /\ r.state.stage \notin Early

FaithfulAt(p, r) ==
  /\ p \in {"calls", "evidence"} =>
       r.unit = active /\ r.state = saved /\ r.version = version
  /\ p \in {"gate", "park", "begin"} =>
       active = NoUnit /\ r.state = saved /\ r.version = version
  /\ p \in {"gate", "begin"} =>
       /\ r.unit[1] = version /\ StageFits(r.state.stage, r.unit[2])
       /\ r.unit[2] \in Step => r.state.results[r.unit[2]] = "none"
  /\ p \in AtWork => active = r.unit /\ StageFits(r.state.stage, r.unit[2])
  /\ p = "record" /\ r.unit[2] \notin Step => r.version = version + 1
  /\ p \in AtWork \ {"record"} => r.version = version
  /\ RunRecorded(r)
  /\ p # "save" => r.want # "succeeded"
  /\ p = "save" /\ r.want \in Going => Settles(r)
  /\ p = "save" /\ r.want = "succeeded" =>
       Rules(r.state.results) = {} /\ r.state.stage = "done"

Faithful(w) ==
  pc[w] \notin {"idle", "load"} /\ Fence(Held(w)) => FaithfulAt(pc[w], run[w])

\* What people decide on: a parked row has no unit, and a snapshot of the
\* newest checkpoint knows its plan version.
Snapshots ==
  /\ status = "awaiting_approval" => active = NoUnit
  /\ \A d \in Client :
       /\ prior[d].checkpoint <= checkpoint
       /\ prior[d].checkpoint = checkpoint => prior[d].version = version

RInv ==
  /\ RecordTypes /\ Future /\ Open /\ Alone /\ Snapshots
  /\ \A w \in Owner : Placed(w) /\ Faithful(w)

-----------------------------------------------------------------------------

(***************************************************************************)
(* Nothing is on record at the start.                                      *)
(***************************************************************************)
LEMMA RecordsStart == WorkerInit => RInv
<1> SUFFICES ASSUME WorkerInit PROVE RInv
  OBVIOUS
<1> USE DEF WorkerInit, Init
<1>1. IsState(Start) /\ NoRun.state = Start
  BY DEF IsState, Start, NoRun, Outcome, Stage, StageUnit
<1>2. RecordTypes
  BY <1>1 DEF RecordTypes, StepStatus
<1>3. Future /\ Alone /\ Snapshots
  BY DEF Future, Alone, Stepping, Reviewing, SteppingAt, ReviewingAt, AtWork,
         Snapshots
<1>4. Open
  BY BoundAssumption
     DEF Open, ResultsRecorded, StageRecorded, ActiveRecorded, Start, Version,
         Early
<1>5. ASSUME NEW w \in Owner PROVE Placed(w) /\ Faithful(w)
  BY DEF Placed, PlacedAt, SteppingAt, ReviewingAt, AtWork, Faithful
<1>6. QED
  BY <1>2, <1>3, <1>4, <1>5 DEF RInv

(***************************************************************************)
(* A row waiting for a decision has no unit: begin needs a running one, and *)
(* only a save that clears the unit parks it there.  Snapshots of the      *)
(* newest checkpoint are of the plan version it holds.                     *)
(***************************************************************************)
LEMMA SnapshotsStep ==
  ASSUME IInv, Snapshots, [Next]_vars
  PROVE  Snapshots'
<1> USE DEF claimVars, callVars, checkpointVars, approvalVars
<1>1. /\ checkpoint \in Nat /\ prior \in [Client -> Snapshot]
      /\ \A d \in Client : prior[d].checkpoint \in Nat
  BY DEF IInv, TypeOK, Snapshot
<1>2. ASSUME UNCHANGED <<checkpoint, version, prior, active>>,
             status' = "awaiting_approval" => status = "awaiting_approval"
      PROVE  Snapshots'
  BY <1>2 DEF Snapshots
<1>3. ASSUME NEW c \in claims, Fenced(c) PROVE Snapshots'
  <2>1. status # "awaiting_approval"
    BY <1>3, FencedStepIsLeased DEF Leased
  <2>2. CASE \E u \in Unit, hashed \in BOOLEAN : Begin(c, u, hashed)
    BY <2>2 DEF Begin, Snapshots
  <2>3. ASSUME NEW n, NEW s, NEW b, NEW v, Save(c, s, b, v, n)
        PROVE  Snapshots'
    BY <1>1, <2>3 DEF Save, Snapshots
  <2>4. QED
    BY <1>2, <1>3, <2>1, <2>2, <2>3
       DEF Fenced, Heartbeat, Quarantine, ReconcileCalls, DropReceipted, Gate,
           JournalBudget, JournalStart, JournalFinish, JournalRejected
<1>4. CASE DecideApproval
  <2>1. ASSUME NEW d \in Client, ReadSnapshot(d) PROVE Snapshots'
    BY <1>1, <2>1 DEF ReadSnapshot, Snapshots
  <2>2. ASSUME NEW d \in Client, NEW u \in Gated, Modify(d, u) PROVE Snapshots'
    BY <1>1, <2>2 DEF Modify, Decide, Decidable, Snapshots
  <2>3. ASSUME NEW d \in Client, NEW u \in Gated, Approve(d, u) \/ Reject(d, u)
        PROVE  Snapshots'
    BY <1>2, <2>3 DEF Approve, Reject, Decide, Decidable
  <2>4. QED
    BY <1>4, <2>1, <2>2, <2>3 DEF DecideApproval
<1>5. QED
  BY <1>2, <1>3, <1>4
     DEF Next, Claim, Tick, CompleteReceipt, Operate,
         ReconcileCallsByOperator, DropReceipted, QueueReconciled, Pause,
         Resume, Cancel, Control, Lapse, vars

(***************************************************************************)
(* A workflow that is over stays over, with the status it has.             *)
(***************************************************************************)
LEMMA OverIsOver ==
  ASSUME IInv, [Next]_vars, status \in Terminal
  PROVE  status' = status
<1> USE DEF claimVars, callVars, checkpointVars, approvalVars
<1>1. status \notin Leased \cup Parked
  BY DEF Leased, Parked, Terminal
<1>2. ASSUME NEW c \in claims, Fenced(c) PROVE FALSE
  BY <1>1, <1>2, FencedStepIsLeased
<1>3. QED
  BY <1>1, <1>2
     DEF Next, Claim, Tick, CompleteReceipt, Operate, Fence,
         ReconcileCallsByOperator, DropReceipted, QueueReconciled, Pause,
         Resume, Cancel, Control, Lapse, DecideApproval, ReadSnapshot,
         Approve, Reject, Modify, Decide, Decidable, Leased, Parked, Terminal,
         vars
-----------------------------------------------------------------------------

(***************************************************************************)
(* Whoever holds the row after a step held it before, unless it just took  *)
(* it.                                                                     *)
(***************************************************************************)
LEMMA GoodClaimIsOld ==
  ASSUME WInv, [Next]_vars, NEW x \in Owner, pc[x] # "idle",
         held'[x] = held[x], Fence(Held(x))'
  PROVE  Fence(Held(x)) /\ version' = version
<1>1. PICK c \in claims : c = Held(x)
  BY DEF WInv, Claimed
<1>2. Fence(c)'
  BY <1>1 DEF Fence, Held
<1>3. Fence(c) /\ version' = version
  BY <1>2, GoodClaimKeepsCheckpoint DEF WInv
<1>4. QED
  BY <1>1, <1>3

\* What the invariant reads besides the executions themselves.
quiet == <<active, version, saved, plans, stepRow, reviews>>

(***************************************************************************)
(* A step that leaves the unit, the checkpoint and the tables alone has    *)
(* only to answer for the executions that move.                            *)
(***************************************************************************)
LEMMA QuietKeeps ==
  ASSUME WInv, RInv, [Next]_vars, UNCHANGED quiet,
         \A x \in Owner :
           \/ pc'[x] = pc[x] /\ run'[x] = run[x] /\ held'[x] = held[x]
           \/ /\ IsState(run'[x].state)
              /\ Placed(x)' /\ Faithful(x)'
              /\ Stepping(x)' => Stepping(x)
              /\ Reviewing(x)' => Reviewing(x)
  PROVE  RInv'
<1> USE DEF quiet
<1>1. status \in Terminal => status' \in Terminal
  BY OverIsOver DEF WInv
<1>2. Snapshots'
  BY SnapshotsStep DEF WInv, RInv
<1>3. RecordTypes'
  BY DEF RInv, RecordTypes, IsState
<1>4. Future' /\ Open'
  BY <1>1 DEF RInv, Future, Open, ResultsRecorded, StageRecorded,
              ActiveRecorded, ActiveIs
<1>5. ASSUME NEW x \in Owner PROVE (Stepping(x)' => Stepping(x))
                                   /\ (Reviewing(x)' => Reviewing(x))
  BY DEF Stepping, Reviewing
<1>6. Alone'
  BY <1>5 DEF RInv, Alone
<1>7. ASSUME NEW x \in Owner,
             pc'[x] = pc[x] /\ run'[x] = run[x] /\ held'[x] = held[x]
      PROVE  Placed(x)' /\ Faithful(x)'
  <2>1. Placed(x)'
    BY <1>1, <1>7 DEF RInv, Placed, PlacedAt, SteppingAt, ReviewingAt
  <2>2. ASSUME pc[x] \notin {"idle", "load"}, Fence(Held(x))'
        PROVE  FaithfulAt(pc[x], run[x])
    BY <1>7, <2>2, GoodClaimIsOld DEF RInv, Faithful
  <2>3. FaithfulAt(pc[x], run[x]) => FaithfulAt(pc[x], run[x])'
    BY <1>7 DEF FaithfulAt, RunRecorded, Settles, ActiveIs
  <2>4. QED
    BY <1>7, <2>1, <2>2, <2>3 DEF Faithful
<1>8. QED
  BY <1>2, <1>3, <1>4, <1>6, <1>7 DEF RInv

(***************************************************************************)
(* Such a step of nobody, of an execution that begins or ends, and of one  *)
(* that goes on.                                                           *)
(***************************************************************************)
LEMMA QuietOutside ==
  ASSUME WInv, RInv, [Next]_vars, UNCHANGED quiet, UNCHANGED <<pc, held, run>>
  PROVE  RInv'
BY QuietKeeps

LEMMA QuietReset ==
  ASSUME WInv, RInv, [Next]_vars, UNCHANGED quiet, NEW w \in Owner,
         NEW p \in {"idle", "load"}, Goto(w, p, NoRun),
         NEW g, held' = [held EXCEPT ![w] = g]
  PROVE  RInv'
<1>1. pc'[w] = p /\ run'[w] = NoRun
  BY DEF WInv, Shape, Goto
<1>2. IsState(NoRun.state)
  BY DEF IsState, Start, NoRun, Outcome, Stage, StageUnit
<1>3. /\ IsState(run'[w].state) /\ Placed(w)' /\ Faithful(w)'
      /\ ~Stepping(w)' /\ ~Reviewing(w)'
  BY <1>1, <1>2 DEF Placed, PlacedAt, SteppingAt, ReviewingAt, AtWork,
                    Faithful, Stepping, Reviewing
<1>4. \A x \in Owner : x # w =>
        pc'[x] = pc[x] /\ run'[x] = run[x] /\ held'[x] = held[x]
  BY DEF WInv, Shape, Goto
<1>5. QED
  BY <1>3, <1>4, QuietKeeps

LEMMA QuietGoto ==
  ASSUME WInv, RInv, [Next]_vars, UNCHANGED quiet, held' = held,
         NEW w \in Owner, pc[w] # "idle",
         NEW p \in PC, NEW r, Goto(w, p, r), IsState(r.state),
         PlacedAt(p, r), Fence(Held(w)) => FaithfulAt(p, r),
         SteppingAt(p, r) => Stepping(w), ReviewingAt(p, r) => Reviewing(w)
  PROVE  RInv'
<1>1. pc'[w] = p /\ run'[w] = r
  BY DEF WInv, Shape, Goto
<1>2. status \in Terminal => status' \in Terminal
  BY OverIsOver DEF WInv
<1>3. Placed(w)'
  BY <1>1, <1>2 DEF Placed, PlacedAt, SteppingAt, ReviewingAt, quiet
<1>4. Faithful(w)'
  <2>1. SUFFICES ASSUME Fence(Held(w))' PROVE FaithfulAt(p, r)'
    BY <1>1 DEF Faithful
  <2>2. Fence(Held(w))
    BY <2>1, GoodClaimIsOld
  <2>3. FaithfulAt(p, r)
    BY <2>2
  <2>4. QED
    BY <2>3 DEF FaithfulAt, RunRecorded, Settles, ActiveIs, quiet
<1>5. (Stepping(w)' => Stepping(w)) /\ (Reviewing(w)' => Reviewing(w))
  BY <1>1 DEF Stepping, Reviewing, SteppingAt, ReviewingAt
<1>6. \A x \in Owner : x # w =>
        pc'[x] = pc[x] /\ run'[x] = run[x] /\ held'[x] = held[x]
  BY DEF WInv, Shape, Goto
<1>7. QED
  BY <1>1, <1>3, <1>4, <1>5, <1>6, QuietKeeps

-----------------------------------------------------------------------------

\* What an execution asks for that does not go on with its unit.
GivenUp == {"failed", "recovery_required", "cancelled", "budget_exceeded"}

(***************************************************************************)
(* An execution that gives up keeps what it has in memory.                 *)
(***************************************************************************)
LEMMA GivingUpKeeps ==
  ASSUME WInv, RInv, [Next]_vars, UNCHANGED quiet, held' = held,
         NEW w \in Owner, pc[w] \notin {"idle", "load"},
         NEW r, r.version = run[w].version, r.state = run[w].state,
         r.want \in GivenUp, Goto(w, "save", r)
  PROVE  RInv'
<1>1. IsState(r.state)
  BY DEF RInv, RecordTypes
<1>2. PlacedAt("save", r) /\ ~SteppingAt("save", r) /\ ~ReviewingAt("save", r)
  BY DEF PlacedAt, SteppingAt, ReviewingAt, AtWork
<1>3. Fence(Held(w)) => FaithfulAt("save", r)
  BY DEF RInv, Faithful, FaithfulAt, RunRecorded, AtWork, GivenUp, Going
<1>4. QED
  BY <1>1, <1>2, <1>3, QuietGoto DEF PC

(***************************************************************************)
(* A step that is over in memory has its result there.                     *)
(***************************************************************************)
LEMMA StepEndsKeeps ==
  ASSUME WInv, RInv, [Next]_vars, UNCHANGED quiet, held' = held,
         NEW w \in Owner, pc[w] \in {"work", "calling"}, InStep(w),
         NEW r, r.version = run[w].version, r.unit = run[w].unit,
         r.want # "succeeded", r.outcome \in Ended, r.state.stage = run[w].state.stage,
         r.state.results = [run[w].state.results EXCEPT
                              ![run[w].unit[2]] = AsResult(r.outcome)],
         IsState(r.state), Goto(w, "record", r)
  PROVE  RInv'
<1> DEFINE s == run[w].unit[2]
<1>1. s \in Step /\ run[w].state.results \in [Step -> Outcome]
  BY DEF InStep, RInv, RecordTypes, IsState
<1>2. Stepping(w)
  BY <1>1 DEF Stepping, SteppingAt, AtWork
<1>3. PlacedAt("record", r)
  BY <1>1, <1>2 DEF RInv, Placed, PlacedAt, Stepping, SteppingAt, ReviewingAt,
                    AtWork, Row
<1>4. ASSUME Fence(Held(w)) PROVE FaithfulAt("record", r)
  <2>1. FaithfulAt(pc[w], run[w])
    BY <1>4 DEF RInv, Faithful
  <2>2. active = r.unit /\ active # NoUnit /\ ActiveIs(s)
    BY <2>1, UnitAssumption
       DEF FaithfulAt, AtWork, ActiveIs, RInv, Placed, PlacedAt, Begun, Version
  <2>3. \A x \in Step : x # s => r.state.results[x] = run[w].state.results[x]
    BY <1>1
  <2>4. RunRecorded(r)
    BY <2>1, <2>2, <2>3 DEF FaithfulAt, RunRecorded
  <2>5. QED
    BY <1>1, <2>1, <2>2, <2>4 DEF FaithfulAt, AtWork
<1>5. QED
  BY <1>2, <1>3, <1>4, QuietGoto DEF PC, ReviewingAt

(***************************************************************************)
(* A run restored from the newest checkpoint agrees with the tables.       *)
(***************************************************************************)
LEMMA RestoredKeeps ==
  ASSUME WInv, RInv, UNCHANGED vars, UNCHANGED quiet, held' = held,
         NEW w \in Owner, pc[w] = "load",
         NEW p \in {"calls", "evidence", "gate", "begin", "save"},
         NEW r, r.version = version, r.state = saved, Goto(w, p, r),
         p \in {"calls", "evidence"} => r.unit = active,
         p # "save" => r.want = "queued",
         p \in {"gate", "begin"} =>
           /\ active = NoUnit /\ r.unit[1] = version
           /\ StageFits(saved.stage, r.unit[2])
           /\ r.unit[2] \in Step => saved.results[r.unit[2]] = "none",
         p = "save" => \/ r.want \in GivenUp
                       \/ r.want = "paused" /\ active = NoUnit
  PROVE  RInv'
<1>1. IsState(r.state)
  BY DEF RInv, RecordTypes
<1>2. PlacedAt(p, r) /\ ~SteppingAt(p, r) /\ ~ReviewingAt(p, r)
  BY DEF PlacedAt, SteppingAt, ReviewingAt, AtWork
<1>3. ASSUME Fence(Held(w)) PROVE FaithfulAt(p, r)
  <2>1. status \notin Terminal
    BY <1>3, FencedRowIsLeased DEF WInv, Claimed, IInv, Leased, Terminal
  <2>2. RunRecorded(r)
    BY <2>1 DEF RInv, Open, StageRecorded, RunRecorded
  <2>3. p = "save" /\ r.want \in Going => Settles(r)
    BY DEF Settles, ActiveIs, GivenUp, Going
  <2>4. QED
    BY <2>2, <2>3 DEF FaithfulAt, AtWork, GivenUp
<1>4. QED
  BY <1>1, <1>2, <1>3, QuietGoto DEF PC

-----------------------------------------------------------------------------

(***************************************************************************)
(* What begins next fits the stage, and a step that begins has no result.  *)
(***************************************************************************)
LEMMA NextFits ==
  ASSUME NEW state, state.stage \in Stage, NEW u \in Unit, IsNext(state, u)
  PROVE  /\ StageFits(state.stage, u)
         /\ u \in Step => state.results[u] = "none"
<1>1. /\ Unit = StageUnit \cup Step /\ Step \cap StageUnit = {}
      /\ \A i \in DOMAIN Plan : Plan[i] \in Step
  BY WorkerUnitAssumption
<1>2. "executor" \notin StageUnit /\ "advance" \notin Step
  BY <1>1 DEF StageUnit
<1>3. CASE state.stage # "executor"
  BY <1>1, <1>2, <1>3 DEF IsNext, StageFits, Stage
<1>4. CASE state.stage = "executor"
  BY <1>1, <1>2, <1>4 DEF IsNext, StageFits
<1>5. QED
  BY <1>3, <1>4

(***************************************************************************)
(* Loading.                                                                *)
(***************************************************************************)
LEMMA LoadRecords ==
  ASSUME WInv, RInv, NEW w \in Owner,
         LoadStopped(w) \/ LoadUncertain(w) \/ LoadFresh(w)
  PROVE  RInv'
<1>1. UNCHANGED vars /\ UNCHANGED quiet /\ held' = held /\ pc[w] = "load"
  BY DEF LoadStopped, LoadUncertain, LoadFresh, Loading, quiet, vars,
         checkpointVars, recordTables
<1>2. ASSUME NEW u, NEW s
      PROVE  LET r == [Restored(u) EXCEPT !.want = s]
             IN  r.version = version /\ r.state = saved /\ r.unit = u
                 /\ r.want = s
  BY DEF Restored, NoRun
<1>3. ASSUME NEW u
      PROVE  Restored(u).version = version /\ Restored(u).state = saved
             /\ Restored(u).unit = u /\ Restored(u).want = "queued"
  BY DEF Restored, NoRun
<1>4. CASE LoadStopped(w)
  <2>1. PICK s \in {"cancelled", "paused"} :
          /\ Goto(w, "save", [Restored(active) EXCEPT !.want = s])
          /\ s = "paused" => active = NoUnit
    BY <1>4 DEF LoadStopped
  <2>2. QED
    <3> DEFINE r == [Restored(active) EXCEPT !.want = s]
    <3>1. r.version = version /\ r.state = saved /\ r.want = s
      BY <1>2
    <3> HIDE DEF r
    <3>2. QED
      BY <1>1, <2>1, <3>1, RestoredKeeps DEF GivenUp, r
<1>5. CASE LoadUncertain(w)
  <2>1. PICK p \in {"calls", "evidence"} : Goto(w, p, Restored(active))
    BY <1>5 DEF LoadUncertain
  <2>2. QED
    BY <1>1, <1>3, <2>1, RestoredKeeps
<1>6. CASE LoadFresh(w)
  <2>1. PICK u \in Unit :
          LET gated == NeedsApproval(u, version, saved.results)
              r == Restored(<<version, u, gated>>)
          IN /\ active = NoUnit /\ IsNext(saved, u)
             /\ \/ \E p \in {"gate", "begin"} : Goto(w, p, r)
                \/ \E s \in {"budget_exceeded", "recovery_required"} :
                     Goto(w, "save", [r EXCEPT !.want = s])
    BY <1>6 DEF LoadFresh
  <2> DEFINE b == <<version, u, NeedsApproval(u, version, saved.results)>>
  <2>2. b[1] = version /\ b[2] = u
    OBVIOUS
  <2>3. StageFits(saved.stage, u) /\ (u \in Step => saved.results[u] = "none")
    BY <2>1, NextFits DEF RInv, RecordTypes, IsState
  <2>4. CASE \E p \in {"gate", "begin"} : Goto(w, p, Restored(b))
    <3> HIDE DEF b
    <3>1. QED
      BY <1>1, <1>3, <2>1, <2>2, <2>3, <2>4, RestoredKeeps
  <2>5. CASE \E s \in {"budget_exceeded", "recovery_required"} :
               Goto(w, "save", [Restored(b) EXCEPT !.want = s])
    <3>1. PICK s \in {"budget_exceeded", "recovery_required"} :
            Goto(w, "save", [Restored(b) EXCEPT !.want = s])
      BY <2>5
    <3> DEFINE r == [Restored(b) EXCEPT !.want = s]
    <3>2. r.version = version /\ r.state = saved /\ r.want = s
      BY <1>2
    <3>3. Goto(w, "save", r)
      BY <3>1
    <3> HIDE DEF r
    <3>4. QED
      BY <1>1, <3>2, <3>3, RestoredKeeps DEF GivenUp
  <2>6. QED
    BY <2>1, <2>4, <2>5
<1>7. QED
  BY <1>4, <1>5, <1>6

(***************************************************************************)
(* What the recovery writes for a step, and for a stage.                   *)
(***************************************************************************)
LEMMA RecoveredIs ==
  ASSUME NEW s, IsState(s), NEW v, NEW u,
         u \in Step => stepRow[<<v, u>>] \in {"succeeded", "failed"}
  PROVE  LET q == Recovered(s, v, u) IN
         /\ IsState(q)
         /\ u \in Step =>
              /\ q.stage = "executor"
              /\ q.results = [s.results EXCEPT ![u] = stepRow[<<v, u>>]]
         /\ u \notin Step =>
              /\ q.results = s.results
              /\ u = "planner" => q.stage = "executor"
              /\ u = "reviewer" => q.stage = IF reviews[v] = "PASS" THEN "writer"
                                                                   ELSE "replanner"
              /\ u \notin {"planner", "reviewer"} => q.stage = "writer"
<1> USE DEF IsState, Stage, StageUnit, Outcome
<1>1. CASE u \in Step
  BY <1>1 DEF Recovered
<1>2. CASE u \notin Step /\ u = "planner"
  BY <1>2 DEF Recovered
<1>3. CASE u \notin Step /\ u = "reviewer"
  BY <1>3 DEF Recovered
<1>4. CASE u \notin Step /\ u \notin {"planner", "reviewer"}
  BY <1>4 DEF Recovered
<1>5. QED
  BY <1>1, <1>2, <1>3, <1>4

(***************************************************************************)
(* Recovery: what the tables say of the unit becomes the checkpoint.       *)
(***************************************************************************)
LEMMA ReconcileRecords ==
  ASSUME WInv, RInv, NEW w \in Owner, Reconcile(w)
  PROVE  RInv'
<1> DEFINE r == run[w]
           u == r.unit[2]
           q == [r EXCEPT !.state = Recovered(r.state, r.version, u)]
<1>1. /\ UNCHANGED vars /\ UNCHANGED quiet /\ held' = held
      /\ pc[w] = "evidence"
  BY DEF Reconcile, quiet, vars, checkpointVars, recordTables
<1>2. [Next]_vars
  BY <1>1
<1>3. IsRun(r) /\ IsState(r.state)
  BY DEF WInv, Shape, RInv, RecordTypes
<1>4. CASE SaveAs(w, "recovery_required")
  <2>1. LET x == [r EXCEPT !.want = "recovery_required"]
        IN  x.version = r.version /\ x.state = r.state
            /\ x.want = "recovery_required"
    BY <1>3 DEF IsRun
  <2>2. QED
    BY <1>1, <1>2, <1>4, <2>1, GivingUpKeeps DEF SaveAs, GivenUp
<1>5. ASSUME r.unit # NoUnit, HasEvidence(r.version, u), Goto(w, "save", q)
      PROVE  RInv'
  <2>1. /\ q.version = r.version /\ q.want = r.want
        /\ q.state = Recovered(r.state, r.version, u)
    BY <1>3 DEF IsRun
  <2> HIDE DEF q
  <2>2. u \in Step => stepRow[<<r.version, u>>] \in {"succeeded", "failed"}
    BY <1>5, WorkerUnitAssumption DEF HasEvidence, StageUnit
  <2>3. /\ IsState(q.state)
        /\ u \in Step =>
             /\ q.state.stage = "executor"
             /\ q.state.results =
                  [r.state.results EXCEPT ![u] = stepRow[<<r.version, u>>]]
        /\ u \notin Step =>
             /\ q.state.results = r.state.results
             /\ u = "planner" => q.state.stage = "executor"
             /\ u = "reviewer" =>
                  q.state.stage = IF reviews[r.version] = "PASS" THEN "writer"
                                                                ELSE "replanner"
             /\ u \notin {"planner", "reviewer"} => q.state.stage = "writer"
    <3> HIDE DEF r, u
    <3>1. QED
      BY <1>3, <2>1, <2>2, RecoveredIs
  <2>4. ASSUME Fence(Held(w)) PROVE FaithfulAt("save", q)
    <3>1. r.unit = active /\ r.state = saved /\ r.version = version
          /\ r.want # "succeeded" /\ RunRecorded(r)
      BY <1>1, <2>4 DEF RInv, Faithful, FaithfulAt
    <3>2. status \notin Terminal
      BY <1>1, <2>4, FencedRowIsLeased DEF WInv, Claimed, IInv, Leased, Terminal
    <3>3. ActiveRecorded /\ active # NoUnit /\ active[2] = u
      BY <1>5, <3>1, <3>2 DEF RInv, Open
    <3>4. CASE u \in Step
      <4>1. /\ q.state.stage = "executor"
            /\ q.state.results = [r.state.results EXCEPT ![u] = stepRow[<<r.version, u>>]]
        BY <2>3, <3>4
      <4>2. u \notin StageUnit
        BY <3>4, WorkerUnitAssumption
      <4>3. RunRecorded(q)
        BY <1>3, <2>1, <3>1, <3>3, <3>4, <4>1, <4>2
           DEF RunRecorded, ActiveRecorded, ActiveIs, IsState, Early, StageUnit
      <4>4. Settles(q)
        BY <1>3, <2>2, <3>1, <3>3, <3>4, <4>1, <4>2
           DEF Settles, ActiveIs, Ended, AsResult, IsState, StageUnit
      <4>5. QED
        BY <2>1, <3>1, <4>3, <4>4 DEF FaithfulAt, AtWork
    <3>5. CASE u \notin Step
      <4>1. q.state.results = r.state.results
        BY <2>3, <3>5
      <4>2. \/ u = "planner" /\ version \in plans /\ q.state.stage = "executor"
            \/ /\ u = "reviewer" /\ reviews[version] # "absent"
               /\ q.state.stage = IF reviews[version] = "PASS" THEN "writer"
                                                               ELSE "replanner"
            \/ u = "writer" /\ q.state.stage = "writer"
        BY <1>5, <2>3, <3>1, <3>5 DEF HasEvidence
      <4>3. RunRecorded(q)
        BY <2>1, <3>1, <3>3, <4>1, <4>2
           DEF RunRecorded, ActiveRecorded, ActiveIs, Early
      <4>4. Settles(q)
        BY <3>3, <3>5, <4>2 DEF Settles, ActiveIs, Early
      <4>5. QED
        BY <2>1, <3>1, <4>3, <4>4 DEF FaithfulAt, AtWork
    <3>6. QED
      BY <3>4, <3>5
  <2>5. PlacedAt("save", q) /\ ~SteppingAt("save", q) /\ ~ReviewingAt("save", q)
    BY DEF PlacedAt, SteppingAt, ReviewingAt, AtWork
  <2>6. QED
    BY <1>1, <1>2, <1>5, <2>3, <2>4, <2>5, QuietGoto DEF PC
<1>6. QED
  BY <1>4, <1>5 DEF Reconcile

(***************************************************************************)
(* Before the unit begins.                                                 *)
(***************************************************************************)
LEMMA WaitingRecords ==
  ASSUME WInv, RInv, NEW w \in Owner,
         ReconcileHeld(w) \/ GateOpen(w) \/ GateShut(w)
  PROVE  RInv'
<1> DEFINE r == run[w]
<1>1. UNCHANGED quiet /\ held' = held /\ pc[w] \in {"calls", "gate"}
  BY DEF ReconcileHeld, ReconcileCalls, DropReceipted, GateOpen, GateShut,
         Gating, Gate, quiet, vars, checkpointVars, recordTables
<1>2. [Next]_vars
  BY WorkRefines DEF Work
<1>3. IsRun(r) /\ IsState(r.state)
  BY DEF WInv, Shape, RInv, RecordTypes
<1>4. Fence(Held(w)) => FaithfulAt(pc[w], r)
  BY <1>1 DEF RInv, Faithful
<1>5. ASSUME NEW p \in {"evidence", "begin", "park"}, NEW q, Goto(w, p, q),
             q.state = r.state, Fence(Held(w)) => FaithfulAt(p, q)
      PROVE  RInv'
  <2>1. PlacedAt(p, q) /\ ~SteppingAt(p, q) /\ ~ReviewingAt(p, q)
    BY DEF PlacedAt, SteppingAt, ReviewingAt, AtWork
  <2>2. QED
    BY <1>1, <1>2, <1>3, <1>5, <2>1, QuietGoto DEF PC
<1>6. ASSUME NEW s
      PROVE  LET q == [r EXCEPT !.want = s]
             IN  q.version = r.version /\ q.state = r.state /\ q.want = s
  BY <1>3 DEF IsRun
<1>7. CASE ReconcileHeld(w)
  <2>1. CASE Goto(w, "evidence", r)
    <3>1. Fence(Held(w)) => FaithfulAt("evidence", r)
      BY <1>4, <1>7 DEF ReconcileHeld, FaithfulAt, AtWork
    <3>2. QED
      BY <1>5, <2>1, <3>1
  <2>2. CASE SaveAs(w, "recovery_required")
    BY <1>1, <1>2, <1>6, <2>2, GivingUpKeeps DEF SaveAs, GivenUp
  <2>3. QED
    BY <1>7, <2>1, <2>2 DEF ReconcileHeld
<1>8. CASE GateOpen(w)
  <2>1. Fence(Held(w)) => FaithfulAt("begin", r)
    BY <1>4, <1>8 DEF GateOpen, Gating, FaithfulAt, AtWork
  <2>2. QED
    BY <1>5, <1>8, <2>1 DEF GateOpen
<1>9. CASE GateShut(w)
  <2> DEFINE q == [r EXCEPT !.want = "awaiting_approval"]
  <2>1. /\ q.version = r.version /\ q.state = r.state
        /\ q.want = "awaiting_approval"
    BY <1>6
  <2>2. Goto(w, "park", q)
    BY <1>9 DEF GateShut
  <2> HIDE DEF q
  <2>3. Fence(Held(w)) => FaithfulAt("park", q)
    BY <1>4, <1>9, <2>1 DEF GateShut, Gating, FaithfulAt, AtWork, RunRecorded
  <2>4. QED
    BY <1>5, <2>1, <2>2, <2>3
<1>10. QED
  BY <1>7, <1>8, <1>9

(***************************************************************************)
(* What a step that ends changes in its run.                               *)
(***************************************************************************)
LEMMA EndFields ==
  ASSUME NEW r, IsRun(r), IsState(r.state), NEW u \in Step, NEW o \in Ended,
         NEW s, NEW k
  PROVE  LET q == [r EXCEPT !.outcome = o, !.want = s, !.call = k,
                            !.state.results[u] = AsResult(o)]
         IN  /\ q.version = r.version /\ q.unit = r.unit /\ q.outcome = o
             /\ q.want = s /\ q.state.stage = r.state.stage
             /\ q.state.results = [r.state.results EXCEPT ![u] = AsResult(o)]
             /\ IsState(q.state)
<1>1. AsResult(o) \in Outcome
  BY DEF AsResult, Outcome
<1>2. QED
  BY <1>1 DEF IsRun, IsState

LEMMA StepEndsRecords ==
  ASSUME WInv, RInv, [Next]_vars, UNCHANGED quiet, held' = held,
         NEW w \in Owner, pc[w] \in {"work", "calling"}, InStep(w),
         NEW o \in Ended, NEW s \in SaveStatus \ {"succeeded"}, StepEnds(w, o, s)
  PROVE  RInv'
<1> DEFINE u == run[w].unit[2]
           q == [run[w] EXCEPT !.outcome = o, !.want = s, !.call = NoCall,
                               !.state.results[u] = AsResult(o)]
<1>1. IsRun(run[w]) /\ IsState(run[w].state) /\ u \in Step
  BY DEF WInv, Shape, RInv, RecordTypes, InStep
<1>2. Goto(w, "record", q)
  BY DEF StepEnds, AsResult
<1>3. /\ q.version = run[w].version /\ q.unit = run[w].unit /\ q.outcome = o
      /\ q.state.stage = run[w].state.stage /\ q.want = s
      /\ q.state.results = [run[w].state.results EXCEPT ![u] = AsResult(o)]
      /\ IsState(q.state)
  <2> HIDE DEF u
  <2>1. QED
    BY <1>1, EndFields
<1> HIDE DEF q
<1>4. QED
  BY <1>2, <1>3, StepEndsKeeps

(***************************************************************************)
(* The calls of a unit at work, and what they come to.                     *)
(***************************************************************************)
LEMMA CallRecords ==
  ASSUME WInv, RInv, NEW w \in Owner,
         \/ Charge(w) \/ FinishCall(w) \/ RejectCall(w) \/ LoseAnswer(w)
         \/ RefuseCall(w) \/ \E k \in Call : StartCall(w, k)
  PROVE  RInv'
<1> DEFINE r == run[w]
<1>1. UNCHANGED quiet /\ held' = held /\ pc[w] \in {"charge", "work", "calling"}
  BY DEF Charge, FinishCall, RejectCall, LoseAnswer, RefuseCall, StartCall,
         Working, JournalBudget, JournalStart, JournalFinish, JournalRejected,
         quiet, vars, checkpointVars, recordTables
<1>2. [Next]_vars
  BY WorkRefines DEF Work
<1>3. IsRun(r) /\ IsState(r.state)
  BY DEF WInv, Shape, RInv, RecordTypes
<1>4. (Fence(Held(w)) => FaithfulAt(pc[w], r)) /\ PlacedAt(pc[w], r)
  BY <1>1 DEF RInv, Faithful, Placed
<1>5. ASSUME NEW p \in {"work", "calling"}, pc[w] \in {"work", "calling"},
             NEW q, Goto(w, p, q), q.state = r.state, q.version = r.version,
             q.unit = r.unit, q.want = r.want
      PROVE  RInv'
  <2>1. PlacedAt(p, q)
    BY <1>4, <1>5 DEF PlacedAt, SteppingAt, ReviewingAt, AtWork, Row
  <2>2. Fence(Held(w)) => FaithfulAt(p, q)
    BY <1>4, <1>5 DEF FaithfulAt, AtWork, RunRecorded
  <2>3. /\ SteppingAt(p, q) => Stepping(w)
        /\ ReviewingAt(p, q) => Reviewing(w)
    BY <1>5 DEF SteppingAt, ReviewingAt, AtWork, Stepping, Reviewing
  <2>4. QED
    BY <1>1, <1>2, <1>3, <1>5, <2>1, <2>2, <2>3, QuietGoto DEF PC
<1>6. ASSUME NEW q, Goto(w, "save", q), q.version = r.version,
             q.state = r.state, q.want \in GivenUp
      PROVE  RInv'
  BY <1>1, <1>2, <1>6, GivingUpKeeps
<1>7. ASSUME NEW k, NEW n, NEW s
      PROVE  LET q == [r EXCEPT !.call = k, !.used = n]
                 d == [r EXCEPT !.used = n, !.want = s]
                 e == [r EXCEPT !.want = s]
             IN  /\ q.state = r.state /\ q.version = r.version
                 /\ d.state = r.state /\ d.version = r.version /\ d.want = s
                 /\ e.state = r.state /\ e.version = r.version /\ e.want = s
  BY <1>3 DEF IsRun
<1>8. CASE Charge(w)
  <2>1. PlacedAt("start", r) /\ (SteppingAt("start", r) => Stepping(w))
    BY <1>4, <1>8 DEF Charge, PlacedAt, SteppingAt, ReviewingAt, AtWork,
                      Stepping
  <2>2. Fence(Held(w)) => FaithfulAt("start", r)
    BY <1>4, <1>8 DEF Charge, FaithfulAt, AtWork
  <2>3. QED
    BY <1>1, <1>2, <1>3, <1>8, <2>1, <2>2, QuietGoto
       DEF Charge, PC, ReviewingAt
<1>9. ASSUME NEW k \in Call, StartCall(w, k) PROVE RInv'
  <2> DEFINE q == [r EXCEPT !.call = k, !.used = Reserved(w, k)]
  <2>1. /\ q.state = r.state /\ q.version = r.version /\ q.unit = r.unit
        /\ q.want = r.want
    BY <1>3 DEF IsRun
  <2>2. Goto(w, "calling", q) /\ pc[w] = "work"
    BY <1>9 DEF StartCall
  <2> HIDE DEF q
  <2>3. QED
    BY <1>5, <2>1, <2>2
<1>10. ASSUME Goto(w, "work", [r EXCEPT !.call = NoCall]), pc[w] = "calling"
       PROVE  RInv'
  <2> DEFINE q == [r EXCEPT !.call = NoCall]
  <2>1. /\ q.state = r.state /\ q.version = r.version /\ q.unit = r.unit
        /\ q.want = r.want
    BY <1>3 DEF IsRun
  <2> HIDE DEF q
  <2>2. QED
    BY <1>5, <1>10, <2>1 DEF q
<1>11. CASE FinishCall(w)
  BY <1>10, <1>11 DEF FinishCall
<1>12. ASSUME SaveAs(w, "failed") PROVE RInv'
  <2> DEFINE q == [r EXCEPT !.want = "failed"]
  <2>1. q.state = r.state /\ q.version = r.version /\ q.want \in GivenUp
    BY <1>7 DEF GivenUp
  <2> HIDE DEF q
  <2>2. QED
    BY <1>6, <1>12, <2>1 DEF SaveAs, q
<1>13. ASSUME StepEnds(w, "failed", "queued"), InStep(w),
              pc[w] \in {"work", "calling"}
       PROVE  RInv'
  BY <1>1, <1>2, <1>13, StepEndsRecords DEF Ended, SaveStatus, Parked
<1>14. CASE LoseAnswer(w)
  BY <1>10, <1>12, <1>13, <1>14 DEF LoseAnswer
<1>15. CASE RefuseCall(w)
  <2>1. ASSUME NEW n, Goto(w, "save", [r EXCEPT !.used = n, !.want = "failed"])
        PROVE  RInv'
    <3> DEFINE q == [r EXCEPT !.used = n, !.want = "failed"]
    <3>1. q.state = r.state /\ q.version = r.version /\ q.want \in GivenUp
      BY <1>7 DEF GivenUp
    <3> HIDE DEF q
    <3>2. QED
      BY <1>6, <2>1, <3>1 DEF q
  <2>2. QED
    BY <1>13, <1>15, <2>1 DEF RefuseCall
<1>16. CASE RejectCall(w)
  <2> DEFINE m == Larger(0, r.used - 1)
             d == [r EXCEPT !.used = m, !.call = NoCall]
             q == [d EXCEPT !.outcome = "failed", !.want = "failed",
                            !.state.results[d.unit[2]] = "failed"]
             e == [d EXCEPT !.want = "failed"]
  <2>1. /\ d.state = r.state /\ d.version = r.version /\ d.unit = r.unit
        /\ DOMAIN d = {"base", "version", "state", "unit", "used", "call",
                       "outcome", "want"}
    <3> HIDE DEF m
    <3>1. QED
      BY <1>3 DEF IsRun
  <2>2. CASE InStep(w)
    <3>1. d.unit[2] \in Step
      BY <2>1, <2>2 DEF InStep
    <3>2. /\ q.version = r.version /\ q.unit = r.unit /\ q.outcome = "failed"
          /\ q.want = "failed"
          /\ q.state.stage = r.state.stage
          /\ q.state.results = [r.state.results EXCEPT ![r.unit[2]] = "failed"]
          /\ IsState(q.state)
      <4> HIDE DEF d
      <4>1. QED
        BY <1>3, <2>1, <3>1 DEF IsState, Outcome
    <3>3. Goto(w, "record", q) /\ pc[w] \in {"work", "calling"}
      BY <1>16, <2>2 DEF RejectCall, Working
    <3> HIDE DEF q
    <3>4. QED
      BY <1>1, <1>2, <2>2, <3>2, <3>3, StepEndsKeeps DEF Ended, AsResult
  <2>3. CASE ~InStep(w)
    <3>1. e.version = r.version /\ e.state = r.state /\ e.want \in GivenUp
      <4> HIDE DEF d
      <4>1. QED
        BY <2>1 DEF GivenUp
    <3>2. Goto(w, "save", e)
      BY <1>16, <2>3 DEF RejectCall
    <3> HIDE DEF e
    <3>3. QED
      BY <1>6, <3>1, <3>2
  <2>4. QED
    BY <2>2, <2>3
<1>17. QED
  BY <1>8, <1>9, <1>11, <1>14, <1>15, <1>16

(***************************************************************************)
(* The endings of a unit that write no table.                              *)
(***************************************************************************)
LEMMA EndingRecords ==
  ASSUME WInv, RInv, NEW w \in Owner,
         \/ EndStep(w) \/ Replan(w) \/ AdvanceEnds(w) \/ QualityEnds(w)
         \/ WriterEnds(w) \/ FailStage(w)
  PROVE  RInv'
<1> DEFINE r == run[w]
<1>1. UNCHANGED quiet /\ held' = held /\ pc[w] \in {"work", "calling"}
      /\ pc[w] \in AtWork
  BY DEF EndStep, Replan, AdvanceEnds, QualityEnds, WriterEnds, FailStage,
         Working, Ending, quiet, vars, checkpointVars, recordTables, AtWork
<1>2. [Next]_vars
  BY WorkRefines DEF Work, EndStage
<1>3. IsRun(r) /\ IsState(r.state)
  BY DEF WInv, Shape, RInv, RecordTypes
<1>4. Fence(Held(w)) =>
        /\ r.version = version /\ active = r.unit /\ active # NoUnit
        /\ StageFits(r.state.stage, r.unit[2]) /\ RunRecorded(r)
        /\ r.want # "succeeded"
  BY <1>1, UnitAssumption
     DEF RInv, Faithful, FaithfulAt, Placed, PlacedAt, AtWork, Begun, Version
<1>5. Fence(Held(w)) => status \notin Terminal
  BY <1>1, FencedRowIsLeased DEF WInv, Claimed, IInv, Leased, Terminal
<1>6. ASSUME NEW q, Goto(w, "save", q), IsState(q.state),
             Fence(Held(w)) => FaithfulAt("save", q)
      PROVE  RInv'
  <2>1. PlacedAt("save", q) /\ ~SteppingAt("save", q) /\ ~ReviewingAt("save", q)
    BY DEF PlacedAt, SteppingAt, ReviewingAt, AtWork
  <2>2. QED
    BY <1>1, <1>2, <1>6, <2>1, QuietGoto DEF PC
<1>7. ASSUME NEW q, Goto(w, "save", q), IsState(q.state),
             q.version = r.version, q.state.results = r.state.results,
             r.unit[2] \in {"advance", "quality", "writer"},
             IF r.unit[2] = "writer"
             THEN q.state.stage = "done" /\ Rules(r.state.results) = {}
             ELSE /\ q.state.stage \in {"executor", "quality", "reviewer"}
                  /\ q.want \in {"queued", r.want}
      PROVE  RInv'
  <2>1. ASSUME Fence(Held(w)) PROVE FaithfulAt("save", q)
    <3>1. ActiveRecorded /\ \A s \in Step : ~ActiveIs(s)
      BY <1>4, <1>5, <1>7, <2>1, WorkerUnitAssumption
         DEF RInv, Open, ActiveIs, StageUnit
    <3>2. RunRecorded(q) /\ Settles(q)
      BY <1>4, <1>7, <2>1, <3>1
         DEF RunRecorded, Settles, ActiveRecorded, ActiveIs, Early
    <3>3. QED
      BY <1>4, <1>7, <2>1, <3>2 DEF FaithfulAt, AtWork
  <2>2. QED
    BY <1>6, <1>7, <2>1
<1>8. ASSUME NEW s, NEW g \in Stage
      PROVE  LET q == [r EXCEPT !.state.stage = g, !.want = s]
             IN  /\ q.version = r.version /\ q.want = s /\ q.state.stage = g
                 /\ q.state.results = r.state.results /\ IsState(q.state)
  BY <1>3 DEF IsRun, IsState
<1>9. CASE EndStep(w)
  <2>1. PICK o \in Ended, s \in {"queued", "failed"} : StepEnds(w, o, s)
    BY <1>9 DEF EndStep, Ended
  <2>2. InStep(w)
    BY <1>9 DEF EndStep
  <2>3. s \in SaveStatus \ {"succeeded"}
    BY DEF SaveStatus, Parked, Terminal
  <2>4. QED
    BY <1>1, <1>2, <2>1, <2>2, <2>3, StepEndsRecords
<1>10. CASE AdvanceEnds(w)
  <2> DEFINE g == AfterExecution(r.state.results)
             q == [r EXCEPT !.state.stage = g, !.want = "queued"]
  <2>1. g \in {"executor", "quality", "reviewer"} /\ r.unit[2] = "advance"
        /\ Goto(w, "save", q)
    BY <1>10 DEF AfterExecution, AdvanceEnds, Ending, MoveTo
  <2>2. g \in Stage
    BY <2>1 DEF Stage, StageUnit
  <2> HIDE DEF g
  <2>3. /\ q.version = r.version /\ q.want = "queued" /\ q.state.stage = g
        /\ q.state.results = r.state.results /\ IsState(q.state)
    BY <1>8, <2>2
  <2> HIDE DEF q
  <2>4. QED
    BY <1>7, <2>1, <2>3
<1>11. CASE QualityEnds(w)
  <2>1. PICK g \in {"quality", "reviewer"} :
          Goto(w, "save", [r EXCEPT !.state.phase = @ + 1, !.state.stage = g])
    BY <1>11 DEF QualityEnds
  <2> DEFINE m == r.state.phase + 1
             q == [r EXCEPT !.state.phase = m, !.state.stage = g]
  <2>2. r.unit[2] = "quality" /\ Goto(w, "save", q)
    BY <1>11, <2>1 DEF QualityEnds, Ending
  <2> HIDE DEF m
  <2>3. /\ q.version = r.version /\ q.want = r.want /\ q.state.stage = g
        /\ q.state.results = r.state.results /\ IsState(q.state)
    BY <1>3 DEF IsRun, IsState, Stage, StageUnit
  <2> HIDE DEF q
  <2>4. QED
    BY <1>7, <2>2, <2>3
<1>12. CASE WriterEnds(w)
  <2> DEFINE q == [r EXCEPT !.state.stage = "done", !.want = "succeeded"]
  <2>1. /\ r.unit[2] = "writer" /\ Rules(r.state.results) = {}
        /\ Goto(w, "save", q)
    BY <1>12 DEF WriterEnds, Ending, MoveTo
  <2>2. /\ q.version = r.version /\ q.state.stage = "done"
        /\ q.state.results = r.state.results /\ IsState(q.state)
    BY <1>8 DEF Stage, StageUnit
  <2> HIDE DEF q
  <2>3. QED
    BY <1>7, <2>1, <2>2
<1>13. CASE FailStage(w)
  <2>1. PICK s \in {"failed", "recovery_required"} : SaveAs(w, s)
    BY <1>13 DEF FailStage
  <2> DEFINE q == [r EXCEPT !.want = s]
  <2>2. q.version = r.version /\ q.state = r.state /\ q.want \in GivenUp
    BY <1>3 DEF IsRun, GivenUp
  <2>3. Goto(w, "save", q)
    BY <2>1 DEF SaveAs
  <2> HIDE DEF q
  <2>4. QED
    BY <1>1, <1>2, <2>2, <2>3, GivingUpKeeps
<1>14. CASE Replan(w)
  <2>1. PICK set \in Revisions(r.state.results) :
          Goto(w, "record", [r EXCEPT !.version = @ + 1,
                              !.state.results = Forget(@, set), !.state.phase = 0])
    BY <1>14 DEF Replan
  <2> DEFINE q == [r EXCEPT !.version = r.version + 1,
                     !.state.results = Forget(r.state.results, set),
                     !.state.phase = 0]
  <2>2. Goto(w, "record", q) /\ r.unit[2] = "replanner"
    BY <1>14, <2>1 DEF Replan
  <2>3. Forget(r.state.results, set) \in [Step -> Outcome]
        /\ \A s \in Step : Forget(r.state.results, set)[s] \in {"none", r.state.results[s]}
    BY <1>3 DEF Forget, IsState, Outcome
  <2>4. /\ q.version = r.version + 1 /\ q.unit = r.unit /\ q.want = r.want
        /\ q.state.stage = r.state.stage
        /\ q.state.results = Forget(r.state.results, set)
        /\ IsState(q.state)
    BY <1>3, <2>3 DEF IsRun, IsState
  <2> HIDE DEF q
  <2>5. r.unit[2] \notin Step
    BY <2>2, WorkerUnitAssumption DEF StageUnit
  <2>6. PlacedAt("record", q) /\ ~SteppingAt("record", q) /\ ~ReviewingAt("record", q)
    BY <1>1, <2>2, <2>4, <2>5
       DEF RInv, Placed, PlacedAt, SteppingAt, ReviewingAt
  <2>7. ASSUME Fence(Held(w)) PROVE FaithfulAt("record", q)
    <3>1. /\ ActiveIs("replanner") /\ r.version = version /\ version \in Nat
          /\ r.state.stage = "replanner" /\ RunRecorded(r)
      BY <1>4, <2>2, <2>5, <2>7 DEF ActiveIs, StageFits, WInv, IInv, TypeOK, Version
    <3>2. RunRecorded(q)
      BY <2>3, <2>4, <3>1 DEF RunRecorded, Early
    <3>3. QED
      BY <1>4, <2>4, <2>5, <2>7, <3>1, <3>2 DEF FaithfulAt, AtWork
  <2>8. QED
    BY <1>1, <1>2, <2>2, <2>4, <2>6, <2>7, QuietGoto DEF PC
<1>15. QED
  BY <1>9, <1>10, <1>11, <1>12, <1>13, <1>14

(***************************************************************************)
(* The endings nobody in the unit asked for, and the end of an execution.  *)
(***************************************************************************)
LEMMA AbortRecords ==
  ASSUME WInv, RInv, NEW w \in Owner, OutOfBudget(w) \/ Interrupt(w),
         [Next]_vars
  PROVE  RInv'
<1> DEFINE r == run[w]
<1>1. /\ UNCHANGED quiet /\ held' = held /\ pc[w] \notin {"idle", "load"}
  BY DEF OutOfBudget, Interrupt, Heartbeat, quiet, vars, checkpointVars,
         recordTables
<1>2. PICK s \in {"budget_exceeded", "recovery_required"} : Abort(w, s)
  BY DEF OutOfBudget, Interrupt
<1>3. s \in SaveStatus \ {"succeeded"} /\ s \in GivenUp
  BY DEF SaveStatus, Parked, Terminal, GivenUp
<1>4. CASE pc[w] \in {"work", "calling"} /\ InStep(w)
  BY <1>1, <1>2, <1>3, <1>4, StepEndsRecords DEF Abort, Ended
<1>5. CASE SaveAs(w, s)
  <2> DEFINE q == [r EXCEPT !.want = s]
  <2>1. IsRun(r)
    BY DEF WInv, Shape
  <2>2. q.version = r.version /\ q.state = r.state /\ q.want \in GivenUp
    BY <1>3, <2>1 DEF IsRun
  <2>3. Goto(w, "save", q)
    BY <1>5 DEF SaveAs
  <2> HIDE DEF q
  <2>4. QED
    BY <1>1, <2>2, <2>3, GivingUpKeeps
<1>6. QED
  BY <1>2, <1>4, <1>5 DEF Abort

LEMMA LeavingRecords ==
  ASSUME WInv, RInv, NEW w \in Owner, [Next]_vars,
         WorkerClaim(w) \/ LoadCorrupt(w) \/ LoseLease(w) \/ Crash(w)
  PROVE  RInv'
<1>1. UNCHANGED quiet
  BY DEF WorkerClaim, Claim, LoadCorrupt, Quarantine, LoseLease, Crash, quiet,
         vars, checkpointVars, recordTables
<1>2. PICK p \in {"idle", "load"}, g \in Int :
        Goto(w, p, NoRun) /\ held' = [held EXCEPT ![w] = g]
  BY DEF WorkerClaim, LoadCorrupt, LoseLease, Crash, Leave, WInv, IInv, TypeOK
<1>3. QED
  BY <1>1, <1>2, QuietReset

(***************************************************************************)
(* Steps of nobody that write neither a checkpoint nor a table.            *)
(***************************************************************************)
LEMMA OutsideRecords ==
  ASSUME WInv, RInv, [Next]_vars, UNCHANGED <<pc, held, run>>,
         \/ Desk \/ UserControl \/ Corrupt \/ Clock \/ Outside
         \/ \E w \in Owner : Renew(w)
  PROVE  RInv'
<1>1. UNCHANGED quiet
  <2> USE DEF quiet, vars, checkpointVars, recordTables, workerVars
  <2>1. CASE Desk
    BY <2>1 DEF Desk, DeskOpen, DeskCalls, DeskEvidence, DeskQueue,
                DeskConflict, AtDesk, ReconcileCallsByOperator, DropReceipted,
                QueueReconciled
  <2>2. CASE UserControl
    BY <2>2 DEF UserControl, Pause, Resume, Cancel, Control
  <2>3. QED
    BY <2>1, <2>2 DEF Corrupt, Clock, Tick, Outside, CompleteReceipt, Lapse,
                      Renew, Heartbeat
<1>2. QED
  BY <1>1, QuietOutside

-----------------------------------------------------------------------------

(***************************************************************************)
(* The tables grow under an execution that may have lost its claim.  Its   *)
(* step or its review is the unit in the row, so it writes nothing that    *)
(* the checkpoint or another execution relies on.                          *)
(***************************************************************************)
LEMMA TablesKeep ==
  ASSUME WInv, RInv, UNCHANGED <<vars, saved, held>>, NEW w \in Owner,
         NEW p \in PC, NEW r, Goto(w, p, r), RecordTypes',
         plans \subseteq plans',
         \A row \in Version \X Step :
           \/ stepRow'[row] = stepRow[row]
           \/ /\ Stepping(w) /\ row = Row(run[w])
              /\ stepRow[row] \notin Ended /\ stepRow'[row] # "absent",
         \A v \in Version : \/ reviews'[v] = reviews[v]
                            \/ Reviewing(w) /\ v = run[w].version,
         Placed(w)', Faithful(w)',
         Stepping(w)' => Stepping(w), Reviewing(w)' => Reviewing(w)
  PROVE  RInv'
<1>1. /\ status' = status /\ active' = active /\ version' = version
      /\ prior' = prior /\ checkpoint' = checkpoint
      /\ owner' = owner /\ generation' = generation /\ lease' = lease
  BY DEF vars, claimVars, checkpointVars, approvalVars
<1>2. Snapshots'
  BY <1>1 DEF RInv, Snapshots
<1>3. \A x \in Owner : x # w => pc'[x] = pc[x] /\ run'[x] = run[x]
  BY DEF WInv, Shape, Goto
<1>4. \A x \in Owner : /\ Stepping(x)' => Stepping(x)
                       /\ Reviewing(x)' => Reviewing(x)
  BY <1>3 DEF Stepping, Reviewing, SteppingAt, ReviewingAt
<1>5. Alone'
  BY <1>4 DEF RInv, Alone
<1>6. /\ version \in Version /\ \A v \in 1..version : v \in Version
      /\ Version \subseteq Nat
      /\ run[w].version \in Version
  BY BoundAssumption DEF WInv, IInv, TypeOK, Version, Shape, IsRun
<1>7. ASSUME Stepping(w) \/ Reviewing(w)
      PROVE  /\ run[w].version <= version
             /\ status \notin Terminal =>
                  /\ active # NoUnit /\ active = run[w].unit
                  /\ ActiveIs(run[w].unit[2])
  BY <1>7, UnitAssumption
     DEF RInv, Placed, PlacedAt, Stepping, Reviewing, SteppingAt, ReviewingAt,
         AtWork, ActiveIs, Begun, Version
<1>8. \A row \in Version \X Step : stepRow[row] \in Ended => stepRow'[row] = stepRow[row]
  OBVIOUS
<1>9. \A v \in Version : reviews[v] # "absent" => reviews'[v] = reviews[v]
  BY DEF RInv, Placed, PlacedAt, Reviewing
<1>10. Future'
  <2>1. ASSUME NEW v \in Version, v > version, NEW s \in Step
        PROVE  stepRow'[<<v, s>>] = "absent"
    BY <1>6, <1>7, <2>1 DEF RInv, Future, Row
  <2>2. ASSUME NEW v \in Version, v > version PROVE reviews'[v] = "absent"
    BY <1>6, <1>7, <2>2 DEF RInv, Future
  <2>3. QED
    BY <1>1, <2>1, <2>2 DEF Future
<1>11. ASSUME status \notin Terminal, Open
       PROVE  ResultsRecorded' /\ StageRecorded' /\ ActiveRecorded'
  <2>1. ResultsRecorded /\ StageRecorded /\ ActiveRecorded
    BY <1>11 DEF Open
  <2>2. ResultsRecorded'
    <3>1. SUFFICES ASSUME NEW s \in Step, ~ActiveIs(s)
          PROVE  /\ saved.results[s] = "succeeded" =>
                      \E v \in 1..version : stepRow'[<<v, s>>] = "succeeded"
                 /\ saved.results[s] = "none" => stepRow'[<<version, s>>] = "absent"
      BY <1>1 DEF ResultsRecorded, ActiveIs
    <3>2. ASSUME NEW v \in 1..version, stepRow[<<v, s>>] = "succeeded"
          PROVE  stepRow'[<<v, s>>] = "succeeded"
      BY <1>6, <1>8, <3>2 DEF Ended
    <3>3. stepRow'[<<version, s>>] = stepRow[<<version, s>>]
      BY <1>6, <1>7, <1>11, <3>1 DEF Row
    <3>4. QED
      BY <2>1, <3>1, <3>2, <3>3 DEF ResultsRecorded
  <2>3. StageRecorded'
    <3>1. saved.stage \notin {"planner", "replanner"} => version \in plans'
      BY <2>1 DEF StageRecorded
    <3>2. saved.stage \in {"writer", "done"} => reviews'[version] = "PASS"
      BY <1>6, <1>9, <2>1 DEF StageRecorded
    <3>3. saved.stage \in Early /\ ~ActiveIs("reviewer") => reviews'[version] = "absent"
      BY <1>6, <1>7, <1>11, <2>1 DEF StageRecorded, Reviewing, ReviewingAt
    <3>4. QED
      BY <1>1, <3>1, <3>2, <3>3 DEF StageRecorded, ActiveIs
  <2>4. ActiveRecorded'
    <3>1. ASSUME active # NoUnit, active[2] # "reviewer"
          PROVE  reviews'[version] = reviews[version]
      BY <1>6, <1>7, <1>11, <3>1 DEF Reviewing, ReviewingAt
    <3>2. QED
      BY <1>1, <2>1, <3>1 DEF ActiveRecorded
  <2>5. QED
    BY <2>2, <2>3, <2>4
<1>12. Open'
  BY <1>1, <1>11 DEF Open, RInv
<1>13. ASSUME NEW x \in Owner, x # w PROVE Placed(x)'
  <2>1. pc'[x] = pc[x] /\ run'[x] = run[x] /\ PlacedAt(pc[x], run[x])
    BY <1>3, <1>13 DEF RInv, Placed
  <2>2. Stepping(x) => Row(run[x]) \in Version \X Step
                       /\ stepRow'[Row(run[x])] = stepRow[Row(run[x])]
    BY <1>13 DEF RInv, Alone, Row, Stepping, SteppingAt, WInv, Shape, IsRun
  <2>3. Reviewing(x) => reviews'[run[x].version] = reviews[run[x].version]
    BY <1>13 DEF RInv, Alone, WInv, Shape, IsRun
  <2>4. QED
    BY <1>1, <2>1, <2>2, <2>3
       DEF Placed, PlacedAt, Stepping, Reviewing, SteppingAt, ReviewingAt, Row
<1>14. ASSUME NEW x \in Owner, x # w PROVE Faithful(x)'
  <2>1. pc'[x] = pc[x] /\ run'[x] = run[x] /\ held'[x] = held[x]
        /\ run[x].version \in Version
    BY <1>3, <1>14 DEF WInv, Shape, IsRun
  <2> SUFFICES ASSUME pc[x] \notin {"idle", "load"}, Fence(Held(x))
               PROVE  FaithfulAt(pc[x], run[x])'
    BY <1>1, <2>1 DEF Faithful, Fence, Held
  <2>2. FaithfulAt(pc[x], run[x])
    BY DEF RInv, Faithful
  <2>3. status \notin Terminal
    BY FencedRowIsLeased DEF WInv, Claimed, IInv, Leased, Terminal
  <2>4. RunRecorded(run[x])'
    <3>1. ~ActiveIs("reviewer") => reviews' = reviews
      BY <1>7, <2>3 DEF Reviewing, ReviewingAt, RInv, RecordTypes
    <3>2. QED
      BY <1>1, <1>9, <2>1, <2>2, <3>1 DEF FaithfulAt, RunRecorded, ActiveIs
  <2>5. Settles(run[x]) => Settles(run[x])'
    <3>1. \A s \in Step : stepRow[<<version, s>>] \in Ended =>
            stepRow'[<<version, s>>] = stepRow[<<version, s>>]
      BY <1>6, <1>8
    <3>2. QED
      BY <1>1, <1>6, <1>9, <2>1, <3>1 DEF Settles, ActiveIs
  <2>6. QED
    BY <1>1, <2>1, <2>2, <2>4, <2>5 DEF FaithfulAt
<1>15. QED
  BY <1>2, <1>5, <1>10, <1>12, <1>13, <1>14 DEF RInv

(***************************************************************************)
(* What an execution that writes a table knows: it is the one at its row.  *)
(***************************************************************************)
LEMMA WriterKnows ==
  ASSUME WInv, RInv, NEW w \in Owner, pc[w] \in AtWork
  PROVE  /\ IsRun(run[w]) /\ IsState(run[w].state)
         /\ run[w].version \in Version /\ version \in Version
         /\ PlacedAt(pc[w], run[w])
         /\ run[w].unit # NoUnit /\ (InStep(w) <=> run[w].unit[2] \in Step)
         /\ Fence(Held(w)) =>
              /\ FaithfulAt(pc[w], run[w]) /\ status \notin Terminal
              /\ ActiveIs(run[w].unit[2])
<1>1. IsRun(run[w]) /\ IsState(run[w].state) /\ PlacedAt(pc[w], run[w])
  BY DEF WInv, Shape, RInv, RecordTypes, Placed
<1>2. run[w].unit # NoUnit
  BY <1>1, UnitAssumption DEF PlacedAt, Begun, Version
<1>3. Fence(Held(w)) => FaithfulAt(pc[w], run[w]) /\ status \notin Terminal
  BY FencedRowIsLeased
     DEF RInv, Faithful, WInv, Claimed, IInv, Leased, Terminal, AtWork
<1>4. Fence(Held(w)) => ActiveIs(run[w].unit[2])
  BY <1>2, <1>3 DEF FaithfulAt, ActiveIs
<1>5. QED
  BY <1>1, <1>2, <1>3, <1>4 DEF IsRun, WInv, IInv, TypeOK, InStep

LEMMA TableGoto ==
  ASSUME WInv, RInv, UNCHANGED <<vars, saved, held>>, NEW w \in Owner,
         NEW p \in PC, NEW r, Goto(w, p, r), IsState(r.state),
         plans \subseteq plans', plans' \subseteq Version,
         stepRow' \in [Version \X Step -> StepStatus \ {"duplicate"}],
         \A row \in Version \X Step :
           \/ stepRow'[row] = stepRow[row]
           \/ /\ Stepping(w) /\ row = Row(run[w])
              /\ stepRow[row] \notin Ended /\ stepRow'[row] # "absent",
         reviews' \in [Version -> {"absent", "PASS", "REPLAN"}],
         \A v \in Version : \/ reviews'[v] = reviews[v]
                            \/ Reviewing(w) /\ v = run[w].version,
         PlacedAt(p, r)', Fence(Held(w)) => FaithfulAt(p, r)',
         SteppingAt(p, r) => Stepping(w), ReviewingAt(p, r) => Reviewing(w)
  PROVE  RInv'
<1>1. pc'[w] = p /\ run'[w] = r /\ held'[w] = held[w]
  BY DEF WInv, Shape, Goto
<1>2. owner' = owner /\ generation' = generation /\ lease' = lease
  BY DEF vars, claimVars
<1>3. RecordTypes'
  <2>1. \A y \in Owner : IsState(run'[y].state)
    BY DEF Goto, WInv, Shape, RInv, RecordTypes
  <2>2. QED
    BY <2>1 DEF RInv, RecordTypes, IsState
<1>4. Placed(w)'
  BY <1>1 DEF Placed, PlacedAt, SteppingAt, ReviewingAt
<1>5. Faithful(w)'
  BY <1>1, <1>2
     DEF Faithful, Fence, Held, FaithfulAt, RunRecorded, Settles, ActiveIs
<1>6. (Stepping(w)' => Stepping(w)) /\ (Reviewing(w)' => Reviewing(w))
  BY <1>1 DEF Stepping, Reviewing, SteppingAt, ReviewingAt
<1>7. QED
  BY <1>3, <1>4, <1>5, <1>6, TablesKeep

(***************************************************************************)
(* start_step and finish_step: the row of a step goes from absent to       *)
(* running and from there to its end, and never back.                      *)
(***************************************************************************)
LEMMA StepRecords ==
  ASSUME WInv, RInv, NEW w \in Owner, StartStep(w) \/ RecordStep(w)
  PROVE  RInv'
<1> DEFINE r == run[w]
           u == r.unit[2]
           row == Row(r)
<1>1. /\ UNCHANGED <<vars, saved, held>> /\ plans' = plans /\ reviews' = reviews
      /\ pc[w] \in {"start", "record"} /\ pc[w] \in AtWork
  BY DEF StartStep, RecordStep, AtWork
<1>2. /\ IsRun(r) /\ IsState(r.state) /\ r.version \in Version
      /\ version \in Version /\ PlacedAt(pc[w], r)
      /\ (InStep(w) <=> u \in Step)
      /\ Fence(Held(w)) => /\ FaithfulAt(pc[w], r) /\ status \notin Terminal
                           /\ ActiveIs(u)
  BY <1>1, WriterKnows
<1>3. u \in Step /\ Stepping(w) /\ ~Reviewing(w)
  BY <1>1, <1>2 DEF StartStep, RecordStep, PlacedAt, Stepping, SteppingAt,
                    Reviewing, ReviewingAt
<1>4. /\ row \in Version \X Step /\ r.unit[1] = r.version /\ r.version <= version
      /\ status \in Terminal \/ active = r.unit
      /\ stepRow[row] = IF pc[w] = "start" THEN "absent" ELSE "running"
      /\ stepRow \in [Version \X Step -> StepStatus \ {"duplicate"}]
  BY <1>1, <1>2, <1>3 DEF PlacedAt, Stepping, Row, RInv, RecordTypes
<1>5. /\ status' = status /\ active' = active /\ version' = version
      /\ owner' = owner /\ generation' = generation /\ lease' = lease
  BY <1>1 DEF vars, claimVars, checkpointVars
<1>6. ASSUME NEW p \in PC, NEW q, NEW x \in StepStatus \ {"absent", "duplicate"},
             Goto(w, p, q), stepRow' = [stepRow EXCEPT ![row] = x],
             IsState(q.state), PlacedAt(p, q)',
             Fence(Held(w)) => FaithfulAt(p, q)', ~ReviewingAt(p, q)
      PROVE  RInv'
  <2>1. stepRow' \in [Version \X Step -> StepStatus \ {"duplicate"}]
    BY <1>4, <1>6
  <2>2. \A z \in Version \X Step :
          \/ stepRow'[z] = stepRow[z]
          \/ /\ Stepping(w) /\ z = Row(run[w])
             /\ stepRow[z] \notin Ended /\ stepRow'[z] # "absent"
    BY <1>3, <1>4, <1>6 DEF Ended
  <2>3. QED
    BY <1>1, <1>3, <1>6, <2>1, <2>2, TableGoto DEF RInv, RecordTypes
<1>7. CASE StartStep(w)
  <2>1. PICK q : q = r
    OBVIOUS
  <2>2. /\ pc[w] = "start" /\ Goto(w, "work", q)
        /\ stepRow' = [stepRow EXCEPT ![row] = "running"]
    BY <1>4, <1>7, <2>1 DEF StartStep, Row
  <2>3. stepRow'[Row(q)] = "running"
    BY <1>4, <2>1, <2>2
  <2>4. PlacedAt("work", q)' /\ ~ReviewingAt("work", q)
    BY <1>2, <1>3, <1>4, <1>5, <2>1, <2>2, <2>3, WorkerUnitAssumption
       DEF PlacedAt, SteppingAt, ReviewingAt, AtWork, StageUnit
  <2>5. Fence(Held(w)) => FaithfulAt("work", q)'
    BY <1>1, <1>2, <1>5, <2>1, <2>2 DEF FaithfulAt, RunRecorded, ActiveIs, AtWork
  <2>6. QED
    BY <1>2, <1>6, <2>1, <2>2, <2>4, <2>5 DEF PC, StepStatus
<1>8. CASE RecordStep(w)
  <2> DEFINE g == IF r.want = "queued" THEN AfterExecution(r.state.results)
                                      ELSE r.state.stage
             n == [r EXCEPT !.state.stage = g]
  <2>1. /\ pc[w] = "record" /\ r.outcome \in Ended
        /\ r.state.results[u] = AsResult(r.outcome)
    BY <1>2, <1>3, <1>8 DEF RecordStep, PlacedAt
  <2>2. stepRow' = [stepRow EXCEPT ![row] = r.outcome] /\ Goto(w, "save", n)
    BY <1>4, <1>8, <2>1 DEF RecordStep, Row
  <2>3. g \in {r.state.stage, "executor", "quality", "reviewer"} /\ g \in Stage
    BY <1>2 DEF AfterExecution, Stage, StageUnit, IsState
  <2> HIDE DEF g
  <2>4. /\ n.version = r.version /\ n.want = r.want /\ n.state.stage = g
        /\ n.state.results = r.state.results /\ IsState(n.state)
    BY <1>2, <2>3 DEF IsRun, IsState
  <2> HIDE DEF n
  <2>5. PICK q : q = n
    OBVIOUS
  <2>6. stepRow'[row] = r.outcome
    BY <1>4, <2>2
  <2>7. PlacedAt("save", q)' /\ ~ReviewingAt("save", q)
    BY DEF PlacedAt, SteppingAt, ReviewingAt, AtWork
  <2>8. ASSUME Fence(Held(w)) PROVE FaithfulAt("save", q)'
    <3>1. FaithfulAt("record", r) /\ status \notin Terminal /\ ActiveIs(u)
      BY <1>2, <2>1, <2>8
    <3>2. u \notin StageUnit
      BY <1>3, WorkerUnitAssumption
    <3>3. active = r.unit /\ r.version = version /\ row = <<version, u>>
      BY <1>3, <1>4, <3>1, <3>2
         DEF ActiveIs, FaithfulAt, RunRecorded, StageUnit, Row
    <3>4. r.state.stage = "executor" /\ q.state.stage \in Early
          /\ q.state.stage # "planner"
      BY <1>3, <2>3, <2>4, <2>5, <3>1 DEF FaithfulAt, AtWork, StageFits, Early
    <3>5. RunRecorded(q)'
      BY <1>1, <1>5, <2>4, <2>5, <3>1, <3>2, <3>3, <3>4
         DEF FaithfulAt, RunRecorded, ActiveIs, Early, StageUnit
    <3>6. Settles(q)'
      BY <1>5, <2>1, <2>4, <2>5, <2>6, <3>1, <3>2, <3>3
         DEF Settles, ActiveIs, StageUnit
    <3>7. q.want # "succeeded"
      BY <2>4, <2>5, <3>1 DEF FaithfulAt
    <3>8. QED
      BY <3>5, <3>6, <3>7 DEF FaithfulAt, AtWork
  <2>9. QED
    BY <1>6, <2>1, <2>2, <2>4, <2>5, <2>7, <2>8 DEF PC, StepStatus, Ended
<1>9. QED
  BY <1>7, <1>8

(***************************************************************************)
(* create_plan: a plan is on record before its version can be a            *)
(* checkpoint's.                                                           *)
(***************************************************************************)
LEMMA PlanRecords ==
  ASSUME WInv, RInv, NEW w \in Owner, RecordPlan(w) \/ PlannerEnds(w)
  PROVE  RInv'
<1> DEFINE r == run[w]
           u == r.unit[2]
<1>1. /\ UNCHANGED <<vars, saved, held>> /\ stepRow' = stepRow
      /\ reviews' = reviews /\ plans' = plans \cup {r.version}
      /\ pc[w] \in {"work", "record"} /\ pc[w] \in AtWork
  BY DEF RecordPlan, PlannerEnds, Ending, AtWork
<1>2. /\ IsRun(r) /\ IsState(r.state) /\ r.version \in Version
      /\ version \in Version /\ PlacedAt(pc[w], r)
      /\ (InStep(w) <=> u \in Step)
      /\ Fence(Held(w)) => /\ FaithfulAt(pc[w], r) /\ status \notin Terminal
                           /\ ActiveIs(u)
  BY <1>1, WriterKnows
<1>3. PICK s : /\ s \in {"queued", r.want}
               /\ Goto(w, "save", [r EXCEPT !.state.stage = "executor", !.want = s])
  <2>1. [r EXCEPT !.state.stage = "executor", !.want = r.want]
          = [r EXCEPT !.state.stage = "executor"]
    BY <1>2 DEF IsRun
  <2>2. QED
    BY <2>1 DEF RecordPlan, PlannerEnds, MoveTo
<1>4. IF pc[w] = "record" THEN u = "replanner" ELSE u = "planner"
  BY <1>1, <1>2 DEF RecordPlan, PlannerEnds, Ending, PlacedAt
<1>5. /\ active' = active /\ version' = version
  BY <1>1 DEF vars, checkpointVars
<1> DEFINE n == [r EXCEPT !.state.stage = "executor", !.want = s]
<1>6. /\ n.version = r.version /\ n.want = s /\ n.state.stage = "executor"
      /\ n.state.results = r.state.results /\ IsState(n.state)
  BY <1>2 DEF IsRun, IsState, Stage
<1>7. Goto(w, "save", n)
  BY <1>3
<1> HIDE DEF n
<1>8. PICK q : q = n
  OBVIOUS
<1>9. PlacedAt("save", q)' /\ ~SteppingAt("save", q) /\ ~ReviewingAt("save", q)
  BY DEF PlacedAt, SteppingAt, ReviewingAt, AtWork
<1>10. ASSUME Fence(Held(w)) PROVE FaithfulAt("save", q)'
  <2>1. /\ FaithfulAt(pc[w], r) /\ ActiveIs(u) /\ u \notin Step
        /\ ~ActiveIs("reviewer") /\ \A x \in Step : ~ActiveIs(x)
    BY <1>2, <1>4, <1>10, WorkerUnitAssumption DEF ActiveIs, StageUnit
  <2>2. RunRecorded(r) /\ r.state.stage = u /\ r.want # "succeeded"
        /\ (pc[w] = "record" => r.version = version + 1)
        /\ (pc[w] # "record" => r.version = version)
    BY <1>1, <1>4, <2>1, WorkerUnitAssumption
       DEF FaithfulAt, AtWork, StageFits, StageUnit
  <2>3. reviews[r.version] = "absent"
    <3>1. CASE pc[w] = "record"
      BY <1>2, <2>2, <3>1, BoundAssumption DEF RInv, Future, Version
    <3>2. CASE pc[w] # "record"
      BY <1>4, <2>1, <2>2, <3>2 DEF RunRecorded, Early
    <3>3. QED
      BY <3>1, <3>2
  <2>4. RunRecorded(q)'
    BY <1>1, <1>5, <1>6, <1>8, <2>1, <2>2, <2>3
       DEF RunRecorded, ActiveIs, Early
  <2>5. Settles(q)'
    BY <1>5, <2>1 DEF Settles, ActiveIs
  <2>6. QED
    BY <1>3, <1>6, <1>8, <2>2, <2>4, <2>5 DEF FaithfulAt, AtWork
<1>11. QED
  BY <1>1, <1>2, <1>6, <1>7, <1>8, <1>9, <1>10, TableGoto
     DEF RInv, RecordTypes, PC

(***************************************************************************)
(* The review of a plan version is written once, by the reviewer whose     *)
(* unit is in the row.                                                     *)
(***************************************************************************)
LEMMA ReviewRecords ==
  ASSUME WInv, RInv, NEW w \in Owner, ReviewerEnds(w)
  PROVE  RInv'
<1> DEFINE r == run[w]
           u == r.unit[2]
<1>1. /\ UNCHANGED <<vars, saved, held>> /\ stepRow' = stepRow /\ plans' = plans
      /\ pc[w] = "work" /\ pc[w] \in AtWork /\ u = "reviewer"
  BY DEF ReviewerEnds, Ending, AtWork
<1>2. /\ IsRun(r) /\ IsState(r.state) /\ r.version \in Version
      /\ version \in Version /\ PlacedAt(pc[w], r)
      /\ Fence(Held(w)) => /\ FaithfulAt(pc[w], r) /\ status \notin Terminal
                           /\ ActiveIs(u)
  BY <1>1, WriterKnows
<1>3. PICK verdict \in {"PASS", "REPLAN"} :
        /\ reviews' = [reviews EXCEPT ![r.version] = verdict]
        /\ MoveTo(w, IF verdict = "PASS" THEN "writer" ELSE "replanner", "queued")
  BY DEF ReviewerEnds
<1> DEFINE g == IF verdict = "PASS" THEN "writer" ELSE "replanner"
           n == [r EXCEPT !.state.stage = g, !.want = "queued"]
<1>4. Goto(w, "save", n)
  BY <1>3 DEF MoveTo
<1>5. g \in Stage
  BY DEF Stage, StageUnit
<1> HIDE DEF g
<1>6. /\ n.version = r.version /\ n.want = "queued" /\ n.state.stage = g
      /\ n.state.results = r.state.results /\ IsState(n.state)
  BY <1>2, <1>5 DEF IsRun, IsState
<1> HIDE DEF n
<1>7. PICK q : q = n
  OBVIOUS
<1>8. /\ reviews' \in [Version -> {"absent", "PASS", "REPLAN"}]
      /\ reviews'[r.version] = verdict
      /\ \A v \in Version : reviews'[v] = reviews[v] \/ v = r.version
  BY <1>2, <1>3 DEF RInv, RecordTypes
<1>9. PlacedAt("save", q)' /\ ~SteppingAt("save", q) /\ ~ReviewingAt("save", q)
  BY DEF PlacedAt, SteppingAt, ReviewingAt, AtWork
<1>10. active' = active /\ version' = version
  BY <1>1 DEF vars, checkpointVars
<1>11. ASSUME Fence(Held(w)) PROVE FaithfulAt("save", q)'
  <2>1. /\ FaithfulAt("work", r) /\ ActiveIs("reviewer")
        /\ \A x \in Step : ~ActiveIs(x)
    BY <1>1, <1>2, <1>11, WorkerUnitAssumption DEF ActiveIs, StageUnit
  <2>2. RunRecorded(r) /\ r.state.stage = "reviewer" /\ r.version = version
    BY <1>1, <2>1, WorkerUnitAssumption
       DEF FaithfulAt, AtWork, StageFits, StageUnit
  <2>3. RunRecorded(q)'
    BY <1>1, <1>6, <1>7, <1>8, <1>10, <2>1, <2>2
       DEF RunRecorded, ActiveIs, Early, g
  <2>4. Settles(q)'
    BY <1>6, <1>7, <1>8, <1>10, <2>1, <2>2 DEF Settles, ActiveIs, Early, g
  <2>5. QED
    BY <1>6, <1>7, <2>3, <2>4 DEF FaithfulAt, AtWork
<1>12. Reviewing(w)
  BY <1>1 DEF Reviewing, ReviewingAt
<1>13. QED
  BY <1>1, <1>2, <1>4, <1>6, <1>7, <1>8, <1>9, <1>11, <1>12, TableGoto
     DEF RInv, RecordTypes, PC

-----------------------------------------------------------------------------

(***************************************************************************)
(* A step or a review of a workflow that is not over is its active unit.   *)
(***************************************************************************)
LEMMA BusyIsActive ==
  ASSUME WInv, RInv, NEW x \in Owner, Stepping(x) \/ Reviewing(x),
         status \notin Terminal
  PROVE  /\ active # NoUnit /\ active = run[x].unit
         /\ run[x].version = version
         /\ ActiveIs(run[x].unit[2])
<1>1. active = run[x].unit /\ run[x].unit \in Begun /\ run[x].unit[1] = run[x].version
  BY DEF RInv, Placed, PlacedAt, Stepping, Reviewing, SteppingAt, ReviewingAt,
         AtWork
<1>2. active # NoUnit
  BY <1>1, UnitAssumption DEF Begun, Version
<1>3. active[2] # "replanner"
  BY <1>1, WorkerUnitAssumption
     DEF Stepping, Reviewing, SteppingAt, ReviewingAt, StageUnit
<1>4. QED
  BY <1>1, <1>2, <1>3 DEF RInv, Open, ActiveRecorded, ActiveIs

(***************************************************************************)
(* begin: nobody is in a step or a review while no unit is active, and     *)
(* what is about to begin has left no record.                              *)
(***************************************************************************)
LEMMA BeginRecords ==
  ASSUME WInv, RInv, NEW w \in Owner, BeginUnit(w)
  PROVE  RInv'
<1> DEFINE r == run[w]
           u == r.unit[2]
<1>1. [Next]_vars
  BY WorkRefines DEF Work
<1>2. IsRun(r) /\ IsState(r.state) /\ pc[w] = "begin" /\ Fence(Held(w))
      /\ held' = held
  BY DEF BeginUnit, WInv, Shape, RInv, RecordTypes
<1>3. FaithfulAt("begin", r) /\ r.unit \in Begun
  BY <1>2 DEF RInv, Faithful, WInv, Beginnable
<1>4. /\ active = NoUnit /\ r.state = saved /\ r.version = version
      /\ r.unit[1] = version /\ StageFits(saved.stage, u)
      /\ u \in Step => saved.results[u] = "none"
      /\ RunRecorded(r) /\ r.want # "succeeded"
  BY <1>3 DEF FaithfulAt
<1>5. status \notin Terminal /\ ResultsRecorded /\ StageRecorded
  BY <1>2, FencedRowIsLeased DEF WInv, Claimed, IInv, Leased, Terminal, RInv, Open
<1>6. CASE SaveAs(w, Refusal(w)) /\ UNCHANGED vars
  <2>1. UNCHANGED quiet
    BY <1>6 DEF BeginUnit, quiet, vars, checkpointVars, recordTables
  <2> DEFINE q == [r EXCEPT !.want = Refusal(w)]
  <2>2. /\ Refusal(w) # "succeeded"
    BY DEF Refusal
  <2>3. /\ q.version = r.version /\ q.state = r.state /\ q.want = Refusal(w)
    BY <1>2 DEF IsRun
  <2>4. Goto(w, "save", q)
    BY <1>6 DEF SaveAs
  <2> HIDE DEF q
  <2>5. PlacedAt("save", q) /\ ~SteppingAt("save", q) /\ ~ReviewingAt("save", q)
    BY DEF PlacedAt, SteppingAt, ReviewingAt, AtWork
  <2>6. RunRecorded(q) /\ Settles(q)
    BY <1>4, <2>3 DEF RunRecorded, Settles, ActiveIs
  <2>7. FaithfulAt("save", q)
    BY <2>2, <2>3, <2>6 DEF FaithfulAt, AtWork
  <2>8. QED
    BY <1>1, <1>2, <2>1, <2>3, <2>4, <2>5, <2>7, QuietGoto DEF PC
<1>7. CASE /\ Begin(Held(w), u, r.unit[3])
           /\ Goto(w, IF InStep(w) THEN "charge" ELSE "work", r)
  <2> DEFINE p == IF InStep(w) THEN "charge" ELSE "work"
  <2>1. /\ status = "running" /\ status' = status /\ version' = version
        /\ active' = <<version, u, r.unit[3]>> /\ owner' = owner
        /\ saved' = saved /\ plans' = plans /\ stepRow' = stepRow
        /\ reviews' = reviews
    BY <1>7 DEF Begin, BeginUnit, claimVars, checkpointVars, recordTables
  <2>2. active' = r.unit /\ active' # NoUnit /\ version \in Version
    BY <1>3, <1>4, <2>1, UnitAssumption DEF Begun, Version, WInv, IInv, TypeOK
  <2>3. pc'[w] = p /\ run'[w] = r /\ held' = held
        /\ \A x \in Owner : x # w => pc'[x] = pc[x] /\ run'[x] = run[x]
    BY <1>2, <1>7 DEF WInv, Shape, Goto
  <2>4. \A x \in Owner : ~Stepping(x) /\ ~Reviewing(x)
    BY <1>4, <1>5, BusyIsActive
  <2>5. InStep(w) <=> u \in Step
    BY <1>3, UnitAssumption DEF InStep, Begun, Version
  <2>6. ASSUME NEW x \in Owner, x # w PROVE Placed(x)' /\ Faithful(x)'
                                            /\ ~Stepping(x)' /\ ~Reviewing(x)'
    <3>1. ~Stepping(x)' /\ ~Reviewing(x)'
      BY <2>3, <2>4, <2>6 DEF Stepping, Reviewing, SteppingAt, ReviewingAt
    <3>2. Placed(x)'
      BY <2>3, <2>6, <3>1 DEF RInv, Placed, PlacedAt, Stepping, Reviewing,
                              SteppingAt, ReviewingAt
    <3>3. Faithful(x)'
      BY <1>2, <2>1, <2>6 DEF Faithful, Fence, Held
    <3>4. QED
      BY <3>1, <3>2, <3>3
  <2>7. u \in Step => stepRow[<<version, u>>] = "absent"
    BY <1>4, <1>5 DEF ResultsRecorded, ActiveIs
  <2>8. ~(u \in Step /\ u = "reviewer") /\ ~(u \in Step /\ u = "replanner")
    BY WorkerUnitAssumption DEF StageUnit
  <2>9. u = "reviewer" => reviews[version] = "absent"
    BY <1>4, <1>5, <2>8 DEF StageRecorded, StageFits, Early, ActiveIs
  <2>10. Placed(w)'
    BY <1>3, <1>4, <2>1, <2>2, <2>3, <2>5, <2>7, <2>8, <2>9, BoundAssumption
       DEF Placed, PlacedAt, SteppingAt, ReviewingAt, AtWork, Row, Version
  <2>11. Faithful(w)'
    <3>1. RunRecorded(r) /\ r.state.stage = saved.stage
      BY <1>4
    <3>2. PICK q, m : q = r /\ m = p
      OBVIOUS
    <3>3. RunRecorded(q)'
      BY <1>4, <2>1, <2>2, <3>1, <3>2 DEF RunRecorded, ActiveIs
    <3>4. /\ m \in {"charge", "work"} /\ q.unit = active' /\ q.version = version'
          /\ StageFits(q.state.stage, q.unit[2]) /\ q.want # "succeeded"
      BY <1>4, <2>1, <2>2, <3>2
    <3>5. FaithfulAt(m, q)'
      BY <3>3, <3>4 DEF FaithfulAt, AtWork, StageFits
    <3>6. pc'[w] = m /\ run'[w] = q
      BY <2>3, <3>2
    <3>7. QED
      BY <3>5, <3>6 DEF Faithful
  <2>12. Open'
    <3>1. ResultsRecorded'
      BY <1>4, <1>5, <2>1 DEF ResultsRecorded, ActiveIs
    <3>2. StageRecorded'
      BY <1>4, <1>5, <2>1 DEF StageRecorded, ActiveIs
    <3>3. /\ saved.stage \notin {"planner", "replanner"} => version \in plans
          /\ saved.stage = "writer" => reviews[version] = "PASS"
          /\ saved.stage \in Early => reviews[version] = "absent"
      BY <1>4, <1>5 DEF StageRecorded, ActiveIs
    <3>4. /\ u \notin {"planner", "replanner"} =>
                saved.stage \notin {"planner", "replanner"}
          /\ u = "writer" => saved.stage = "writer"
          /\ u \notin {"reviewer", "replanner", "writer", "done"} =>
                saved.stage \in Early
      BY <1>3, <1>4, WorkerUnitAssumption
         DEF StageFits, StageUnit, Early, Begun
    <3>5. active'[1] = version /\ active'[2] = u
      BY <2>1
    <3>6. ActiveRecorded'
      BY <2>1, <3>3, <3>4, <3>5 DEF ActiveRecorded
    <3>7. QED
      BY <3>1, <3>2, <3>6 DEF Open
  <2>13. Alone'
    BY <2>6 DEF Alone
  <2>14. RecordTypes' /\ Future'
    BY <1>2, <2>1, <2>3 DEF RInv, RecordTypes, Future, IsState
  <2>15. Snapshots'
    BY <1>1, SnapshotsStep DEF WInv, RInv
  <2>16. QED
    BY <2>6, <2>10, <2>11, <2>12, <2>13, <2>14, <2>15 DEF RInv
<1>8. QED
  BY <1>6, <1>7 DEF BeginUnit

(***************************************************************************)
(* save makes the run the checkpoint.  What goes on after it has settled   *)
(* the unit that the save clears, so nobody is left in it.                 *)
(***************************************************************************)
LEMMA SaveRecords ==
  ASSUME WInv, RInv, NEW w \in Owner, SaveRun(w)
  PROVE  RInv'
<1> DEFINE r == run[w]
<1>1. [Next]_vars
  BY WorkRefines DEF Work
<1>2. /\ IsRun(r) /\ IsState(r.state) /\ pc[w] \in {"save", "park"}
      /\ Fence(Held(w))
      /\ status' = SavedStatus(r.want) /\ version' = r.version
      /\ active' = IF status' = "recovery_required" THEN active ELSE NoUnit
      /\ saved' = r.state /\ owner' = NoOwner
      /\ plans' = plans /\ stepRow' = stepRow /\ reviews' = reviews
  BY DEF SaveRun, Save, Release, WInv, Shape, RInv, RecordTypes, recordTables
<1>3. FaithfulAt(pc[w], r)
  BY <1>2 DEF RInv, Faithful
<1>4. RunRecorded(r)
  BY <1>3 DEF FaithfulAt
<1>5. /\ status \notin Terminal /\ ResultsRecorded /\ StageRecorded
      /\ ActiveRecorded
  BY <1>2, FencedRowIsLeased DEF WInv, Claimed, IInv, Leased, Terminal, RInv, Open
<1>6. /\ version \in Version /\ version' \in Version
      /\ version' \in {version, version + 1}
  BY <1>2, <1>4 DEF WInv, IInv, TypeOK, IsRun, RunRecorded
<1>7. \/ status' \in Terminal \/ status' = "recovery_required"
      \/ status' \in Going /\ r.want \in Going
  BY <1>2 DEF IsRun, SaveStatus, Parked, SavedStatus, Going, Terminal
<1>8. status' \in Going => active' = NoUnit /\ Settles(r)
  <2>1. status' \in Going => active' = NoUnit /\ r.want \in Going
    BY <1>2, <1>7 DEF Going, Terminal
  <2>2. CASE pc[w] = "park"
    BY <1>3, <2>1, <2>2 DEF FaithfulAt, Settles, ActiveIs
  <2>3. CASE pc[w] = "save"
    BY <1>3, <2>1, <2>3 DEF FaithfulAt
  <2>4. QED
    BY <1>2, <2>2, <2>3
<1>9. /\ pc'[w] = "idle" /\ run'[w] = NoRun
      /\ \A x \in Owner : x # w => pc'[x] = pc[x] /\ run'[x] = run[x]
  BY DEF SaveRun, Leave, Goto, WInv, Shape
<1>10. \A x \in Owner : Stepping(x) \/ Reviewing(x) =>
         active' = active \/ status' \in Terminal
  <2>1. SUFFICES ASSUME NEW x \in Owner, Stepping(x) \/ Reviewing(x),
                        status' \in Going
                 PROVE  FALSE
    BY <1>2, <1>7
  <2>2. Settles(r)
    BY <1>8, <2>1
  <2>3. /\ run[x].version = version /\ ActiveIs(run[x].unit[2])
        /\ PlacedAt(pc[x], run[x])
    BY <1>5, <2>1, BusyIsActive DEF RInv, Placed
  <2>4. CASE Stepping(x)
    <3>1. run[x].unit[2] \in Step
          /\ stepRow[<<version, run[x].unit[2]>>] \in {"absent", "running"}
      BY <2>3, <2>4 DEF Stepping, SteppingAt, PlacedAt, Row
    <3>2. QED
      BY <2>2, <2>3, <3>1 DEF Settles, Ended
  <2>5. CASE Reviewing(x)
    <3>1. run[x].unit[2] = "reviewer" /\ reviews[version] = "absent"
      BY <2>3, <2>5 DEF Reviewing, ReviewingAt, PlacedAt
    <3>2. QED
      BY <2>2, <2>3, <3>1 DEF Settles
  <2>6. QED
    BY <2>1, <2>4, <2>5
<1>11. ASSUME NEW x \in Owner
       PROVE  /\ Placed(x)' /\ Faithful(x)'
              /\ Stepping(x)' => Stepping(x)
              /\ Reviewing(x)' => Reviewing(x)
              /\ IsState(run'[x].state)
  <2>1. Faithful(x)'
    BY <1>2, OwnerAssumption DEF Faithful, Fence, Held
  <2>2. CASE x = w
    <3>1. IsState(NoRun.state)
      BY DEF IsState, Start, NoRun, Outcome, Stage, StageUnit
    <3>2. QED
      BY <1>9, <2>1, <2>2, <3>1 DEF Placed, PlacedAt, Stepping, Reviewing,
                                    SteppingAt, ReviewingAt, AtWork
  <2>3. CASE x # w
    <3>1. pc'[x] = pc[x] /\ run'[x] = run[x] /\ IsState(run[x].state)
      BY <1>9, <2>3 DEF RInv, RecordTypes
    <3>2. (Stepping(x)' <=> Stepping(x)) /\ (Reviewing(x)' <=> Reviewing(x))
      BY <3>1 DEF Stepping, Reviewing, SteppingAt, ReviewingAt
    <3>3. PlacedAt(pc[x], run[x]) /\ IsRun(run[x])
      BY DEF RInv, Placed, WInv, Shape
    <3>4. Stepping(x) \/ Reviewing(x) =>
            /\ run[x].version <= version'
            /\ status' \in Terminal \/ active' = run[x].unit
      BY <1>5, <1>6, <1>10, <3>3
         DEF PlacedAt, Stepping, Reviewing, IsRun, Version
    <3>5. Placed(x)'
      BY <1>2, <3>1, <3>3, <3>4
         DEF Placed, PlacedAt, Stepping, Reviewing, SteppingAt, ReviewingAt, Row
    <3>6. QED
      BY <2>1, <3>1, <3>2, <3>5
  <2>4. QED
    BY <2>2, <2>3
<1>12. RecordTypes'
  BY <1>2, <1>11 DEF RInv, RecordTypes, IsState
<1>13. Future'
  BY <1>2, <1>6 DEF RInv, Future, Version
<1>14. ASSUME NEW s \in Step, ~ActiveIs(s)
       PROVE  /\ r.state.results[s] = "succeeded" =>
                   \E v \in 1..version' : stepRow[<<v, s>>] = "succeeded"
              /\ r.state.results[s] = "none" =>
                   stepRow[<<version', s>>] = "absent"
  <2>1. \/ r.state.results[s] = saved.results[s]
        \/ r.state.results[s] = "none" /\ version' = version + 1
    BY <1>2, <1>4, <1>14 DEF RunRecorded
  <2>2. version' = version + 1 => stepRow[<<version', s>>] = "absent"
    BY <1>6 DEF RInv, Future, Version
  <2>3. 1..version \subseteq 1..version'
    BY <1>6 DEF Version
  <2>4. QED
    BY <1>5, <1>6, <1>14, <2>1, <2>2, <2>3 DEF ResultsRecorded
<1>15. CASE status' = "recovery_required"
  <2>1. active' = active
    BY <1>2, <1>15
  <2>2. ResultsRecorded'
    BY <1>2, <1>14, <2>1 DEF ResultsRecorded, ActiveIs
  <2>3. StageRecorded'
    BY <1>2, <1>4, <2>1 DEF StageRecorded, RunRecorded, ActiveIs
  <2>4. ActiveRecorded'
    BY <1>2, <1>4, <1>5, <2>1 DEF ActiveRecorded, RunRecorded, ActiveIs
  <2>5. QED
    BY <1>1, <1>11, <1>12, <1>13, <2>2, <2>3, <2>4, SnapshotsStep
       DEF RInv, WInv, Open, Alone
<1>16. CASE status' \in Going
  <2>1. active' = NoUnit /\ Settles(r)
    BY <1>8, <1>16
  <2>2. ResultsRecorded'
    <3>1. ASSUME NEW s \in Step, ActiveIs(s)
          PROVE  /\ r.state.results[s] # "none"
                 /\ r.state.results[s] = "succeeded" =>
                      \E v \in 1..version' : stepRow[<<v, s>>] = "succeeded"
      <4>1. version' = version
        BY <1>2, <1>4, <3>1, WorkerUnitAssumption
           DEF RunRecorded, ActiveIs, StageUnit
      <4>2. r.state.results[s] = AsResult(stepRow[<<version, s>>])
        BY <2>1, <3>1 DEF Settles
      <4>3. version \in 1..version'
        BY <1>6, <4>1 DEF Version
      <4>4. QED
        BY <4>2, <4>3 DEF AsResult
    <3>2. QED
      BY <1>2, <1>14, <3>1 DEF ResultsRecorded
  <2>3. StageRecorded'
    BY <1>2, <1>4, <2>1 DEF StageRecorded, RunRecorded, ActiveIs, Settles
  <2>4. ActiveRecorded'
    BY <2>1 DEF ActiveRecorded
  <2>5. QED
    BY <1>1, <1>11, <1>12, <1>13, <2>2, <2>3, <2>4, SnapshotsStep
       DEF RInv, WInv, Open, Alone
<1>17. CASE status' \in Terminal
  BY <1>1, <1>11, <1>12, <1>13, <1>17, SnapshotsStep DEF RInv, WInv, Open, Alone
<1>18. QED
  BY <1>7, <1>15, <1>16, <1>17

(***************************************************************************)
(* A modification adds a plan version while nobody is at work.             *)
(***************************************************************************)
LEMMA DecisionRecords ==
  ASSUME WInv, RInv, [Next]_vars, UserDecision
  PROVE  RInv'
<1>1. PICK d \in Client :
        /\ \/ (ReadSnapshot(d) \/ \E u \in Gated : Approve(d, u) \/ Reject(d, u))
              /\ UNCHANGED <<saved, plans>>
           \/ \E u \in Gated :
                /\ Modify(d, u)
                /\ plans' = plans \cup {version'}
                /\ saved' = [saved EXCEPT
                     !.stage = "executor",
                     !.results = Forget(@, Downstream(Rebuilt))]
        /\ UNCHANGED <<pc, held, run, stepRow, reviews>>
  BY DEF UserDecision
<1>2. CASE (ReadSnapshot(d) \/ \E u \in Gated : Approve(d, u) \/ Reject(d, u))
           /\ UNCHANGED <<saved, plans>>
  <2>1. UNCHANGED quiet
    BY <1>1, <1>2 DEF ReadSnapshot, Approve, Reject, Decide, quiet, checkpointVars
  <2>2. QED
    BY <1>1, <2>1, QuietOutside
<1>3. ASSUME NEW u \in Gated, Modify(d, u),
             plans' = plans \cup {version'},
             saved' = [saved EXCEPT !.stage = "executor",
                                    !.results = Forget(@, Downstream(Rebuilt))]
      PROVE  RInv'
  <2>1. /\ status = "awaiting_approval" /\ status' = "paused"
        /\ checkpoint = prior[d].checkpoint /\ prior[d].version < MaxVersion
        /\ version' = prior[d].version + 1
        /\ UNCHANGED <<active, owner>>
    BY <1>3 DEF Modify, Decide, Decidable, claimVars
  <2>2. active = NoUnit /\ active' = NoUnit /\ prior[d].version = version
    BY <2>1 DEF RInv, Snapshots
  <2>3. version \in Version /\ version' = version + 1 /\ version' \in Version
    BY <2>1, <2>2, BoundAssumption DEF WInv, IInv, TypeOK, Version
  <2>4. status \notin Terminal /\ owner = NoOwner
    BY <2>1 DEF Terminal, WInv, IInv, OwnerIffLeased, Leased
  <2>5. ASSUME NEW x \in Owner PROVE ~Stepping(x) /\ ~Reviewing(x)
    BY <2>2, <2>4, BusyIsActive
  <2>6. ASSUME NEW x \in Owner
        PROVE  Placed(x)' /\ Faithful(x)' /\ ~Stepping(x)' /\ ~Reviewing(x)'
    <3>1. ~Stepping(x)' /\ ~Reviewing(x)'
      BY <1>1, <2>5 DEF Stepping, Reviewing, SteppingAt, ReviewingAt
    <3>2. Placed(x)'
      BY <1>1, <2>5, <3>1 DEF RInv, Placed, PlacedAt, Stepping, Reviewing,
                              SteppingAt, ReviewingAt
    <3>3. Faithful(x)'
      BY <2>1, <2>4, OwnerAssumption DEF Faithful, Fence, Held
    <3>4. QED
      BY <3>1, <3>2, <3>3
  <2>7. IsState(saved) /\ ResultsRecorded /\ StageRecorded
    BY <2>4 DEF RInv, RecordTypes, Open
  <2>8. /\ saved'.stage = "executor"
        /\ saved'.results = Forget(saved.results, Downstream(Rebuilt))
        /\ saved' = [stage |-> saved'.stage, results |-> saved'.results,
                     phase |-> saved'.phase]
    BY <1>3, <2>7 DEF IsState
  <2>9. \A s \in Step : saved'.results[s] \in {"none", saved.results[s]}
    BY <2>8 DEF Forget
  <2>10. IsState(saved')
    BY <2>7, <2>8 DEF IsState, Forget, Outcome, Stage, StageUnit
  <2>11. RecordTypes'
    BY <1>1, <1>3, <2>3, <2>10 DEF RInv, RecordTypes, IsState
  <2>12. Future'
    BY <1>1, <2>3 DEF RInv, Future, Version
  <2>13. /\ \A s \in Step : stepRow[<<version', s>>] = "absent"
         /\ reviews[version'] = "absent"
    BY <2>3 DEF RInv, Future, Version
  <2>14. ResultsRecorded'
    <3>1. ASSUME NEW s \in Step, saved'.results[s] = "succeeded"
          PROVE  \E v \in 1..version' : stepRow[<<v, s>>] = "succeeded"
      <4>1. saved.results[s] = "succeeded"
        BY <2>9, <3>1
      <4>2. PICK v \in 1..version : stepRow[<<v, s>>] = "succeeded"
        BY <2>2, <2>7, <4>1 DEF ResultsRecorded, ActiveIs
      <4>3. v \in 1..version'
        BY <2>3 DEF Version
      <4>4. QED
        BY <4>2, <4>3
    <3>2. QED
      BY <1>1, <2>13, <3>1 DEF ResultsRecorded
  <2>15. StageRecorded' /\ ActiveRecorded'
    BY <1>1, <1>3, <2>2, <2>8, <2>13 DEF StageRecorded, ActiveRecorded, Early
  <2>16. QED
    BY <2>6, <2>11, <2>12, <2>14, <2>15, SnapshotsStep
       DEF RInv, WInv, Open, Alone
<1>4. QED
  BY <1>1, <1>2, <1>3

(***************************************************************************)
(* Every step of the system keeps the records sound.                       *)
(***************************************************************************)
LEMMA RecordsStep ==
  ASSUME WInv, RInv, [WorkerNext]_allVars
  PROVE  RInv'
<1>1. [Next]_vars
  BY StepRefines
<1>2. ASSUME NEW w \in Owner, Work(w) PROVE RInv'
  <2>1. CASE LoadStopped(w) \/ LoadUncertain(w) \/ LoadFresh(w)
    BY <2>1, LoadRecords
  <2>2. CASE Reconcile(w)
    BY <2>2, ReconcileRecords
  <2>3. CASE ReconcileHeld(w) \/ GateOpen(w) \/ GateShut(w)
    BY <2>3, WaitingRecords
  <2>4. CASE BeginUnit(w) \/ SaveRun(w)
    BY <2>4, BeginRecords, SaveRecords
  <2>5. CASE LoadCorrupt(w) \/ LoseLease(w)
    BY <1>1, <2>5, LeavingRecords
  <2>6. CASE StartStep(w) \/ RecordStep(w)
    BY <2>6, StepRecords
  <2>7. CASE RecordPlan(w) \/ PlannerEnds(w)
    BY <2>7, PlanRecords
  <2>8. CASE ReviewerEnds(w)
    BY <2>8, ReviewRecords
  <2>9. CASE \/ Charge(w) \/ FinishCall(w) \/ RejectCall(w) \/ LoseAnswer(w)
             \/ RefuseCall(w) \/ \E k \in Call : StartCall(w, k)
    BY <2>9, CallRecords
  <2>10. CASE \/ EndStep(w) \/ Replan(w) \/ AdvanceEnds(w) \/ QualityEnds(w)
              \/ WriterEnds(w) \/ FailStage(w)
    BY <2>10, EndingRecords
  <2>11. CASE OutOfBudget(w)
    BY <1>1, <2>11, AbortRecords
  <2>12. QED
    BY <1>2, <2>1, <2>2, <2>3, <2>4, <2>5, <2>6, <2>7, <2>8, <2>9, <2>10, <2>11
       DEF Work, EndStage
<1>3. ASSUME NEW w \in Owner, WorkerClaim(w) \/ Crash(w) \/ Interrupt(w)
      PROVE  RInv'
  BY <1>1, <1>3, LeavingRecords, AbortRecords
<1>4. ASSUME \/ Desk \/ UserControl \/ Corrupt \/ Clock \/ Outside
             \/ \E w \in Owner : Renew(w)
      PROVE  RInv'
  <2>1. UNCHANGED <<pc, held, run>>
    BY <1>4 DEF Desk, DeskOpen, DeskCalls, DeskEvidence, DeskQueue, DeskConflict,
                AtDesk, UserControl, Corrupt, Clock, Outside, Renew, workerVars
  <2>2. QED
    BY <1>1, <1>4, <2>1, OutsideRecords
<1>5. CASE UNCHANGED allVars
  <2>1. UNCHANGED quiet /\ UNCHANGED <<pc, held, run>>
    BY <1>5 DEF allVars, workerVars, vars, checkpointVars, quiet, recordTables
  <2>2. QED
    BY <1>1, <2>1, QuietOutside
<1>6. QED
  BY <1>1, <1>2, <1>3, <1>4, <1>5, DecisionRecords DEF WorkerNext

-----------------------------------------------------------------------------

(***************************************************************************)
(* Every record of a plan, a step or a review a workflow rests on is sound *)
(* in every state the workers reach: the inductive invariant holds.        *)
(***************************************************************************)
THEOREM RecordsAreSound == WorkerSpec => [](WInv /\ RInv)
<1>1. WorkerInit => WInv /\ RInv
  BY WorkerStart, RecordsStart
<1>2. WInv /\ RInv /\ [WorkerNext]_allVars => WInv' /\ RInv'
  BY WorkerStepKeeps, RecordsStep
<1>3. QED
  BY <1>1, <1>2, PTL DEF WorkerSpec

(***************************************************************************)
(* No step is started twice, and what a checkpoint builds on was written   *)
(* by the step itself: start_step, finish_step, save and _reconcile.       *)
(***************************************************************************)
THEOREM StepsRunOnce == WorkerSpec => []StepRowsAreSound
<1>1. ASSUME WInv, RInv PROVE StepRowsAreSound
  <2>1. ASSUME NEW row \in Version \X Step PROVE stepRow[row] # "duplicate"
    BY <1>1 DEF RInv, RecordTypes
  <2>2. ASSUME active = NoUnit, status \notin Terminal, NEW s \in Step,
               saved.results[s] = "succeeded"
        PROVE  \E v \in 1..version : stepRow[<<v, s>>] = "succeeded"
    BY <1>1, <2>2 DEF RInv, Open, ResultsRecorded, ActiveIs
  <2>3. QED
    BY <2>1, <2>2 DEF StepRowsAreSound
<1>2. QED
  BY <1>1, RecordsAreSound, PTL

-----------------------------------------------------------------------------

(***************************************************************************)
(* What a worker does to the row, it does with a good claim.               *)
(***************************************************************************)
LEMMA WorkIsFenced ==
  ASSUME WInv, NEW w \in Owner, Work(w) \/ Interrupt(w), status \notin Leased
  PROVE  status' = status /\ active' = active /\ version' = version /\ saved' = saved
<1>1. pc[w] # "idle" => ~Fence(Held(w))
  BY FencedRowIsLeased DEF WInv, Claimed, IInv
<1> USE <1>1 DEF vars, checkpointVars
<1>2. CASE LoadStopped(w) \/ LoadUncertain(w) \/ LoadFresh(w) \/ LoadCorrupt(w)
  BY <1>2 DEF LoadStopped, LoadUncertain, LoadFresh, Loading, LoadCorrupt,
              Quarantine
<1>3. CASE ReconcileHeld(w) \/ Reconcile(w) \/ GateOpen(w) \/ GateShut(w)
  BY <1>3 DEF ReconcileHeld, ReconcileCalls, Reconcile, Gating, GateOpen,
              GateShut, Gate
<1>4. CASE BeginUnit(w) \/ Charge(w) \/ SaveRun(w)
  BY <1>4 DEF BeginUnit, Charge, JournalBudget, SaveRun, Save
<1>5. CASE StartStep(w) \/ EndStep(w) \/ RecordStep(w) \/ Replan(w)
            \/ RecordPlan(w) \/ EndStage(w) \/ FailStage(w)
  BY <1>5 DEF StartStep, EndStep, RecordStep, Replan, RecordPlan, EndStage,
              PlannerEnds, AdvanceEnds, QualityEnds, ReviewerEnds, WriterEnds,
              Ending, FailStage, Working
<1>6. CASE (\E k \in Call : StartCall(w, k)) \/ FinishCall(w) \/ RejectCall(w)
            \/ LoseAnswer(w) \/ RefuseCall(w)
  BY <1>6 DEF StartCall, JournalStart, FinishCall, JournalFinish, RejectCall,
              JournalRejected, LoseAnswer, RefuseCall, Working
<1>7. CASE OutOfBudget(w) \/ LoseLease(w) \/ Interrupt(w)
  BY <1>7 DEF OutOfBudget, LoseLease, Interrupt, Heartbeat
<1>8. QED
  BY <1>2, <1>3, <1>4, <1>5, <1>6, <1>7 DEF Work

(***************************************************************************)
(* No record goes back on what it says: a finished step keeps its outcome, *)
(* a review its verdict, and a stored plan stays.                          *)
(***************************************************************************)
LEMMA TablesLast ==
  ASSUME WInv, RInv, [WorkerNext]_allVars
  PROVE  /\ plans \subseteq plans'
         /\ \A row \in Version \X Step :
              stepRow[row] \in Ended => stepRow'[row] = stepRow[row]
         /\ \A v \in Version : reviews[v] # "absent" => reviews'[v] = reviews[v]
<1> DEFINE Last ==
      /\ plans \subseteq plans'
      /\ \A row \in Version \X Step :
           stepRow[row] \in Ended => stepRow'[row] = stepRow[row]
      /\ \A v \in Version : reviews[v] # "absent" => reviews'[v] = reviews[v]
<1>1. ASSUME UNCHANGED recordTables PROVE Last
  BY <1>1 DEF recordTables
<1>2. ASSUME NEW w \in Owner, Work(w) PROVE Last
  <2>1. CASE \/ LoadStopped(w) \/ LoadUncertain(w) \/ LoadFresh(w)
             \/ LoadCorrupt(w) \/ ReconcileHeld(w) \/ Reconcile(w)
             \/ GateOpen(w) \/ GateShut(w) \/ BeginUnit(w) \/ Charge(w)
             \/ OutOfBudget(w) \/ LoseLease(w) \/ SaveRun(w)
    BY <1>1, <2>1
       DEF LoadStopped, LoadUncertain, LoadFresh, Loading, LoadCorrupt,
           ReconcileHeld, Reconcile, Gating, GateOpen, GateShut, BeginUnit,
           Charge, OutOfBudget, LoseLease, SaveRun
  <2>2. CASE \/ EndStep(w) \/ Replan(w) \/ FailStage(w) \/ FinishCall(w)
             \/ RejectCall(w) \/ LoseAnswer(w) \/ RefuseCall(w)
             \/ \E k \in Call : StartCall(w, k)
    BY <1>1, <2>2 DEF EndStep, Replan, FailStage, FinishCall, RejectCall,
                      LoseAnswer, RefuseCall, StartCall, Working
  <2>3. PlacedAt(pc[w], run[w]) /\ IsRun(run[w])
    BY DEF RInv, Placed, WInv, Shape
  <2>4. CASE StartStep(w)
    <3>1. stepRow[Row(run[w])] = "absent"
      BY <2>3, <2>4 DEF StartStep, PlacedAt, SteppingAt, AtWork
    <3>2. QED
      BY <2>4, <3>1 DEF StartStep, Row, RInv, RecordTypes, Ended
  <2>5. CASE RecordStep(w)
    <3>1. stepRow[Row(run[w])] = "running"
      BY <2>3, <2>5 DEF RecordStep, InStep, PlacedAt, SteppingAt, AtWork
    <3>2. QED
      BY <2>5, <3>1 DEF RecordStep, Row, RInv, RecordTypes, Ended
  <2>6. CASE RecordPlan(w) \/ PlannerEnds(w) \/ AdvanceEnds(w)
             \/ QualityEnds(w) \/ WriterEnds(w)
    BY <2>6 DEF RecordPlan, PlannerEnds, AdvanceEnds, QualityEnds, WriterEnds,
                Ending
  <2>7. CASE ReviewerEnds(w)
    <3>1. reviews[run[w].version] = "absent"
      BY <2>3, <2>7 DEF ReviewerEnds, Ending, PlacedAt, ReviewingAt
    <3>2. QED
      BY <2>7, <3>1 DEF ReviewerEnds, Ending, RInv, RecordTypes
  <2>8. QED
    BY <1>2, <2>1, <2>2, <2>4, <2>5, <2>6, <2>7 DEF Work, EndStage
<1>3. ASSUME NEW w \in Owner, \/ WorkerClaim(w) \/ Interrupt(w) \/ Renew(w)
                              \/ Crash(w)
      PROVE  Last
  BY <1>1, <1>3 DEF WorkerClaim, Interrupt, Renew, Crash, workerVars
<1>4. CASE Desk \/ UserControl \/ Corrupt \/ Clock \/ Outside \/ UNCHANGED allVars
  BY <1>1, <1>4 DEF Desk, DeskOpen, DeskCalls, DeskEvidence, DeskQueue,
                    DeskConflict, AtDesk, UserControl, Corrupt, Clock, Outside,
                    allVars, workerVars
<1>5. CASE UserDecision
  BY <1>5 DEF UserDecision
<1>6. QED
  BY <1>2, <1>3, <1>4, <1>5 DEF WorkerNext

(***************************************************************************)
(* Only save writes a verdict, and it writes the one the execution earned. *)
(***************************************************************************)
LEMMA VerdictStep ==
  ASSUME WInv, RInv, VerdictEarned, [WorkerNext]_allVars
  PROVE  VerdictEarned'
<1> USE DEF vars, checkpointVars
<1>1. [Next]_vars
  BY StepRefines
<1>2. version \in Version
  BY DEF WInv, IInv, TypeOK
<1>3. CASE status = "succeeded"
  <2>1. status \in Terminal /\ status \notin Leased
    BY <1>3 DEF Terminal, Leased
  <2>2. saved' = saved /\ version' = version
    <3>1. ASSUME NEW w \in Owner, Work(w) \/ Interrupt(w)
          PROVE  saved' = saved /\ version' = version
      BY <2>1, <3>1, WorkIsFenced
    <3>2. ASSUME NEW w \in Owner, WorkerClaim(w) \/ Renew(w) \/ Crash(w)
          PROVE  saved' = saved /\ version' = version
      BY <3>2 DEF WorkerClaim, Claim, Renew, Heartbeat, Crash, workerVars
    <3>3. CASE Desk \/ UserControl \/ Corrupt \/ Clock \/ Outside
               \/ UNCHANGED allVars
      BY <3>3 DEF Desk, DeskOpen, DeskCalls, DeskEvidence, DeskQueue,
                  DeskConflict, AtDesk, ReconcileCallsByOperator, DropReceipted,
                  QueueReconciled, UserControl, Pause, Resume, Cancel, Control,
                  Corrupt, Clock, Tick, Outside, CompleteReceipt, Lapse, allVars,
                  workerVars
    <3>4. CASE UserDecision
      BY <1>3, <3>4 DEF UserDecision, ReadSnapshot, Approve, Reject, Modify,
                        Decide, Decidable
    <3>5. QED
      BY <3>1, <3>2, <3>3, <3>4 DEF WorkerNext
  <2>3. QED
    BY <1>2, <1>3, <2>2, TablesLast DEF VerdictEarned
<1>4. ASSUME NEW w \in Owner, SaveRun(w), status' = "succeeded"
      PROVE  VerdictEarned'
  <2>1. Fence(Held(w)) /\ pc[w] \in {"save", "park"}
        /\ run[w].want = "succeeded" /\ version' = run[w].version
        /\ saved' = run[w].state /\ UNCHANGED recordTables
    BY <1>4 DEF SaveRun, Save, SavedStatus
  <2>2. FaithfulAt(pc[w], run[w])
    BY <2>1 DEF RInv, Faithful
  <2>3. QED
    BY <2>1, <2>2 DEF FaithfulAt, RunRecorded, VerdictEarned, recordTables
<1>5. ASSUME status # "succeeded", status' = "succeeded",
             \A w \in Owner : ~SaveRun(w)
      PROVE  FALSE
  <2>1. ASSUME NEW w \in Owner, Work(w) \/ Interrupt(w) PROVE FALSE
    BY <1>5, <2>1
       DEF Work, LoadStopped, LoadUncertain, LoadFresh, Loading, LoadCorrupt,
           Quarantine, ReconcileHeld, ReconcileCalls, DropReceipted, Reconcile,
           Gating, GateOpen, GateShut, Gate, BeginUnit, Begin, Charge,
           JournalBudget, StartStep, EndStep, RecordStep, Replan, RecordPlan,
           EndStage, PlannerEnds, AdvanceEnds, QualityEnds, ReviewerEnds,
           WriterEnds, Ending, FailStage, StartCall, JournalStart, FinishCall,
           JournalFinish, RejectCall, JournalRejected, LoseAnswer, RefuseCall,
           OutOfBudget, LoseLease, Interrupt, Heartbeat
  <2>2. QED
    BY <1>5, <2>1
       DEF WorkerNext, WorkerClaim, Claim, Renew, Heartbeat, Crash, Desk,
           DeskOpen, DeskCalls, DeskEvidence, DeskQueue, DeskConflict, AtDesk,
           ReconcileCallsByOperator, DropReceipted, QueueReconciled, UserControl,
           Pause, Resume, Cancel, Control, Corrupt, Clock, Tick, Outside,
           CompleteReceipt, Lapse, allVars, UserDecision, ReadSnapshot, Approve,
           Reject, Modify, Decide
<1>6. QED
  BY <1>3, <1>4, <1>5 DEF VerdictEarned

(***************************************************************************)
(* A workflow that succeeds earned it: _rules, _reviewer, _writer, save.   *)
(***************************************************************************)
THEOREM SuccessHasItsRecords == WorkerSpec => []VerdictEarned
<1>1. WorkerInit => VerdictEarned
  BY DEF WorkerInit, Init, VerdictEarned
<1>2. WInv /\ RInv /\ VerdictEarned /\ [WorkerNext]_allVars => VerdictEarned'
  BY VerdictStep
<1>3. QED
  BY <1>1, <1>2, RecordsAreSound, PTL DEF WorkerSpec

-----------------------------------------------------------------------------

\* What the operator's reconcile has seen so far: of the newest checkpoint it
\* knows the unit in the row, and it only goes on to queue the row when that
\* unit left a record.
DeskSees ==
  /\ desk.at \in {"idle", "calls", "evidence", "queue"}
  /\ desk.version \in Version /\ desk.unit \in Begun \cup {NoUnit}
  /\ desk.seq \in Nat /\ desk.seq <= checkpoint
  /\ desk.at # "idle" /\ desk.seq = checkpoint /\ desk.unit # NoUnit =>
       active = desk.unit /\ version = desk.version
  /\ desk.at = "queue" =>
       desk.unit # NoUnit /\ HasEvidence(desk.version, desk.unit[2])

(***************************************************************************)
(* Evidence does not go stale.                                             *)
(***************************************************************************)
LEMMA EvidenceLasts ==
  ASSUME WInv, RInv, [WorkerNext]_allVars, NEW v \in Version, NEW u,
         HasEvidence(v, u)
  PROVE  HasEvidence(v, u)'
BY TablesLast DEF HasEvidence, Ended

(***************************************************************************)
(* A step that adds no checkpoint leaves the plan version alone, and the   *)
(* unit in the row too once there is one.                                  *)
(***************************************************************************)
LEMMA CheckpointGrows ==
  ASSUME IInv, [Next]_vars
  PROVE  /\ checkpoint' >= checkpoint
         /\ checkpoint' = checkpoint => version' = version
         /\ checkpoint' = checkpoint /\ active # NoUnit => active' = active
<1> DEFINE Grows == \/ checkpoint' = checkpoint + 1
                    \/ /\ checkpoint' = checkpoint /\ version' = version
                       /\ active' = active \/ active = NoUnit
<1> USE DEF claimVars, callVars, checkpointVars, approvalVars
<1>1. ASSUME NEW c \in claims, Fenced(c) PROVE Grows
  <2>1. ASSUME NEW n, NEW v, NEW s, NEW b, Save(c, s, b, v, n) PROVE Grows
    BY <2>1 DEF Save
  <2>2. ASSUME NEW u, NEW hashed, Begin(c, u, hashed) PROVE Grows
    BY <2>2 DEF Begin
  <2>3. QED
    BY <1>1, <2>1, <2>2
       DEF Fenced, Heartbeat, Quarantine, ReconcileCalls, DropReceipted, Gate,
           JournalBudget, JournalStart, JournalFinish, JournalRejected
<1>2. ASSUME DecideApproval PROVE Grows
  BY <1>2 DEF DecideApproval, ReadSnapshot, Approve, Reject, Modify, Decide
<1>3. ASSUME \/ UNCHANGED vars \/ Tick \/ Operate \/ Pause \/ Resume \/ Cancel
             \/ \E w \in Owner : Claim(w)
             \/ \E c \in claims, k \in Call : CompleteReceipt(c, k)
             \/ \E op \in Operation : Lapse(op)
      PROVE  Grows
  BY <1>3 DEF Claim, Tick, CompleteReceipt, Operate, ReconcileCallsByOperator,
              DropReceipted, QueueReconciled, Pause, Resume, Cancel, Control,
              Lapse, vars
<1>4. Grows
  BY <1>1, <1>2, <1>3 DEF Next
<1>5. checkpoint \in Nat
  BY DEF IInv, TypeOK
<1>6. QED
  BY <1>4, <1>5

LEMMA DeskStep ==
  ASSUME WInv, RInv, DeskSees, [WorkerNext]_allVars
  PROVE  DeskSees'
<1>1. [Next]_vars
  BY StepRefines
<1>2. /\ checkpoint \in Nat /\ version \in Version
      /\ active \in Begun \cup {NoUnit} /\ checkpoint' \in Nat
  BY <1>1, InvariantStep DEF WInv, IInv, TypeOK
<1>3. /\ checkpoint' >= checkpoint
      /\ checkpoint' = checkpoint => version' = version
      /\ checkpoint' = checkpoint /\ active # NoUnit => active' = active
  BY <1>1, CheckpointGrows DEF WInv
<1>4. CASE desk' = desk
  <2>1. desk.at # "idle" /\ desk.seq = checkpoint' /\ desk.unit # NoUnit =>
          active' = desk.unit /\ version' = desk.version
    BY <1>2, <1>3 DEF DeskSees
  <2>2. desk.at = "queue" => HasEvidence(desk.version, desk.unit[2])'
    BY <1>4, EvidenceLasts DEF DeskSees
  <2>3. QED
    BY <1>2, <1>3, <1>4, <2>1, <2>2 DEF DeskSees
<1>5. CASE desk' = NoDesk
  BY <1>2, <1>5, BoundAssumption DEF DeskSees, NoDesk, Version
<1>6. CASE DeskOpen
  BY <1>2, <1>6 DEF DeskOpen, DeskSees, vars, checkpointVars
<1>7. ASSUME UNCHANGED <<checkpoint, version, active>>,
             NEW at \in {"evidence", "queue"}, desk.at # "idle",
             desk' = [desk EXCEPT !.at = at],
             at = "queue" => /\ desk.unit # NoUnit
                             /\ HasEvidence(desk.version, desk.unit[2])
      PROVE  DeskSees'
  <2>1. /\ desk'.unit = desk.unit /\ desk'.seq = desk.seq
        /\ desk'.version = desk.version /\ desk'.at \in {at, desk.at}
    BY <1>7
  <2>2. at = "queue" => HasEvidence(desk.version, desk.unit[2])'
    BY <1>7, EvidenceLasts DEF DeskSees
  <2>3. desk.at = "queue" => HasEvidence(desk.version, desk.unit[2])'
    BY <1>7, EvidenceLasts DEF DeskSees
  <2>4. QED
    BY <1>2, <1>7, <2>1, <2>2, <2>3 DEF DeskSees
<1>8. CASE DeskCalls \/ DeskEvidence \/ DeskQueue \/ DeskConflict
  <2>1. CASE DeskCalls
    BY <1>5, <1>7, <2>1 DEF DeskCalls, AtDesk, ReconcileCallsByOperator,
                            DropReceipted, checkpointVars
  <2>2. CASE DeskEvidence
    BY <1>5, <1>7, <2>2 DEF DeskEvidence, AtDesk, vars, checkpointVars
  <2>3. QED
    BY <1>5, <1>8, <2>1, <2>2 DEF DeskQueue, DeskConflict
<1>9. ASSUME NEW w \in Owner, \/ WorkerClaim(w) \/ Work(w) \/ Interrupt(w)
                              \/ Renew(w) \/ Crash(w)
      PROVE  desk' = desk
  <2>1. ASSUME Work(w) PROVE desk' = desk
    BY <2>1
       DEF Work, LoadStopped, LoadUncertain, LoadFresh, Loading, LoadCorrupt,
           ReconcileHeld, Reconcile, Gating, GateOpen, GateShut, BeginUnit,
           Charge, StartStep, EndStep, RecordStep, Replan, RecordPlan,
           EndStage, PlannerEnds, AdvanceEnds, QualityEnds, ReviewerEnds,
           WriterEnds, Ending, FailStage, StartCall, FinishCall, RejectCall,
           LoseAnswer, RefuseCall, Working, OutOfBudget, LoseLease, SaveRun
  <2>2. QED
    BY <1>9, <2>1 DEF WorkerClaim, Interrupt, Renew, Crash, workerVars
<1>10. ASSUME UserControl \/ UserDecision \/ Corrupt \/ Clock \/ Outside
              \/ UNCHANGED allVars
       PROVE  desk' = desk
  BY <1>10 DEF UserControl, UserDecision, Corrupt, Clock, Outside, workerVars,
               allVars
<1>11. QED
  BY <1>4, <1>6, <1>8, <1>9, <1>10 DEF WorkerNext, Desk

(***************************************************************************)
(* A parked workflow is queued again only on evidence, and the evidence is *)
(* still there when the row is queued: reconcile, queue_reconciled.        *)
(***************************************************************************)
THEOREM RequeueRestsOnEvidence == WorkerSpec => RequeueNeedsEvidence
<1>1. WorkerInit => DeskSees
  BY BoundAssumption DEF WorkerInit, Init, DeskSees, NoDesk, Version
<1>2. WInv /\ RInv /\ DeskSees /\ [WorkerNext]_allVars => DeskSees'
  BY DeskStep
<1>3. ASSUME WInv, RInv, DeskSees, [WorkerNext]_allVars,
             status = "recovery_required", status' = "queued"
      PROVE  active # NoUnit /\ HasEvidence(version, active[2])
  <2>1. CASE DeskQueue
    BY <2>1, <1>3 DEF DeskQueue, AtDesk, QueueReconciled, DeskSees
  <2>2. ASSUME NEW w \in Owner, Work(w) \/ Interrupt(w) PROVE FALSE
    BY <1>3, <2>2, WorkIsFenced DEF Leased
  <2>3. QED
    BY <1>3, <2>1, <2>2
       DEF WorkerNext, WorkerClaim, Claim, Leased, Renew, Heartbeat, Crash, Desk,
           DeskOpen, DeskCalls, DeskEvidence, DeskConflict, AtDesk, vars,
           ReconcileCallsByOperator, DropReceipted, UserControl,
           Pause, Resume, Cancel, Control, Corrupt, Clock, Tick, Outside,
           CompleteReceipt, Lapse, allVars, UserDecision, ReadSnapshot, Approve,
           Reject, Modify, Decide, Decidable
<1>4. WInv /\ RInv /\ DeskSees /\ [WorkerNext]_allVars =>
        [status = "recovery_required" /\ status' = "queued" =>
           active # NoUnit /\ HasEvidence(version, active[2])]_allVars
  BY <1>3
<1>5. QED
  BY <1>1, <1>2, <1>4, RecordsAreSound, PTL DEF WorkerSpec, RequeueNeedsEvidence

-----------------------------------------------------------------------------

\* The model calls that may have been sent.
Sent == (Started \cap ModelCall) \ unsent

\* The counter in the memory of the execution that holds the row.
Spent(w) ==
  pc[w] \notin {"idle", "load"} /\ Fence(Held(w)) => run[w].used >= modelCalls

Counted ==
  /\ IsFiniteSet(Started)
  /\ unsent \subseteq (Started \cap ModelCall) \ pending
  /\ Cardinality(Sent) <= modelCalls
  /\ \A w \in Owner : Spent(w)

(***************************************************************************)
(* A step that sends nothing and leaves the counter of the row alone, and  *)
(* the same for an execution that goes on with its unit.                   *)
(***************************************************************************)
LEMMA CountKeeps ==
  ASSUME WInv, Counted, [Next]_vars, UNCHANGED <<started, unsent, modelCalls>>,
         pending' \subseteq pending,
         \A x \in Owner :
           Spent(x)' \/ (pc'[x] = pc[x] /\ run'[x] = run[x] /\ held'[x] = held[x])
  PROVE  Counted'
<1>1. Started' = Started /\ Sent' = Sent
  BY DEF Started, Sent
<1>2. ASSUME NEW x \in Owner,
             pc'[x] = pc[x] /\ run'[x] = run[x] /\ held'[x] = held[x]
      PROVE  Spent(x)'
  BY <1>2, GoodClaimIsOld DEF Counted, Spent
<1>3. QED
  BY <1>1, <1>2 DEF Counted

LEMMA CountGoesOn ==
  ASSUME WInv, Counted, [Next]_vars, UNCHANGED <<started, unsent, modelCalls>>,
         pending' \subseteq pending, held' = held,
         NEW w \in Owner, pc[w] \notin {"idle", "load"},
         run'[w].used \in Nat, run'[w].used >= run[w].used,
         \A x \in Owner : x # w => pc'[x] = pc[x] /\ run'[x] = run[x]
  PROVE  Counted'
<1>1. /\ held'[w] = held[w]
      /\ \A x \in Owner : x # w =>
           pc'[x] = pc[x] /\ run'[x] = run[x] /\ held'[x] = held[x]
  BY DEF WInv, Shape
<1>2. Spent(w)'
  <2>1. run[w].used \in Nat /\ modelCalls \in Nat
    BY DEF WInv, Shape, IsRun, IInv, TypeOK
  <2>2. Fence(Held(w))' => Fence(Held(w))
    BY <1>1, GoodClaimIsOld
  <2>3. QED
    BY <1>1, <2>1, <2>2 DEF Counted, Spent
<1>3. \A x \in Owner :
        Spent(x)' \/ (pc'[x] = pc[x] /\ run'[x] = run[x] /\ held'[x] = held[x])
  BY <1>1, <1>2
<1>4. QED
  BY <1>3, CountKeeps

(***************************************************************************)
(* A step of the execution that holds the row: nobody else's counter is in *)
(* force.                                                                  *)
(***************************************************************************)
LEMMA CountHolder ==
  ASSUME WInv, Counted, [Next]_vars, NEW w \in Owner, Fence(Held(w)),
         UNCHANGED <<held, owner>>,
         NEW p, NEW r, Goto(w, p, r), r.used >= modelCalls',
         IsFiniteSet(Started'), Cardinality(Sent') <= modelCalls',
         unsent' \subseteq (Started' \cap ModelCall) \ pending'
  PROVE  Counted'
<1>1. run'[w] = r
  BY DEF WInv, Shape, Goto
<1>2. Spent(w)'
  BY <1>1 DEF Spent
<1>3. ASSUME NEW x \in Owner, x # w PROVE Spent(x)'
  BY <1>3 DEF Spent, Fence, Held
<1>4. QED
  BY <1>2, <1>3 DEF Counted

LEMMA CountCalls ==
  ASSUME WInv, Counted, NEW w \in Owner,
         \/ Charge(w) \/ FinishCall(w) \/ RejectCall(w)
         \/ \E k \in Call : StartCall(w, k)
  PROVE  Counted'
<1> USE DEF claimVars
<1>1. [Next]_vars
  BY WorkRefines DEF Work
<1> DEFINE r == run[w]
<1>2. /\ modelCalls \in Nat /\ r.used \in Nat /\ r.used <= MaxModelCalls
      /\ IsRun(r) /\ MaxModelCalls \in Nat
      /\ pending \subseteq Started /\ started \in [Call -> Nat]
  BY BoundAssumption DEF WInv, Shape, IsRun, IInv, TypeOK
<1>3. IsFiniteSet(Sent) /\ Cardinality(Sent) \in Nat
  BY FS_Subset, FS_CardinalityType DEF Counted, Sent
<1>4. /\ Fence(Held(w)) /\ pc[w] \notin {"idle", "load"}
      /\ UNCHANGED <<held, owner>> /\ r.used >= modelCalls
  BY DEF Charge, FinishCall, RejectCall, StartCall, Working, JournalBudget,
         JournalFinish, JournalRejected, JournalStart, Counted, Spent
<1>5. ASSUME UNCHANGED <<started, unsent>>, pending' \subseteq pending,
             modelCalls' = Larger(r.used, modelCalls),
             NEW p, NEW q, Goto(w, p, q), q.used = r.used
      PROVE  Counted'
  <2>1. modelCalls' = r.used
    BY <1>2, <1>4, <1>5 DEF Larger
  <2>2. Started' = Started /\ Sent' = Sent
    BY <1>5 DEF Started, Sent
  <2>3. Cardinality(Sent') <= modelCalls' /\ q.used >= modelCalls'
    BY <1>2, <1>3, <1>4, <1>5, <2>1, <2>2 DEF Counted
  <2>4. QED
    BY <1>1, <1>4, <1>5, <2>2, <2>3, CountHolder DEF Counted
<1>6. CASE Charge(w)
  BY <1>5, <1>6 DEF Charge, JournalBudget
<1>7. CASE FinishCall(w)
  <2>1. Goto(w, "work", [r EXCEPT !.call = NoCall])
        /\ [r EXCEPT !.call = NoCall].used = r.used
    BY <1>2, <1>7 DEF FinishCall, IsRun
  <2>2. QED
    BY <1>5, <1>7, <2>1 DEF FinishCall, JournalFinish
<1>8. ASSUME NEW k \in Call, StartCall(w, k) PROVE Counted'
  <2> DEFINE n == Reserved(w, k)
             q == [r EXCEPT !.call = k, !.used = n]
  <2>1. /\ started[k] = 0 /\ started' = [started EXCEPT ![k] = held[w]]
        /\ pending' = pending \cup {k} /\ unsent' = unsent
        /\ modelCalls' = Larger(n, modelCalls) /\ Goto(w, "calling", q)
    BY <1>8 DEF StartCall, JournalStart, Held
  <2>2. held[w] \in 1..MaxGeneration
    BY <1>4 DEF WInv, Claimed, IInv, TypeOK, WorkflowClaim, Held
  <2>3. Started' = Started \cup {k} /\ k \notin Started
    BY <1>2, <2>1, <2>2 DEF Started
  <2>4. n \in Nat /\ n >= r.used /\ (k \in ModelCall => n = r.used + 1)
    BY <1>2 DEF Reserved
  <2>5. modelCalls' = n
    BY <1>2, <1>4, <2>1, <2>4 DEF Larger
  <2>6. q.used = n
    BY <1>2 DEF IsRun
  <2>7. IsFiniteSet(Started')
    BY <2>3, FS_AddElement DEF Counted
  <2>8. Cardinality(Sent') <= modelCalls'
    <3>1. CASE k \in ModelCall
      <4>1. Sent' = Sent \cup {k} /\ k \notin Sent
        BY <2>1, <2>3, <3>1 DEF Sent, Counted
      <4>2. Cardinality(Sent') = Cardinality(Sent) + 1
        BY <1>3, <4>1, FS_AddElement
      <4>3. QED
        BY <1>2, <1>3, <1>4, <2>4, <2>5, <3>1, <4>2 DEF Counted
    <3>2. CASE k \notin ModelCall
      <4>1. Sent' = Sent
        BY <2>1, <2>3, <3>2 DEF Sent
      <4>2. QED
        BY <1>2, <1>3, <1>4, <2>4, <2>5, <4>1 DEF Counted
    <3>3. QED
      BY <3>1, <3>2
  <2>9. unsent' \subseteq (Started' \cap ModelCall) \ pending'
    BY <2>1, <2>3 DEF Counted
  <2> HIDE DEF q, n
  <2>10. q.used >= modelCalls'
    BY <2>4, <2>5, <2>6
  <2>11. QED
    BY <1>1, <1>4, <2>1, <2>7, <2>8, <2>9, <2>10, CountHolder
<1>9. CASE RejectCall(w)
  <2> DEFINE k == r.call
             n == Larger(0, r.used - 1)
  <2>1. /\ k \in pending /\ k \in ModelCall /\ pending' = pending \ {k}
        /\ started' = started /\ unsent' = unsent \cup {k}
        /\ modelCalls' = Larger(n, Larger(0, modelCalls - 1))
    BY <1>9 DEF RejectCall, JournalRejected
  <2>2. /\ k \in Started /\ k \notin unsent /\ Started' = Started
        /\ Sent' = Sent \ {k} /\ k \in Sent
    BY <1>2, <2>1 DEF Started, Sent, Counted
  <2>3. Cardinality(Sent') = Cardinality(Sent) - 1
    BY <1>3, <2>2, FS_RemoveElement
  <2>4. modelCalls' = n /\ n \in Nat
    BY <1>2, <1>4, <2>1 DEF Larger
  <2>5. IsFiniteSet(Sent') /\ Cardinality(Sent') \in Nat
    BY <1>3, <2>2, FS_RemoveElement, FS_CardinalityType
  <2>6. Cardinality(Sent') <= modelCalls'
    BY <1>2, <1>3, <1>4, <2>3, <2>4, <2>5 DEF Counted, Larger
  <2>7. PICK p, q : Goto(w, p, q) /\ q.used = n
    <3> DEFINE a == [r EXCEPT !.used = Larger(0, @ - 1), !.call = NoCall]
    <3>1. /\ a.used = n
          /\ DOMAIN a = {"base", "version", "state", "unit", "used", "call",
                         "outcome", "want"}
      BY <1>2 DEF IsRun
    <3>2. PICK c : c = a
      OBVIOUS
    <3>3. \/ Goto(w, "record", [c EXCEPT !.outcome = "failed", !.want = "failed",
                                  !.state.results[c.unit[2]] = "failed"])
          \/ Goto(w, "save", [c EXCEPT !.want = "failed"])
      BY <1>9, <3>2 DEF RejectCall
    <3>4. /\ [c EXCEPT !.outcome = "failed", !.want = "failed",
                !.state.results[c.unit[2]] = "failed"].used = n
          /\ [c EXCEPT !.want = "failed"].used = n
      BY <3>1, <3>2
    <3> HIDE DEF n, a
    <3>5. QED
      BY <3>3, <3>4
  <2>8. unsent' \subseteq (Started' \cap ModelCall) \ pending'
    BY <2>1, <2>2 DEF Counted
  <2>9. IsFiniteSet(Started')
    BY <2>2 DEF Counted
  <2>10. q.used >= modelCalls'
    BY <2>4, <2>7
  <2>11. QED
    BY <1>1, <1>4, <2>6, <2>7, <2>8, <2>9, <2>10, CountHolder
<1>10. QED
  BY <1>6, <1>7, <1>8, <1>9

\* Every other step of an execution goes on with the counter it has.
LEMMA CountWork ==
  ASSUME WInv, Counted, [Next]_vars, NEW w \in Owner, Work(w) \/ Interrupt(w)
  PROVE  Counted'
<1> DEFINE r == run[w]
<1> USE DEF vars, callVars
<1>1. /\ modelCalls \in Nat /\ r.used \in Nat /\ IsRun(r)
  BY DEF WInv, Shape, IsRun, IInv, TypeOK
<1>2. CASE LoadStopped(w) \/ LoadUncertain(w) \/ LoadFresh(w)
  <2>1. UNCHANGED <<started, unsent, modelCalls, pending, held>>
    BY <1>2 DEF LoadStopped, LoadUncertain, LoadFresh, Loading
  <2>2. \A u : Restored(u).used = modelCalls
    BY DEF Restored, NoRun
  <2>3. \A u, s : [Restored(u) EXCEPT !.want = s].used = modelCalls
    BY DEF Restored, NoRun
  <2>4. PICK p, q : Goto(w, p, q) /\ q.used = modelCalls
    BY <1>2, <2>2, <2>3 DEF LoadStopped, LoadUncertain, LoadFresh
  <2>5. run'[w].used = modelCalls'
        /\ \A x \in Owner : x # w =>
             pc'[x] = pc[x] /\ run'[x] = run[x] /\ held'[x] = held[x]
    BY <2>1, <2>4 DEF Goto, WInv, Shape
  <2>6. Spent(w)'
    BY <1>1, <2>1, <2>5 DEF Spent
  <2>7. \A x \in Owner :
          Spent(x)' \/ (pc'[x] = pc[x] /\ run'[x] = run[x] /\ held'[x] = held[x])
    BY <2>5, <2>6
  <2>8. QED
    BY <2>1, <2>7, CountKeeps
<1>3. CASE LoadCorrupt(w) \/ LoseLease(w)
  <2>1. UNCHANGED <<started, unsent, modelCalls, pending>> /\ Leave(w)
    BY <1>3 DEF LoadCorrupt, Quarantine, LoseLease
  <2>2. pc'[w] = "idle" /\ \A x \in Owner : x # w =>
          pc'[x] = pc[x] /\ run'[x] = run[x] /\ held'[x] = held[x]
    BY <2>1 DEF Leave, Goto, WInv, Shape
  <2>3. \A x \in Owner :
          Spent(x)' \/ (pc'[x] = pc[x] /\ run'[x] = run[x] /\ held'[x] = held[x])
    BY <2>2 DEF Spent
  <2>4. QED
    BY <2>1, <2>3, CountKeeps
<1>4. CASE SaveRun(w)
  <2>1. /\ UNCHANGED <<started, unsent, pending>> /\ owner' = NoOwner
        /\ modelCalls' = Larger(r.used, modelCalls)
    BY <1>4 DEF SaveRun, Save, Release
  <2>2. Started' = Started /\ Sent' = Sent
    BY <2>1 DEF Started, Sent
  <2>3. ASSUME NEW x \in Owner PROVE Spent(x)'
    BY <2>1, OwnerAssumption DEF Spent, Fence, Held
  <2>4. Cardinality(Sent) \in Nat
    BY FS_Subset, FS_CardinalityType DEF Counted, Sent
  <2>5. Cardinality(Sent) <= modelCalls'
    BY <1>1, <2>1, <2>4 DEF Counted, Larger
  <2>6. QED
    BY <2>1, <2>2, <2>3, <2>5 DEF Counted
<1>5. CASE \/ Charge(w) \/ FinishCall(w) \/ RejectCall(w)
           \/ \E k \in Call : StartCall(w, k)
  BY <1>5, CountCalls
<1>6. ASSUME UNCHANGED <<started, unsent, modelCalls>>, pending' \subseteq pending,
             held' = held, pc[w] \notin {"idle", "load"},
             NEW p, NEW q, Goto(w, p, q), q.used \in {r.used, r.used + 1}
      PROVE  Counted'
  <2>1. run'[w] = q
        /\ \A x \in Owner : x # w => pc'[x] = pc[x] /\ run'[x] = run[x]
    BY <1>6 DEF Goto, WInv, Shape
  <2>2. q.used \in Nat /\ q.used >= r.used
    BY <1>1, <1>6
  <2>3. QED
    BY <1>6, <2>1, <2>2, CountGoesOn
<1>7. \A s : [r EXCEPT !.want = s].used = r.used
  BY <1>1 DEF IsRun
<1>8. ASSUME NEW outcome, NEW want, StepEnds(w, outcome, want)
      PROVE  \E p, q : Goto(w, p, q) /\ q.used = r.used
  <2> DEFINE q == [r EXCEPT
               !.outcome = outcome, !.want = want, !.call = NoCall,
               !.state.results[r.unit[2]] =
                  IF outcome = "succeeded" THEN "succeeded" ELSE "failed"]
  <2>1. q.used = r.used
    BY <1>1 DEF IsRun
  <2>2. Goto(w, "record", q)
    BY <1>8 DEF StepEnds
  <2> HIDE DEF q
  <2>3. QED
    BY <2>1, <2>2
<1>9. \A s : SaveAs(w, s) => \E p, q : Goto(w, p, q) /\ q.used = r.used
  BY <1>7 DEF SaveAs
<1>10. CASE ReconcileHeld(w) \/ Reconcile(w) \/ GateOpen(w) \/ GateShut(w)
            \/ BeginUnit(w)
  <2>1. /\ UNCHANGED <<started, unsent, modelCalls, held>>
        /\ pending' \subseteq pending /\ pc[w] \notin {"idle", "load"}
    BY <1>10 DEF ReconcileHeld, ReconcileCalls, DropReceipted, Reconcile, Gating,
                 GateOpen, GateShut, Gate, BeginUnit, Begin
  <2>2. \A s : [r EXCEPT !.state = s].used = r.used
    BY <1>1 DEF IsRun
  <2>3. \E p, q : Goto(w, p, q) /\ q.used = r.used
    BY <1>7, <1>9, <1>10, <2>2
       DEF ReconcileHeld, Reconcile, GateOpen, GateShut, BeginUnit
  <2>4. QED
    BY <1>6, <2>1, <2>3
<1>11. CASE StartStep(w) \/ EndStep(w) \/ RecordStep(w) \/ Replan(w)
            \/ RecordPlan(w)
  <2>1. /\ UNCHANGED <<started, unsent, modelCalls, held, pending>>
        /\ pc[w] \notin {"idle", "load"}
    BY <1>11 DEF StartStep, EndStep, RecordStep, Replan, RecordPlan, Working
  <2>2. \A s : [r EXCEPT !.state.stage = s].used = r.used
    BY <1>1 DEF IsRun
  <2>3. CASE StartStep(w) \/ RecordPlan(w)
    BY <1>6, <2>1, <2>2, <2>3 DEF StartStep, RecordPlan
  <2>4. CASE EndStep(w)
    BY <1>6, <1>8, <2>1, <2>4 DEF EndStep
  <2>5. CASE RecordStep(w)
    <3>1. PICK s : Goto(w, "save", [r EXCEPT !.state.stage = s])
      BY <2>5 DEF RecordStep
    <3>2. QED
      BY <1>6, <2>1, <2>2, <3>1
  <2>6. CASE Replan(w)
    <3>1. PICK set : Goto(w, "record", [r EXCEPT
            !.version = @ + 1, !.state.results = Forget(@, set),
            !.state.phase = 0])
      BY <2>6 DEF Replan
    <3> DEFINE q == [r EXCEPT
            !.version = @ + 1, !.state.results = Forget(@, set),
            !.state.phase = 0]
    <3>2. q.used = r.used
      BY <1>1 DEF IsRun
    <3> HIDE DEF q
    <3>3. QED
      BY <1>6, <2>1, <3>1, <3>2 DEF q
  <2>7. QED
    BY <1>11, <2>3, <2>4, <2>5, <2>6
<1>12. CASE EndStage(w) \/ FailStage(w) \/ LoseAnswer(w) \/ RefuseCall(w)
            \/ OutOfBudget(w) \/ Interrupt(w)
  <2>1. /\ UNCHANGED <<started, unsent, modelCalls, held, pending>>
        /\ pc[w] \notin {"idle", "load"}
    BY <1>12 DEF EndStage, PlannerEnds, AdvanceEnds, QualityEnds, ReviewerEnds,
                 WriterEnds, Ending, FailStage, LoseAnswer, RefuseCall, Working,
                 OutOfBudget, Interrupt, Heartbeat
  <2>2. /\ \A s, t : [r EXCEPT !.state.stage = s, !.want = t].used = r.used
        /\ \A m, s : [r EXCEPT !.state.phase = m, !.state.stage = s].used = r.used
        /\ \A s, n : [r EXCEPT !.used = n, !.want = s].used = n
        /\ [r EXCEPT !.call = NoCall].used = r.used
    BY <1>1 DEF IsRun
  <2>3. CASE EndStage(w)
    <3>1. \/ \E s, t : Goto(w, "save", [r EXCEPT !.state.stage = s, !.want = t])
          \/ \E m, s : Goto(w, "save", [r EXCEPT !.state.phase = m,
                                                 !.state.stage = s])
      BY <2>3 DEF EndStage, PlannerEnds, AdvanceEnds, QualityEnds, ReviewerEnds,
                  WriterEnds, MoveTo
    <3>2. QED
      BY <1>6, <2>1, <2>2, <3>1
  <2>4. CASE FailStage(w) \/ OutOfBudget(w) \/ Interrupt(w)
    <3>1. \E p, q : Goto(w, p, q) /\ q.used = r.used
      BY <1>8, <1>9, <2>4 DEF FailStage, OutOfBudget, Interrupt, Abort
    <3>2. QED
      BY <1>6, <2>1, <3>1
  <2>5. CASE LoseAnswer(w) \/ RefuseCall(w)
    <3>1. \/ \E o, t : StepEnds(w, o, t)
          \/ \E s : SaveAs(w, s)
          \/ Goto(w, "work", [r EXCEPT !.call = NoCall])
          \/ \E n \in {r.used, r.used + 1} :
               Goto(w, "save", [r EXCEPT !.used = n, !.want = "failed"])
      BY <2>5 DEF LoseAnswer, RefuseCall
    <3>2. CASE \/ \E o, t : StepEnds(w, o, t)
               \/ \E s : SaveAs(w, s)
               \/ Goto(w, "work", [r EXCEPT !.call = NoCall])
      <4>1. \E p, q : Goto(w, p, q) /\ q.used = r.used
        BY <1>8, <1>9, <2>2, <3>2
      <4>2. QED
        BY <1>6, <2>1, <4>1
    <3>3. ASSUME NEW n \in {r.used, r.used + 1},
                 Goto(w, "save", [r EXCEPT !.used = n, !.want = "failed"])
          PROVE  Counted'
      <4>1. PICK q : q = [r EXCEPT !.used = n, !.want = "failed"]
        OBVIOUS
      <4>2. q.used = n
        BY <2>2, <4>1
      <4>3. QED
        BY <1>6, <2>1, <3>3, <4>1, <4>2
    <3>4. QED
      BY <3>1, <3>2, <3>3
  <2>6. QED
    BY <1>12, <2>3, <2>4, <2>5
<1>13. QED
  BY <1>2, <1>3, <1>4, <1>5, <1>10, <1>11, <1>12 DEF Work

(***************************************************************************)
(* No model call that may have been sent is missing from the counter of    *)
(* the row: BudgetedLLM.generate, journal, restore.                        *)
(***************************************************************************)
THEOREM CallsAreCounted == WorkerSpec => []SentCallsAreCounted
<1>1. WorkerInit => Counted
  <2>1. SUFFICES ASSUME WorkerInit PROVE Counted
    OBVIOUS
  <2>2. Started = {} /\ Sent = {}
    BY <2>1 DEF WorkerInit, Init, Started, Sent
  <2>3. QED
    BY <2>1, <2>2, FS_EmptySet DEF WorkerInit, Init, Counted, Spent
<1>2. ASSUME WInv, Counted, [WorkerNext]_allVars PROVE Counted'
  <2>1. [Next]_vars
    BY <1>2, StepRefines
  <2>2. ASSUME NEW w \in Owner, WorkerClaim(w) \/ Crash(w) PROVE Counted'
    <3>1. UNCHANGED <<started, unsent, modelCalls, pending>>
          /\ pc'[w] \in {"idle", "load"}
          /\ \A x \in Owner : x # w =>
               pc'[x] = pc[x] /\ run'[x] = run[x] /\ held'[x] = held[x]
      BY <1>2, <2>2 DEF WorkerClaim, Claim, Crash, Leave, Goto, WInv, Shape, vars,
                        callVars
    <3>2. \A x \in Owner :
            Spent(x)' \/ (pc'[x] = pc[x] /\ run'[x] = run[x] /\ held'[x] = held[x])
      BY <3>1 DEF Spent
    <3>3. QED
      BY <1>2, <2>1, <3>1, <3>2, CountKeeps
  <2>3. ASSUME \/ Desk \/ UserControl \/ UserDecision \/ Corrupt \/ Clock
               \/ Outside \/ UNCHANGED allVars \/ \E w \in Owner : Renew(w)
        PROVE  Counted'
    <3>1. /\ UNCHANGED <<started, unsent, modelCalls, pc, run, held>>
          /\ pending' \subseteq pending
      BY <2>3
         DEF Renew, Heartbeat, Desk, DeskOpen, DeskCalls, DeskEvidence, DeskQueue,
             DeskConflict, AtDesk, ReconcileCallsByOperator, DropReceipted,
             QueueReconciled, UserControl, Pause, Resume, Cancel, Control,
             Corrupt, Clock, Tick, Outside, CompleteReceipt, Lapse, UserDecision,
             ReadSnapshot, Approve, Reject, Modify, Decide, allVars, workerVars,
             vars, callVars
    <3>2. QED
      BY <1>2, <2>1, <3>1, CountKeeps
  <2>4. QED
    BY <1>2, <2>1, <2>2, <2>3, CountWork DEF WorkerNext
<1>3. WInv /\ Counted => SentCallsAreCounted
  BY DEF Counted, Sent, SentCallsAreCounted, WInv, IInv, TypeOK
<1>4. QED
  BY <1>1, <1>2, <1>3, RunsAreCurrent, PTL DEF WorkerSpec
=============================================================================
