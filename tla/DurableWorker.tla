---------------------------- MODULE DurableWorker ----------------------------
(***************************************************************************)
(* What workers, the recovery desk and users do with the row of module     *)
(* DurableQueue: DurableService.tick and its _execute, one claim at a      *)
(* time, the records that stages and steps leave in tables of their own,   *)
(* and DurableService.reconcile.                                           *)
(*                                                                         *)
(* Every transaction is one action; what an execution keeps in memory      *)
(* between two of them is its run.  Only the row is fenced: the records    *)
(* of plans, steps and reviews are written by whoever still runs.          *)
(*                                                                         *)
(* Left out: what a unit computes.  It makes any number of external calls  *)
(* and then ends in any way its code can end.                              *)
(***************************************************************************)
EXTENDS DurableQueue, Sequences

CONSTANTS
  Step,           \* the steps of the plan
  Plan,           \* the same steps, in plan order
  Depends,        \* step -> the steps it depends on
  Rebuilt,        \* the coding and experiment steps
  Costly,         \* plan versions whose experiment reaches the cost threshold
  QualityPhases,  \* units of the quality stage, 0 when the depth is "quick"
  NoCall,         \* no external call (a model value)
  MaxFaults,      \* bound on crashes, interrupts, corruption, lost heartbeats
  MaxControls     \* bound on pause, resume, cancel and reconcile

\* "advance" is the executor stage with no step left to begin.
StageUnit == {"planner", "advance", "quality", "reviewer", "replanner",
              "writer", "done"}

ASSUME WorkerUnitAssumption ==
  /\ Unit = StageUnit \cup Step /\ Step \cap StageUnit = {}
  /\ Gated \subseteq Rebuilt /\ Rebuilt \subseteq Step
  /\ Plan \in Seq(Step)
  /\ Depends \in [Step -> SUBSET Step]
ASSUME WorkerBoundAssumption ==
  /\ Costly \subseteq Version
  /\ QualityPhases \in Nat /\ MaxFaults \in Nat /\ MaxControls \in Nat
  /\ NoCall \notin Call

VARIABLES
  pc,        \* where each worker's execution is
  held,      \* the generation each worker claimed, 0 between claims
  run,       \* what each execution holds in memory
  saved,     \* stage, results and quality phase in the newest checkpoint
  plans,     \* versions with a row in task_plans
  stepRow,   \* task_steps.status, per version and step
  reviews,   \* task_reviews, per version
  unsent,    \* model calls a local guard rejected before they were sent
  desk,      \* the operator's reconcile in progress
  corrupt,   \* the newest checkpoint fails its digest
  faults,    \* faults so far
  controls   \* what users and operators asked for so far

recordTables == <<plans, stepRow, reviews>>
counters == <<faults, controls>>
workerVars == <<pc, held, run, saved, recordTables, unsent, desk, corrupt,
                counters>>
allVars == <<vars, workerVars>>

-----------------------------------------------------------------------------

Stage == (StageUnit \ {"advance"}) \cup {"executor"}
Outcome == {"none", "succeeded", "failed"}
StepStatus == {"absent", "running", "succeeded", "failed", "interrupted",
               "duplicate"}
Saved == [stage : Stage, results : [Step -> Outcome], phase : 0..QualityPhases]

Run == [base : 0..MaxCheckpoint, version : Version, state : Saved,
        unit : Begun \cup {NoUnit}, used : 0..MaxModelCalls,
        call : Call \cup {NoCall}, outcome : StepStatus, want : SaveStatus]

Start == [stage |-> "planner", results |-> [s \in Step |-> "none"], phase |-> 0]
NoRun == [base |-> 0, version |-> 1, state |-> Start, unit |-> NoUnit,
          used |-> 0, call |-> NoCall, outcome |-> "absent", want |-> "queued"]

Settled(results) == {s \in Step : results[s] # "none"}

\* What _execute begins next: its stage, or the first step in plan order that
\* has no result while all it depends on have.
IsNext(state, u) ==
  LET Ready == {i \in DOMAIN Plan :
                  /\ state.results[Plan[i]] = "none"
                  /\ Depends[Plan[i]] \subseteq Settled(state.results)}
  IN IF state.stage # "executor" THEN u = state.stage
     ELSE \/ Ready = {} /\ u = "advance"
          \/ \E i \in Ready : u = Plan[i] /\ \A j \in Ready : i <= j

NeedsApproval(u, v, results) ==
  u \in Gated /\ v \in Costly /\ \A d \in Depends[u] : results[d] = "succeeded"

\* _downstream: a set of steps and everything that depends on it.
Closed(set) == \A s \in Step : Depends[s] \cap set # {} => s \in set
Downstream(set) ==
  {s \in Step : \A c \in SUBSET Step : set \subseteq c /\ Closed(c) => s \in c}

Forget(results, set) == [s \in Step |-> IF s \in set THEN "none" ELSE results[s]]

\* _rules: the steps no verdict can pass over.  Evidence and artifacts that do
\* not hold up add others.
Rules(results) == {s \in Step : results[s] # "succeeded"}

\* _revision_affected: what a revised plan may run again.
Revisions(results) ==
  {set \in (SUBSET Step) \ {{}} : Closed(set) /\ Rules(results) \subseteq set}

\* The stage after a step, or after the executor found none to begin.
AfterExecution(results) ==
  IF Settled(results) # Step THEN "executor"
  ELSE IF QualityPhases > 0 /\ \A s \in Step : results[s] = "succeeded"
       THEN "quality" ELSE "reviewer"

\* _reconcile: what the tables say of unit u of plan version v.
HasEvidence(v, u) ==
  \/ u \in Step /\ stepRow[<<v, u>>] \in {"succeeded", "failed"}
  \/ u = "planner" /\ v \in plans
  \/ u = "reviewer" /\ reviews[v] # "absent"
  \/ u = "writer"

\* Fault: a finished review counts as a pass.
RecoveredAsPass(state, v, u) ==
  IF u \in Step
  THEN [state EXCEPT !.stage = "executor", !.results[u] = stepRow[<<v, u>>]]
  ELSE [state EXCEPT !.stage = IF u = "planner" THEN "executor" ELSE "writer"]

Recovered(state, v, u) ==
  IF u \in Step
  THEN [state EXCEPT !.stage = "executor", !.results[u] = stepRow[<<v, u>>]]
  ELSE [state EXCEPT !.stage =
          CASE u = "planner" -> "executor"
            [] u = "reviewer" -> IF reviews[v] = "PASS" THEN "writer"
                                                        ELSE "replanner"
            [] OTHER -> "writer"]

Held(w) == [owner |-> w, generation |-> held[w]]
Goto(w, p, r) == pc' = [pc EXCEPT ![w] = p] /\ run' = [run EXCEPT ![w] = r]
SaveAs(w, s) == Goto(w, "save", [run[w] EXCEPT !.want = s])
Leave(w) == Goto(w, "idle", NoRun) /\ held' = [held EXCEPT ![w] = 0]
InStep(w) == run[w].unit # NoUnit /\ run[w].unit[2] \in Step

-----------------------------------------------------------------------------
(* A claim, the checkpoint it finds, and what the checkpoint calls for.     *)

WorkerClaim(w) ==
  /\ pc[w] = "idle"
  /\ Claim(w)
  /\ held' = [held EXCEPT ![w] = generation + 1]
  /\ Goto(w, "load", NoRun)
  /\ UNCHANGED <<saved, recordTables, unsent, desk, corrupt, counters>>

\* Fault: the budget starts afresh with each claim.
RestoredUnspent(u) ==
  [NoRun EXCEPT !.base = checkpoint, !.version = version, !.state = saved,
                !.unit = u]

\* Fault: the checkpoint before the newest one is restored.
RestoredBehind(u) ==
  [NoRun EXCEPT !.base = checkpoint - 1, !.version = version, !.state = saved,
                !.used = modelCalls, !.unit = u]

\* The run restored from the newest checkpoint, with unit u to look after.
Restored(u) ==
  [NoRun EXCEPT !.base = checkpoint, !.version = version, !.state = saved,
                !.used = modelCalls, !.unit = u]

Loading(w) ==
  /\ pc[w] = "load" /\ ~corrupt
  /\ UNCHANGED <<vars, held, saved, recordTables, unsent, desk, corrupt, controls>>

LoadStopped(w) ==
  /\ Loading(w)
  /\ \/ /\ status = "cancel_requested"
        /\ Goto(w, "save", [Restored(active) EXCEPT !.want = "cancelled"])
     \/ /\ status = "pause_requested" /\ active = NoUnit /\ pending = {}
        /\ Goto(w, "save", [Restored(active) EXCEPT !.want = "paused"])
  /\ UNCHANGED faults

\* A predecessor left a unit or a call behind: reconcile, never replay.
LoadUncertain(w) ==
  /\ Loading(w)
  /\ status # "cancel_requested" /\ (active # NoUnit \/ pending # {})
  /\ Goto(w, IF pending # {} THEN "calls" ELSE "evidence", Restored(active))
  /\ UNCHANGED faults

\* A clean checkpoint: its sources and the budget are checked first.
LoadFresh(w) ==
  /\ Loading(w)
  /\ status \notin {"cancel_requested", "pause_requested"}
  /\ active = NoUnit /\ pending = {}
  /\ \E u \in Unit :
       LET gated == NeedsApproval(u, version, saved.results)
           r == Restored(<<version, u, gated>>)
       IN /\ IsNext(saved, u)
          /\ \/ Goto(w, IF gated THEN "gate" ELSE "begin", r) /\ UNCHANGED faults
             \/ /\ Goto(w, "save", [r EXCEPT !.want = "budget_exceeded"])
                /\ UNCHANGED faults
             \/ /\ Goto(w, "save", [r EXCEPT !.want = "recovery_required"])
                /\ faults < MaxFaults /\ faults' = faults + 1

LoadCorrupt(w) ==
  /\ pc[w] = "load" /\ corrupt
  /\ Quarantine(Held(w))
  /\ Leave(w)
  /\ UNCHANGED <<saved, recordTables, unsent, desk, corrupt, counters>>

\* Receipts first; only when they clear every call are the tables asked.
ReconcileHeld(w) ==
  /\ pc[w] = "calls"
  /\ ReconcileCalls(Held(w))
  /\ IF pending' = {} THEN Goto(w, "evidence", run[w])
                      ELSE SaveAs(w, "recovery_required")
  /\ UNCHANGED <<held, saved, recordTables, unsent, desk, corrupt, counters>>

Reconcile(w) ==
  LET r == run[w] IN
  /\ pc[w] = "evidence"
  /\ IF r.unit # NoUnit /\ HasEvidence(r.version, r.unit[2])
     THEN Goto(w, "save", [r EXCEPT
            !.state = Recovered(r.state, r.version, r.unit[2])])
     ELSE SaveAs(w, "recovery_required")
  /\ UNCHANGED <<vars, held, saved, recordTables, unsent, desk, corrupt, counters>>

Gating(w) ==
  /\ pc[w] = "gate"
  /\ UNCHANGED <<held, saved, recordTables, unsent, desk, corrupt, counters>>

GateOpen(w) ==
  /\ Gating(w) /\ Fence(Held(w))
  /\ Approved(<<version, run[w].unit[2]>>)
  /\ Goto(w, "begin", run[w])
  /\ UNCHANGED vars

GateShut(w) ==
  LET op == <<version, run[w].unit[2]>>
      park == Goto(w, "park", [run[w] EXCEPT !.want = "awaiting_approval"])
  IN /\ Gating(w)
     /\ \/ Gate(Held(w), run[w].unit[2]) /\ park
        \/ /\ Fence(Held(w))
           /\ approval[op] \notin {"absent", "approved"}
           /\ approval[op] = "pending" => op \notin overdue
           /\ park /\ UNCHANGED vars

\* What keeps begin from beginning, as the status to save.
Refusal(w) ==
  IF active # NoUnit \/ pending # {} THEN "recovery_required"
  ELSE IF status = "cancel_requested" THEN "cancelled"
  ELSE IF status # "running" THEN "paused"
  ELSE IF run[w].unit[3] /\ ~Approved(<<version, run[w].unit[2]>>)
       THEN "awaiting_approval" ELSE "none"

BeginUnit(w) ==
  /\ pc[w] = "begin" /\ Fence(Held(w))
  /\ \/ /\ Refusal(w) = "none"
        /\ Begin(Held(w), run[w].unit[2], run[w].unit[3])
        /\ Goto(w, IF InStep(w) THEN "charge" ELSE "work", run[w])
     \/ Refusal(w) # "none" /\ SaveAs(w, Refusal(w)) /\ UNCHANGED vars
  /\ UNCHANGED <<held, saved, recordTables, unsent, desk, corrupt, counters>>

-----------------------------------------------------------------------------
(* A unit at work.  r.used is the run's own counter of model calls.         *)

\* consume("steps") is persisted before the step gets its row.
Charge(w) ==
  /\ pc[w] = "charge"
  /\ JournalBudget(Held(w), run[w].used)
  /\ Goto(w, "start", run[w])
  /\ UNCHANGED <<held, saved, recordTables, unsent, desk, corrupt, counters>>

\* start_step inserts its row without looking for an earlier one.
StartStep(w) ==
  LET row == <<run[w].version, run[w].unit[2]>> IN
  /\ pc[w] = "start"
  /\ stepRow' = [stepRow EXCEPT
                   ![row] = IF @ = "absent" THEN "running" ELSE "duplicate"]
  /\ Goto(w, "work", run[w])
  /\ UNCHANGED <<vars, held, saved, plans, reviews, unsent, desk, corrupt, counters>>

\* The step is over in memory; its row is not written yet.
StepEnds(w, outcome, want) ==
  LET s == run[w].unit[2] IN
  Goto(w, "record", [run[w] EXCEPT
         !.outcome = outcome, !.want = want, !.call = NoCall,
         !.state.results[s] = IF outcome = "succeeded" THEN "succeeded"
                                                       ELSE "failed"])

Working(w) ==
  /\ pc[w] \in {"work", "calling"}
  /\ UNCHANGED <<held, saved, recordTables, desk, corrupt, counters>>

\* The run's counter after it reserved call k.
Reserved(w, k) == run[w].used + (IF k \in ModelCall THEN 1 ELSE 0)

StartCall(w, k) ==
  /\ Working(w) /\ pc[w] = "work"
  /\ run[w].unit[2] \notin {"advance", "writer"}
  /\ Reserved(w, k) <= MaxModelCalls
  /\ JournalStart(Held(w), k, Reserved(w, k))
  /\ Goto(w, "calling", [run[w] EXCEPT !.call = k, !.used = Reserved(w, k)])
  /\ UNCHANGED unsent

FinishCall(w) ==
  /\ Working(w) /\ pc[w] = "calling"
  /\ JournalFinish(Held(w), run[w].call, run[w].used)
  /\ Goto(w, "work", [run[w] EXCEPT !.call = NoCall])
  /\ UNCHANGED unsent

\* The request was refused locally: nothing was sent.
RejectCall(w) ==
  LET k == run[w].call IN
  /\ Working(w) /\ pc[w] = "calling"
  /\ JournalRejected(Held(w), k, Larger(0, run[w].used - 1))
  /\ unsent' = unsent \cup {k}
  /\ LET r == [run[w] EXCEPT !.used = Larger(0, @ - 1), !.call = NoCall] IN
     IF InStep(w)
     THEN Goto(w, "record", [r EXCEPT !.outcome = "failed", !.want = "failed",
                               !.state.results[r.unit[2]] = "failed"])
     ELSE Goto(w, "save", [r EXCEPT !.want = "failed"])

\* The answer is lost.  A step may carry on without it.
LoseAnswer(w) ==
  /\ Working(w) /\ pc[w] = "calling" /\ UNCHANGED <<vars, unsent>>
  /\ IF InStep(w)
     THEN \/ Goto(w, "work", [run[w] EXCEPT !.call = NoCall])
          \/ StepEnds(w, "failed", "queued")
     ELSE SaveAs(w, "failed")

\* The journal refuses a call the run has already counted.  A step swallows
\* the refusal, LeaseLost included.
RefuseCall(w) ==
  /\ Working(w) /\ pc[w] = "work" /\ UNCHANGED <<vars, unsent>>
  /\ run[w].unit[2] \notin {"advance", "writer"}
  /\ ~Fence(Held(w)) \/ ~MayStart
  /\ \E n \in {run[w].used, run[w].used + 1} :
       /\ n <= MaxModelCalls
       /\ IF InStep(w)
          THEN StepEnds(w, "failed", "queued")
          ELSE Goto(w, "save", [run[w] EXCEPT !.used = n, !.want = "failed"])

EndStep(w) ==
  /\ Working(w) /\ pc[w] = "work" /\ InStep(w) /\ UNCHANGED <<vars, unsent>>
  /\ \/ /\ \A d \in Depends[run[w].unit[2]] : run[w].state.results[d] = "succeeded"
        /\ StepEnds(w, "succeeded", "queued")
     \/ \E want \in {"queued", "failed"} : StepEnds(w, "failed", want)

\* finish_step, and only then the stage that follows.
RecordStep(w) ==
  LET r == run[w]
      row == <<r.version, r.unit[2]>>
  IN /\ pc[w] = "record" /\ InStep(w)
     /\ stepRow' = [stepRow EXCEPT ![row] =
                      IF @ = "duplicate" THEN @ ELSE r.outcome]
     /\ Goto(w, "save", [r EXCEPT !.state.stage =
               IF r.want = "queued" THEN AfterExecution(r.state.results) ELSE @])
     /\ UNCHANGED <<vars, held, saved, plans, reviews, unsent, desk, corrupt, counters>>

\* The replanner revises the run in memory before it saves the new plan.
Replan(w) ==
  LET r == run[w] IN
  /\ Working(w) /\ pc[w] = "work" /\ UNCHANGED <<vars, unsent>>
  /\ r.unit[2] = "replanner" /\ r.version < MaxVersion
  /\ \E set \in Revisions(r.state.results) :
       Goto(w, "record", [r EXCEPT
         !.version = @ + 1,
         !.state.results = Forget(@, set), !.state.phase = 0])

RecordPlan(w) ==
  /\ pc[w] = "record" /\ ~InStep(w)
  /\ plans' = plans \cup {run[w].version}
  /\ Goto(w, "save", [run[w] EXCEPT !.state.stage = "executor"])
  /\ UNCHANGED <<vars, held, saved, stepRow, reviews, unsent, desk, corrupt, counters>>

MoveTo(w, stage, want) ==
  Goto(w, "save", [run[w] EXCEPT !.state.stage = stage, !.want = want])

Ending(w, unit) ==
  /\ pc[w] = "work" /\ run[w].unit[2] = unit
  /\ UNCHANGED <<vars, held, saved, stepRow, unsent, desk, corrupt, counters>>

PlannerEnds(w) ==
  /\ Ending(w, "planner")
  /\ plans' = plans \cup {run[w].version}
  /\ MoveTo(w, "executor", "queued")
  /\ UNCHANGED reviews

AdvanceEnds(w) ==
  /\ Ending(w, "advance")
  /\ MoveTo(w, AfterExecution(run[w].state.results), "queued")
  /\ UNCHANGED <<plans, reviews>>

\* One phase of the quality stage, of which there may be fewer than the bound.
QualityEnds(w) ==
  /\ Ending(w, "quality")
  /\ \E stage \in {"quality", "reviewer"} :
       /\ run[w].state.phase + 1 = QualityPhases => stage = "reviewer"
       /\ Goto(w, "save", [run[w] EXCEPT !.state.phase = @ + 1,
                                        !.state.stage = stage])
  /\ UNCHANGED <<plans, reviews>>

ReviewerEnds(w) ==
  /\ Ending(w, "reviewer")
  /\ \E verdict \in {"PASS", "REPLAN"} :
       /\ verdict = "PASS" => Rules(run[w].state.results) = {}
       /\ reviews' = [reviews EXCEPT ![run[w].version] = verdict]
       /\ MoveTo(w, IF verdict = "PASS" THEN "writer" ELSE "replanner", "queued")
  /\ UNCHANGED plans

WriterEnds(w) ==
  /\ Ending(w, "writer")
  /\ Rules(run[w].state.results) = {}
  /\ MoveTo(w, "done", "succeeded")
  /\ UNCHANGED <<plans, reviews>>

\* A stage other than the executor writes its record and moves on.
EndStage(w) ==
  PlannerEnds(w) \/ AdvanceEnds(w) \/ QualityEnds(w) \/ ReviewerEnds(w)
    \/ WriterEnds(w)

\* A stage ends in an error, with or without a code that asks for recovery.
FailStage(w) ==
  /\ Working(w) /\ pc[w] = "work" /\ ~InStep(w) /\ UNCHANGED <<vars, unsent>>
  /\ \E want \in {"failed", "recovery_required"} : SaveAs(w, want)

-----------------------------------------------------------------------------
(* Endings nobody in the unit asked for.                                    *)

\* The execution is cancelled, or its time is up; a step still tries to write
\* its row.
Abort(w, want) ==
  IF pc[w] \in {"work", "calling"} /\ InStep(w)
  THEN StepEnds(w, "interrupted", want) ELSE SaveAs(w, want)

OutOfBudget(w) ==
  /\ pc[w] \in {"charge", "start", "work", "calling", "record"}
  /\ Abort(w, "budget_exceeded")
  /\ UNCHANGED <<vars, held, saved, recordTables, unsent, desk, corrupt, counters>>

\* tick cancels its execution: the lease is lost, a heartbeat saw the user's
\* request, or (a fault) the worker shuts down or gets no heartbeat through.
Interrupt(w) ==
  /\ pc[w] \in {"calls", "evidence", "gate", "park", "begin", "charge",
                "start", "work", "calling", "record"}
  /\ \/ ~Fence(Held(w)) /\ UNCHANGED <<vars, faults>>
     \/ status = "cancel_requested" /\ Heartbeat(Held(w)) /\ UNCHANGED faults
     \/ faults < MaxFaults /\ faults' = faults + 1 /\ UNCHANGED vars
  /\ Abort(w, "recovery_required")
  /\ UNCHANGED <<held, saved, recordTables, unsent, desk, corrupt, controls>>

Renew(w) ==
  /\ pc[w] # "idle" /\ lease < LeaseTicks
  /\ Heartbeat(Held(w))
  /\ UNCHANGED workerVars

\* Outside a step LeaseLost ends the execution at the next fence.
LoseLease(w) ==
  /\ ~Fence(Held(w))
  /\ \/ pc[w] \in {"calls", "gate", "park", "begin", "charge", "save"}
     \/ pc[w] = "load" /\ corrupt
     \/ pc[w] \in {"work", "calling"} /\ ~InStep(w)
  /\ Leave(w)
  /\ UNCHANGED <<vars, saved, recordTables, unsent, desk, corrupt, counters>>

\* The process dies, or a second cancellation hits its last save.
Crash(w) ==
  /\ pc[w] # "idle"
  /\ faults < MaxFaults /\ faults' = faults + 1
  /\ Leave(w)
  /\ UNCHANGED <<vars, saved, recordTables, unsent, desk, corrupt, controls>>

\* save, the end of every execution that kept its lease.
SaveRun(w) ==
  LET r == run[w] IN
  /\ pc[w] \in {"save", "park"}
  /\ Save(Held(w), r.want, r.base, r.version, r.used)
  /\ saved' = r.state
  /\ corrupt' = FALSE
  /\ Leave(w)
  /\ UNCHANGED <<recordTables, unsent, desk, counters>>

-----------------------------------------------------------------------------
(* The operator's reconcile, users, storage and the clock.                  *)

AtDesk(step) ==
  /\ desk.at = step
  /\ UNCHANGED <<pc, held, run, saved, recordTables, unsent, corrupt, counters>>

NoDesk == [at |-> "idle", seq |-> 0, version |-> 1, unit |-> NoUnit]

DeskOpen ==
  /\ desk.at = "idle" /\ ~corrupt
  /\ controls < MaxControls /\ controls' = controls + 1
  /\ UNCHANGED <<vars, pc, held, run, saved, recordTables, unsent, corrupt, faults>>
  /\ desk' = [at |-> "calls", seq |-> checkpoint, version |-> version,
              unit |-> active]

DeskCalls ==
  /\ AtDesk("calls")
  /\ ReconcileCallsByOperator(desk.seq)
  /\ desk' = IF pending' = {} THEN [desk EXCEPT !.at = "evidence"] ELSE NoDesk

\* Fault: cleared calls are taken for evidence of the unit.
DeskEvidenceSkipped ==
  /\ AtDesk("evidence") /\ UNCHANGED vars
  /\ desk' = [desk EXCEPT !.at = "queue"]

DeskEvidence ==
  /\ AtDesk("evidence") /\ UNCHANGED vars
  /\ desk' = IF desk.unit # NoUnit /\ HasEvidence(desk.version, desk.unit[2])
             THEN [desk EXCEPT !.at = "queue"] ELSE NoDesk

DeskQueue ==
  /\ AtDesk("queue")
  /\ QueueReconciled(desk.seq)
  /\ desk' = NoDesk

\* The row is no longer the one the operator looked at.
DeskConflict ==
  /\ AtDesk("calls") \/ AtDesk("queue")
  /\ status # "recovery_required" \/ checkpoint # desk.seq
  /\ desk' = NoDesk
  /\ UNCHANGED vars

UserControl ==
  /\ Pause \/ Resume \/ Cancel
  /\ controls < MaxControls /\ controls' = controls + 1
  /\ UNCHANGED <<pc, held, run, saved, recordTables, unsent, desk, corrupt, faults>>

\* A decision; a modification replans what is built from the specification.
UserDecision ==
  \E d \in Client :
    /\ \/ ReadSnapshot(d) /\ ~corrupt /\ UNCHANGED <<saved, plans, corrupt>>
       \/ /\ \E u \in Gated : Approve(d, u) \/ Reject(d, u)
          /\ UNCHANGED <<saved, plans, corrupt>>
       \/ \E u \in Gated :
            /\ Modify(d, u)
            /\ plans' = plans \cup {version'}
            /\ saved' = [saved EXCEPT
                 !.stage = "executor",
                 !.results = Forget(@, Downstream(Rebuilt))]
            /\ corrupt' = FALSE
    /\ UNCHANGED <<pc, held, run, stepRow, reviews, unsent, desk, counters>>

Corrupt ==
  /\ ~corrupt /\ corrupt' = TRUE
  /\ faults < MaxFaults /\ faults' = faults + 1
  /\ UNCHANGED <<vars, pc, held, run, saved, recordTables, unsent, desk, controls>>

\* A worker renews its lease three times before it runs out, so it takes a
\* fault for the lease of a live execution to end.
Clock ==
  /\ Tick
  /\ IF lease = 1 /\ \E w \in Owner : pc[w] # "idle" /\ Fence(Held(w))
     THEN faults < MaxFaults /\ faults' = faults + 1
     ELSE UNCHANGED faults
  /\ UNCHANGED <<pc, held, run, saved, recordTables, unsent, desk, corrupt, controls>>

Outside ==
  /\ \/ \E c \in claims, k \in Call : CompleteReceipt(c, k)
     \/ \E op \in Operation : Lapse(op)
  /\ UNCHANGED workerVars

-----------------------------------------------------------------------------

WorkerInit ==
  /\ Init
  /\ pc = [w \in Owner |-> "idle"]
  /\ held = [w \in Owner |-> 0]
  /\ run = [w \in Owner |-> NoRun]
  /\ saved = Start
  /\ plans = {}
  /\ stepRow = [row \in Version \X Step |-> "absent"]
  /\ reviews = [v \in Version |-> "absent"]
  /\ unsent = {}
  /\ desk = NoDesk
  /\ corrupt = FALSE
  /\ faults = 0 /\ controls = 0

Work(w) ==
  \/ LoadStopped(w) \/ LoadUncertain(w) \/ LoadFresh(w) \/ LoadCorrupt(w)
  \/ ReconcileHeld(w) \/ Reconcile(w)
  \/ GateOpen(w) \/ GateShut(w) \/ BeginUnit(w)
  \/ Charge(w) \/ StartStep(w) \/ EndStep(w) \/ RecordStep(w)
  \/ Replan(w) \/ RecordPlan(w) \/ EndStage(w) \/ FailStage(w)
  \/ \E k \in Call : StartCall(w, k)
  \/ FinishCall(w) \/ RejectCall(w) \/ LoseAnswer(w) \/ RefuseCall(w)
  \/ OutOfBudget(w) \/ LoseLease(w) \/ SaveRun(w)

Desk == DeskOpen \/ DeskCalls \/ DeskEvidence \/ DeskQueue \/ DeskConflict

WorkerNext ==
  \/ \E w \in Owner : \/ WorkerClaim(w) \/ Work(w)
                      \/ Interrupt(w) \/ Renew(w) \/ Crash(w)
  \/ Desk \/ UserControl \/ UserDecision \/ Corrupt \/ Clock \/ Outside

WorkerSpec == WorkerInit /\ [][WorkerNext]_allVars

\* The worker process loops for ever and is restarted when it dies, and time
\* passes.  No user, operator or storage has to do anything.
FairWorkerSpec ==
  /\ WorkerSpec
  /\ WF_allVars(Clock)
  /\ \A w \in Owner : WF_allVars(WorkerClaim(w)) /\ WF_allVars(Work(w))

-----------------------------------------------------------------------------
(* What workers and operators promise together, besides Spec of module      *)
(* DurableQueue, which WorkerSpec implements.                               *)

\* No step of a plan version is ever started a second time, whatever crashes,
\* takeovers, interrupts and operators come between: its row in task_steps
\* stays unique, which is what _reconcile relies on.  And a result the next unit
\* builds on was written to task_steps by the step itself, although the row and
\* the checkpoint are written in different transactions and only one of them is
\* fenced (begin, _step, save, _reconcile).
StepRowsAreSound ==
  /\ \A row \in Version \X Step : stepRow[row] # "duplicate"
  /\ active = NoUnit /\ status \notin Terminal =>
       \A s \in Step : saved.results[s] = "succeeded" =>
         \E v \in 1..version : stepRow[<<v, s>>] = "succeeded"

\* A workflow that succeeds has a stored plan, a success for each of its steps,
\* and a PASS for this very plan version, wherever a crash or a recovery came
\* between the step rows, the review row and the checkpoint (_rules, _reviewer,
\* _reconcile, modified).
VerdictEarned ==
  status = "succeeded" =>
    /\ Rules(saved.results) = {}
    /\ version \in plans
    /\ reviews[version] = "PASS"

\* Every model call that may have been sent is on the row's counter, and the
\* counter keeps to the limit, across restarts, lost answers and refused
\* calls (BudgetedLLM.generate, journal, restore).
SentCallsAreCounted ==
  /\ Cardinality((Started \cap ModelCall) \ unsent) <= modelCalls
  /\ modelCalls <= MaxModelCalls

\* A parked workflow is queued again only on a record of what its unit did:
\* the operator's evidence has not gone stale when it is used
\* (DurableService.reconcile, queue_reconciled).
RequeueNeedsEvidence ==
  [][status = "recovery_required" /\ status' = "queued" =>
       active # NoUnit /\ HasEvidence(version, active[2])]_allVars

\* A queued or running workflow comes to rest without anybody's help: it ends
\* or waits for a person, and neither crashes nor recoveries keep it going
\* round (claim, tick, _execute).
WorkflowRests ==
  status \in Leased \cup {"queued"} ~> status \notin Leased \cup {"queued"}

=============================================================================
