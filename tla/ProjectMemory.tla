---------------------------- MODULE ProjectMemory ----------------------------
(* What a project remembers of its runs: lessons that finished runs leave     *)
(* and that later ones are shown when they plan.  A lesson says which plan    *)
(* cured a problem that an earlier plan had.  A run has one step here; a new  *)
(* plan repeats the steps that a review blamed.                              *)
EXTENDS Naturals

CONSTANTS
    Run,            \* runs of workflows in the project
    MaxPlan         \* bound on the plans of a run

VARIABLES
    ended,          \* ended[r]: status of the task row
    plan,           \* plan[r]: version of the run's plan, 0 before the first
    done,           \* done[r]: plan of the step row named by the checkpoint
    faults,         \* faults[r]: the plans whose review blames the step
    passed,         \* runs whose last review passed
    learning,       \* runs whose worker ended with success and has not learned
    lessons,        \* experience rows: run, failed plan, plan that cured it
    disabled,       \* lessons that people switched off
    shown           \* shown[r]: the lessons in the context of r's newest plan

runVars == <<ended, plan, done, faults, passed, learning>>
memoryVars == <<runVars, lessons, disabled, shown>>

Live == {"running", "cancel_requested"}

MemoryInit ==
    /\ ended = [r \in Run |-> "running"] /\ plan = [r \in Run |-> 0]
    /\ done = [r \in Run |-> 0] /\ faults = [r \in Run |-> {}]
    /\ passed = {} /\ learning = {}
    /\ lessons = {} /\ disabled = {} /\ shown = [r \in Run |-> {}]

-----------------------------------------------------------------------------
(* Runs.                                                                     *)

\* The lessons that are on (experiences).
Offered == lessons \ disabled

\* Planning and planning again: context picks from the lessons that are on, and
\* a new plan drops the result of the step that was blamed.
Plan(r) ==
    /\ ended[r] \in Live /\ plan[r] < MaxPlan /\ r \notin passed
    /\ plan[r] = 0 \/ plan[r] \in faults[r]
    /\ plan' = [plan EXCEPT ![r] = @ + 1]
    /\ done' = [done EXCEPT ![r] = 0]
    /\ \E some \in SUBSET Offered : shown' = [shown EXCEPT ![r] = some]
    /\ UNCHANGED <<ended, faults, passed, learning, lessons, disabled>>

\* The step, when the checkpoint has no result of it.
RunStep(r) ==
    /\ ended[r] \in Live /\ plan[r] > 0 /\ done[r] = 0
    /\ done' = [done EXCEPT ![r] = plan[r]]
    /\ UNCHANGED <<ended, plan, faults, passed, learning, lessons, disabled, shown>>

\* One review of a plan: the step is blamed, or the plan passes.
Review(r) ==
    /\ ended[r] \in Live /\ done[r] > 0 /\ r \notin passed /\ plan[r] \notin faults[r]
    /\ \/ faults' = [faults EXCEPT ![r] = @ \cup {plan[r]}] /\ UNCHANGED passed
       \/ passed' = passed \cup {r} /\ UNCHANGED faults
    /\ UNCHANGED <<ended, plan, done, learning, lessons, disabled, shown>>

CancelRun(r) ==
    /\ ended[r] = "running"
    /\ ended' = [ended EXCEPT ![r] = "cancel_requested"]
    /\ UNCHANGED <<plan, done, faults, passed, learning, lessons, disabled, shown>>

\* The last save of a worker that reached the end.  A cancellation that was
\* requested wins; the worker still believes that it succeeded.
Finish(r) ==
    /\ ended[r] \in Live /\ r \in passed
    /\ ended' = [ended EXCEPT ![r] = IF @ = "running" THEN "succeeded" ELSE "cancelled"]
    /\ learning' = learning \cup {r}
    /\ UNCHANGED <<plan, done, faults, passed, lessons, disabled, shown>>

\* A run that ends otherwise.
Abandon(r) ==
    /\ ended[r] \in Live
    /\ ended' = [ended EXCEPT ![r] = IF @ = "running" THEN "failed" ELSE "cancelled"]
    /\ UNCHANGED <<plan, done, faults, passed, learning, lessons, disabled, shown>>

\* Fault: the worker's own word is taken for the status of the task.
WorkerSaysSo(r) == TRUE

\* learn reads the task's row, for a run whose review passed.
HasSucceeded(r) == ended[r] = "succeeded"

\* A problem of a review counts when the result the run ended with is that of
\* the step's row under a later plan.
Cured(r) == {p \in faults[r] : done[r] > p}

\* learn, unless the worker dies before it.
Learn(r) ==
    /\ r \in learning
    /\ learning' = learning \ {r}
    /\ lessons' \in
         {lessons,
          IF HasSucceeded(r)
            THEN lessons \cup {[run |-> r, failed |-> p, cured |-> done[r]] : p \in Cured(r)}
            ELSE lessons}
    /\ UNCHANGED <<ended, plan, done, faults, passed, disabled, shown>>

\* set_enabled.
Switch(l) ==
    /\ disabled' = IF l \in disabled THEN disabled \ {l} ELSE disabled \cup {l}
    /\ UNCHANGED <<runVars, lessons, shown>>

MemoryNext ==
    \/ \E r \in Run :
         Plan(r) \/ RunStep(r) \/ Review(r) \/ CancelRun(r) \/ Finish(r) \/ Abandon(r) \/ Learn(r)
    \/ \E l \in lessons : Switch(l)

MemorySpec == MemoryInit /\ [][MemoryNext]_memoryVars

-----------------------------------------------------------------------------
\* A lesson is of a task that succeeded and not of one that was cancelled at the
\* last moment; the plan it recommends came after the one that was blamed, ran
\* the step itself and passed the last review; and no run is taught by itself
\* (learn, context).
LessonsAreVerified ==
    \A l \in lessons :
        /\ ended[l.run] = "succeeded" /\ l.run \in passed
        /\ l.failed \in faults[l.run]
        /\ l.cured = done[l.run] /\ l.cured > l.failed
        /\ \A r \in Run : l \in shown[r] => l.run # r
==============================================================================
