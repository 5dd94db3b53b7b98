----------------------------- MODULE PlanRepair -----------------------------
(* The plan of one experiment workflow and its repair: the steps, the review  *)
(* that blames some of them, and the revision that keeps the work of the      *)
(* others.  Source of a coding step is handed to the steps that depend on it  *)
(* and lies in the workspace of its child task, where somebody may still      *)
(* write to it, while a review or a revision is being waited for, too.        *)
EXTENDS Integers, FiniteSets

CONSTANTS
    Step, Allowed,  \* ids that plans may use, and the kinds of each
    Source,         \* contents of a workspace
    MaxReplans, MaxRepairs,     \* budget: replans, code_repairs
    AgentRepairs,   \* CodingLimits.max_repairs, of one run of the coding agent
    MaxWrites       \* bound on writes of somebody else

ASSUME RepairAssumption ==
    /\ IsFiniteSet(Step) /\ MaxReplans \in Nat /\ MaxRepairs \in Nat
    /\ AgentRepairs \in Nat /\ MaxWrites \in Nat

VARIABLES
    pc,             \* node of the graph, or how the run ended
    plan, version,
    results,        \* results[s]: outcome of the step, NoResult: none
    space,          \* space[s]: the workspace of the step's child
    issues,         \* the last review
    narrow,         \* steps that an artifact-only recovery repeats
    lost,           \* lost[s]: the step rows with a failed collection, by source
    used,           \* budget spent
    inner,          \* history: has the agent repaired by itself under this plan
    writes          \* history: writes of somebody else

planVars == <<pc, plan, version, results, space, issues, narrow, lost, used, inner, writes>>

Nothing == "nothing"
NoResult == [outcome |-> "none", version |-> 0, source |-> Nothing, seen |-> {}]
NoIssues == [steps |-> {}, plain |-> TRUE]

-----------------------------------------------------------------------------
(* Plans (TaskPlan, _validate_plan).                                         *)

Kinds == {"research", "coding", "experiment"}       \* "research": knowledge, too

OfKind(p, kind) == {s \in p.ids : p.kind[s] = kind}

IsGraph(p) ==
    /\ \A s \in p.ids : p.deps[s] \subseteq p.ids \ {s}
    /\ \A s \in OfKind(p, "coding") : Cardinality(p.deps[s] \cap OfKind(p, "coding")) <= 1
    /\ \A s \in OfKind(p, "experiment") : Cardinality(p.deps[s] \cap OfKind(p, "coding")) = 1
    /\ \A C \in (SUBSET p.ids) \ {{}} : \E s \in C : p.deps[s] \cap C = {}

IsPlan(p) == IsGraph(p) /\ OfKind(p, "experiment") # {}

NoPlan == [ids |-> {}, kind |-> [s \in Step |-> "research"], deps |-> [s \in Step |-> {}]]

\* An id that is not used has no kind and no dependencies of its own.
Plans == {p \in [ids : SUBSET Step, kind : [Step -> Kinds], deps : [Step -> SUBSET Step]] :
            /\ \A s \in p.ids : p.kind[s] \in Allowed[s]
            /\ \A s \in Step \ p.ids : p.kind[s] = "research" /\ p.deps[s] = {}
            /\ IsPlan(p)}

\* The coding step whose source an experiment is run on.
CodeOf(s) == CHOOSE d \in plan.deps[s] : plan.kind[d] = "coding"

\* Fault: only what depends on it directly.
OneStepDown(p, affected) == affected \cup {s \in p.ids : p.deps[s] \cap affected # {}}

\* _downstream: the least set that has them and all that depends on it.
HasDependants(p, C) == \A s \in p.ids : p.deps[s] \cap C # {} => s \in C

Downstream(p, affected) ==
    {s \in Step : \A C \in SUBSET Step : affected \subseteq C /\ HasDependants(p, C) => s \in C}

\* The code repairs a revision costs (_check_code_repair_budget).
Repairs(p, affected) == Cardinality(affected \cap OfKind(p, "coding"))

Affordable(p, affected) == Repairs(p, affected) + used.repairs <= MaxRepairs

PlanInit ==
    /\ pc = "planner"
    /\ plan = NoPlan /\ version = 1
    /\ results = [s \in Step |-> NoResult] /\ space = [s \in Step |-> Nothing]
    /\ issues = NoIssues /\ narrow = {}
    /\ lost = [s \in Step |-> [x \in Source |-> 0]]
    /\ used = [replans |-> 0, repairs |-> 0] /\ inner = FALSE
    /\ writes = 0

Planner ==
    /\ pc = "planner"
    /\ plan' \in Plans
    /\ pc' = "executor"
    /\ UNCHANGED <<version, results, space, issues, narrow, lost, used, inner, writes>>

-----------------------------------------------------------------------------
(* Steps (_executor, _step, _dispatch).                                      *)

Failed(s) == results[s].outcome \in {"failed", "skipped", "collection"}

Ready(s) ==
    /\ pc = "executor" /\ s \in plan.ids
    /\ results[s] = NoResult
    /\ \A d \in plan.deps[s] : results[d] # NoResult

\* seen: the results it was made from.
Record(s, outcome, source) ==
    /\ results' =
         [results EXCEPT ![s] =
            [outcome |-> outcome, version |-> version, source |-> source,
             seen |-> {<<d, results[d].version>> : d \in plan.deps[s]}]]
    /\ space' = [space EXCEPT ![s] = source]
    /\ UNCHANGED <<plan, version, issues, narrow, writes>>

Skip(s) ==
    /\ Ready(s) /\ \E d \in plan.deps[s] : Failed(d)
    /\ Record(s, "skipped", Nothing)
    /\ UNCHANGED <<pc, lost, used, inner>>

May(s, kind) == Ready(s) /\ plan.kind[s] = kind /\ \A d \in plan.deps[s] : ~Failed(d)

\* With evidence, without, or a failure.
Research(s) ==
    /\ May(s, "research")
    /\ \E outcome \in {"done", "unproven", "failed"} : Record(s, outcome, Nothing)
    /\ UNCHANGED <<pc, lost, used, inner>>

\* After the first plan it is a repair, whether it helps or not.  Under every plan
\* the agent repairs what fails its validation, from the same budget; where that
\* refuses one more repair, the run ends.
Code(s) ==
    /\ May(s, "coding")
    /\ \E own \in 0 .. AgentRepairs :
         LET spent == used.repairs + own + (IF version > 1 THEN 1 ELSE 0)
         IN  /\ pc' = IF spent > MaxRepairs THEN "out_of_repairs" ELSE pc
             /\ used' = [used EXCEPT !.repairs = IF spent > MaxRepairs THEN MaxRepairs ELSE spent]
             /\ inner' = (inner \/ own > 0)
             /\ \/ spent <= MaxRepairs /\ \E x \in Source : Record(s, "done", x)
                \/ Record(s, "failed", Nothing)
    /\ UNCHANGED lost

\* The training runs on the source that was handed over; it may end well and
\* leave no artifacts or metrics that can be used.
Train(s) ==
    /\ May(s, "experiment")
    /\ LET x == results[CodeOf(s)].source IN
       \/ \E outcome \in {"done", "failed"} : Record(s, outcome, x) /\ UNCHANGED lost
       \/ Record(s, "collection", x) /\ lost' = [lost EXCEPT ![s][x] = @ + 1]
    /\ UNCHANGED <<pc, used, inner>>

-----------------------------------------------------------------------------
(* Review (_rules, _reviewer).                                               *)

\* Another process writes to the workspace of a child.
Write(s) ==
    /\ space[s] # Nothing /\ writes < MaxWrites
    /\ pc \in {"executor", "reviewer", "judging", "replanner", "revising"}
    /\ \E x \in Source \ {space[s]} : space' = [space EXCEPT ![s] = x]
    /\ writes' = writes + 1
    /\ UNCHANGED <<pc, plan, version, results, issues, narrow, lost, used, inner>>

Intact(s) == space[s] = results[s].source

\* The steps the platform blames by itself: no result, no evidence, or source
\* that is not what was handed over.
Rules == {s \in plan.ids : Failed(s) \/ results[s].outcome = "unproven" \/ ~Intact(s)}

\* _collection_retry_steps: training ended well and only the collection failed,
\* under the first plan and with everything else done.
Uncollected == {s \in plan.ids : results[s].outcome = "collection"}

Recoverable ==
    IF version = 1 /\ \A s \in plan.ids \ Uncollected : ~Failed(s) THEN Uncollected ELSE {}

\* It fails the run when the source is not that of the coding step any more.
LineageBroken == \E s \in Recoverable : ~Intact(CodeOf(s))

RunFails == pc' = "failed"

StartReview ==
    /\ pc = "executor" /\ \A s \in plan.ids : results[s] # NoResult
    /\ IF LineageBroken THEN RunFails /\ UNCHANGED issues
                        ELSE pc' = "judging" /\ issues' = [NoIssues EXCEPT !.steps = Rules]
    /\ UNCHANGED <<plan, version, results, space, narrow, lost, used, inner, writes>>

\* Source that was tested is blamed with a quotation of it only.
Quoted(found) == \E s \in found : plan.kind[s] = "coding" /\ ~Failed(s) /\ Intact(s)

\* What the platform found before and after the model was asked, and what the
\* model found.  Issues are plain when none names a source or a demand.
EndReview ==
    /\ pc = "judging"
    /\ \E found \in SUBSET plan.ids, plain \in BOOLEAN :
         /\ Quoted(found) => ~plain
         /\ found = {} => plain
         /\ issues' = [steps |-> issues.steps \cup found \cup Rules, plain |-> plain]
         /\ pc' = IF issues'.steps = {} THEN "passed" ELSE "replanner"
    /\ UNCHANGED <<plan, version, results, space, narrow, lost, used, inner, writes>>

-----------------------------------------------------------------------------
(* Revision (_replanner).                                                    *)

RetainedIntact == \A s \in plan.ids : plan.kind[s] = "coding" /\ ~Failed(s) => Intact(s)

\* _experiment_retry_steps.
RetrySteps ==
    IF issues.steps \subseteq Recoverable /\ issues.plain THEN Recoverable ELSE {}

\* Fault: the step rows of the present plan only.
AttemptsOfPlan(s) == 1

\* The step rows of s whose collection failed on the source it failed on now.
Attempts(s) == lost[s][results[s].source]

\* _check_repeated_collection_failure.
Exhausted ==
    /\ version > 1
    /\ Repairs(plan, Downstream(plan, issues.steps)) = 0
    /\ \E s \in Uncollected : Attempts(s) >= 2

StartReplan ==
    /\ pc = "replanner"
    /\ \/ /\ ~RetainedIntact \/ Exhausted \/ LineageBroken
          /\ RunFails
          /\ UNCHANGED <<used, narrow>>
       \/ /\ RetainedIntact /\ ~Exhausted /\ ~LineageBroken
          /\ ~Affordable(plan, Downstream(plan, issues.steps)) \/ used.replans >= MaxReplans
          /\ pc' = "out_of_replans"
          /\ UNCHANGED <<used, narrow>>
       \/ /\ RetainedIntact /\ ~Exhausted /\ ~LineageBroken
          /\ Affordable(plan, Downstream(plan, issues.steps)) /\ used.replans < MaxReplans
          /\ used' = [used EXCEPT !.replans = @ + 1]
          /\ narrow' = RetrySteps
          /\ pc' = "revising"
    /\ UNCHANGED <<plan, version, results, space, issues, lost, inner, writes>>

\* The results of what is affected are given up.
Revise(p, affected) ==
    /\ plan' = p
    /\ version' = version + 1
    /\ results' = [s \in Step |-> IF s \in affected THEN NoResult ELSE results[s]]
    /\ space' = [s \in Step |-> IF s \in affected THEN Nothing ELSE space[s]]
    /\ narrow' = {}
    /\ issues' = NoIssues
    /\ inner' = FALSE
    /\ pc' = "executor"

\* The plan is kept and exactly the training is repeated.
Retry ==
    /\ pc = "revising" /\ narrow # {}
    /\ IF RetainedIntact /\ ~LineageBroken
         THEN Revise(plan, Downstream(plan, narrow))
         ELSE RunFails /\ UNCHANGED <<plan, version, results, space, issues, narrow, inner>>
    /\ UNCHANGED <<lost, used, writes>>

\* Another plan has the old steps; what is new or changed is run again, with all
\* that depends on it.
IsRevision(p, touched) ==
    LET affected == Downstream(p, touched) IN
    /\ plan.ids \subseteq p.ids /\ touched \subseteq p.ids
    /\ \A s \in plan.ids : p.kind[s] = plan.kind[s]
    /\ \A s \in p.ids : s \notin plan.ids \/ p.deps[s] # plan.deps[s] => s \in touched
    /\ issues.steps \subseteq affected
    /\ Affordable(p, affected)

Replan ==
    /\ pc = "revising" /\ narrow = {}
    /\ \/ /\ ~RetainedIntact
          /\ RunFails /\ UNCHANGED <<plan, version, results, space, issues, narrow, inner>>
       \/ /\ RetainedIntact
          /\ \E p \in Plans, touched \in (SUBSET Step) \ {{}} :
               IsRevision(p, touched) /\ Revise(p, Downstream(p, touched))
    /\ UNCHANGED <<lost, used, writes>>

\* The model gives no valid answer twice, another budget or the time is used
\* up, or the run is cancelled.
Abandon ==
    /\ pc \in {"planner", "executor", "judging", "revising"}
    /\ RunFails
    /\ UNCHANGED <<plan, version, results, space, issues, narrow, lost, used, inner, writes>>

PlanNext ==
    \/ Planner
    \/ \E s \in Step : Skip(s) \/ Research(s) \/ Code(s) \/ Train(s) \/ Write(s)
    \/ StartReview \/ EndReview \/ StartReplan \/ Retry \/ Replan \/ Abandon

PlanSpec == PlanInit /\ [][PlanNext]_planVars

-----------------------------------------------------------------------------
\* A run that passed rests on work that belongs together: each result succeeded
\* and was made from the results of its dependencies as they stand now, each
\* experiment was run on the source its coding step delivered, and that source
\* is still what lies in the workspaces (_revision_affected, _rules).  And the
\* charges that a revision was accepted with are there when its coding steps come:
\* the budget refuses one only where the agent has repaired by itself under the
\* same plan, which no check foresees (_check_code_repair_budget, agent.py:675).
WorkFitsTogether ==
    /\ pc = "passed" =>
         \A s \in plan.ids :
            /\ results[s].outcome = "done" /\ Intact(s)
            /\ results[s].seen = {<<d, results[d].version>> : d \in plan.deps[s]}
            /\ plan.kind[s] = "experiment" => results[s].source = results[CodeOf(s)].source
    /\ pc = "out_of_repairs" => inner

LostAgain(s, x) == lost'[s][x] > lost[s][x] /\ lost'[s][x] > 2

\* A training whose results could not be collected is not repeated on the same
\* source a second time while all source is that of the first plan: a step that
\* writes code was run again since, or was given up by a revision and is to be run
\* again, or was skipped (_check_repeated_collection_failure).  Repairs of the
\* agent's own do not count.
RepeatsAreForRepairs ==
    [][\A s \in Step, x \in Source :
          LostAgain(s, x) => \E c \in OfKind(plan, "coding") : results[c].version # 1]_planVars

\* What the docstring of _check_repeated_collection_failure says: however many
\* replans the budget has, a training is not repeated a second time on the same
\* source with no repair in between.  Here it need not be in between: not one
\* repair was charged.
NoUnchangedRepeat ==
    [][\A s \in Step, x \in Source : LostAgain(s, x) => used.repairs > 0]_planVars
=============================================================================
