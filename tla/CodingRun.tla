----------------------------- MODULE CodingRun -----------------------------
(***************************************************************************)
(* Writing code and training with it.  The coding agent lets a model edit  *)
(* the source files of a task and validates them in the sandbox, repairing *)
(* what fails; in snapshot mode, the one workflows use, it keeps a reserve *)
(* of model calls for the steps that follow.  The experiment service       *)
(* checks, tests and trains a source, and repairs it with the agent.       *)
(*                                                                         *)
(* A version stands for the whole content of the source directory.  The    *)
(* sandbox may pass or fail any run, and at any time somebody else may     *)
(* change the files: a tool operation whose answer was lost, an operator.  *)
(***************************************************************************)
EXTENDS Integers, Sequences

CONSTANTS
    Content, Empty,     \* contents of the source directory, and none
    MaxFileCalls,       \* CodingLimits.max_file_tool_calls
    SnapshotEdits,      \* 8 in the code
    MaxCodeRepairs,     \* max_repairs of the agent and of the experiment
    MaxModelCalls,      \* bound: calls left when the step begins
    MaxBatch            \* bound: tool calls of one reply

ASSUME CodingAssumption ==
    /\ Empty \notin Content
    /\ MaxFileCalls \in Nat /\ SnapshotEdits \in Nat /\ MaxCodeRepairs \in Nat
    /\ MaxModelCalls \in Nat /\ MaxBatch \in Nat \ {0}

VARIABLES
    given,          \* mode, may the experiment repair, the calls and the reserve
    phase,
    source,         \* content of the source directory
    left,           \* model calls left in the budget of the workflow
    agent,          \* CodingState
    exp,            \* the experiment's loop
    passed,         \* what succeeded in the sandbox, of which content
    codeRow         \* the task's or experiment's row, and the content trained

codingVars == <<given, phase, source, left, agent, exp, passed, codeRow>>

Snapshot == given.mode = "snapshot"
Limit == IF SnapshotEdits < MaxFileCalls THEN SnapshotEdits ELSE MaxFileCalls
Actions == <<"static_check", "run_pytest", "run_python">>

\* A review, or two and a replan between them, must be possible afterwards.
Reserve(calls, replans) == IF replans /\ calls >= 4 THEN 3 ELSE 1

NewAgent ==
    [pending |-> <<>>, calls |-> 0, retries |-> 0, repairs |-> 0, asked |-> FALSE,
     handoff |-> "none", feedback |-> FALSE, objective |-> TRUE,
     last |-> "none", snap |-> Empty, ok |-> FALSE,
     late |-> FALSE,            \* history: a write after the last look at the source
     asksWithout |-> FALSE]     \* history: a request without the objective

CodingInit ==
    /\ \E calls \in 0 .. MaxModelCalls, replans, repair \in BOOLEAN :
         /\ left = calls
         /\ given \in [mode : {"full", "snapshot", "experiment"}, repair : {repair},
                       calls : {calls}, replans : {replans}, reserve : {Reserve(calls, replans)}]
    /\ source \in IF given.mode = "full" THEN {Empty} \cup Content ELSE Content
    /\ phase = IF given.mode = "experiment" THEN "experiment" ELSE "author"
    /\ agent = NewAgent
    /\ exp = [action |-> 1, source |-> source, sha |-> source, repairs |-> 0,
              repaired |-> 1]
    /\ passed = {}
    /\ codeRow = [status |-> "running", sha |-> Empty, trained |-> Empty]

\* The row of the experiment, or of the task, gets its last status.
Closes(status) == phase' = "done" /\ codeRow' = [codeRow EXCEPT !.status = status]
CodingFails == Closes("failed")

\* A budget, a lost answer, a cancellation.
Interrupted ==
    /\ phase # "done" /\ CodingFails
    /\ UNCHANGED <<given, source, left, agent, exp, passed>>

(***************************************************************************)
(* The author node.                                                        *)
(***************************************************************************)
\* Fault: the reserve counts as calls of the author.
TriggerAtZero ==
    CASE ~Snapshot -> "none"
      [] Snapshot /\ agent.calls >= Limit -> "edit_limit"
      [] Snapshot /\ agent.calls < Limit /\ left = 0 -> "model_call_reserve"
      [] OTHER -> "none"
\* _completion_trigger: no more edits, or only the reserve is left.
Trigger ==
    CASE ~Snapshot -> "none"
      [] Snapshot /\ agent.calls >= Limit -> "edit_limit"
      [] Snapshot /\ agent.calls < Limit /\ left <= given.reserve -> "model_call_reserve"
      [] OTHER -> "none"

\* Only what ends in an edit that worked may be validated without being submitted.
MayHandOff == agent.asked /\ ~agent.feedback /\ agent.last = "edit"

HandsOff ==
    /\ phase = "author" /\ Trigger # "none"
    /\ IF MayHandOff
       THEN /\ agent' = [agent EXCEPT !.pending = <<>>, !.handoff = Trigger]
            /\ phase' = "static" /\ UNCHANGED codeRow
       ELSE CodingFails /\ UNCHANGED agent
    /\ UNCHANGED <<given, source, left, exp, passed>>

MayAsk == phase = "author" /\ Trigger = "none" /\ agent.calls < MaxFileCalls

OutOfFileCalls ==
    /\ phase = "author" /\ Trigger = "none" /\ agent.calls >= MaxFileCalls
    /\ CodingFails
    /\ UNCHANGED <<given, source, left, agent, exp, passed>>

\* A call is made: in a workflow it is charged to the budget.
Asks == left' = IF Snapshot THEN left - 1 ELSE left
Asked == [agent EXCEPT !.asked = TRUE, !.asksWithout = @ \/ ~(Snapshot \/ agent.objective)]

\* _route_after_author
AfterAuthor(a) ==
    IF a.handoff # "none" THEN "static"
    ELSE IF a.pending = <<>> THEN "author"
    ELSE IF a.pending[1] = "ready" THEN "static" ELSE "tool"

\* The reply breaks a tool's schema: one correction is asked for in snapshot mode.
AuthorBreaksSchema ==
    /\ MayAsk /\ Asks
    /\ IF Snapshot /\ agent.retries < 1
       THEN /\ agent' = [Asked EXCEPT !.retries = @ + 1, !.pending = <<>>,
                                      !.handoff = "none", !.feedback = TRUE]
            /\ phase' = "author" /\ UNCHANGED codeRow
       ELSE CodingFails /\ agent' = Asked
    /\ UNCHANGED <<given, source, exp, passed>>

\* No call, or in snapshot mode more than one or one that is too large: asked
\* again once.  What was pending before stays pending.
AuthorMisses ==
    /\ MayAsk /\ Asks
    /\ IF agent.retries < 1
       THEN /\ agent' = [Asked EXCEPT !.retries = @ + 1, !.feedback = TRUE]
            /\ phase' = AfterAuthor(agent') /\ UNCHANGED codeRow
       ELSE CodingFails /\ agent' = Asked
    /\ UNCHANGED <<given, source, exp, passed>>

\* In snapshot mode there are two kinds of calls, and one of them in a reply.
Batches ==
    IF Snapshot THEN {<<"edit">>, <<"ready">>}
    ELSE UNION {[1 .. n -> {"edit", "other", "ready"}] : n \in 1 .. MaxBatch}

AuthorReplies ==
    /\ MayAsk /\ Asks
    /\ \E batch \in Batches :
         /\ IF \E i \in 1 .. Len(batch) - 1 : batch[i] = "ready"
            THEN CodingFails /\ agent' = Asked
            ELSE /\ agent' = [Asked EXCEPT
                        !.pending = batch, !.feedback = FALSE,
                        !.retries = IF Snapshot THEN @ ELSE 0,
                        !.handoff = IF batch[1] = "ready" THEN "model_ready" ELSE "none"]
                 /\ phase' = AfterAuthor(agent') /\ UNCHANGED codeRow
    /\ UNCHANGED <<given, source, exp, passed>>

(***************************************************************************)
(* The tool node runs the first pending call.                              *)
(***************************************************************************)
\* _route_after_tool: what is pending first; the author hands off as this edge would.
AfterTool(a) ==
    IF a.pending # <<>> THEN (IF a.pending[1] = "ready" THEN "static" ELSE "tool")
    ELSE "author"

ToolRefused ==
    /\ phase = "tool"
    /\ agent.calls >= MaxFileCalls \/ (Snapshot /\ agent.calls >= SnapshotEdits)
    /\ CodingFails
    /\ UNCHANGED <<given, source, left, agent, exp, passed>>

\* A file is replaced as a whole, or nothing is written: then the call failed.
Writes == Content

PendingRuns ==
    /\ phase = "tool"
    /\ agent.calls < MaxFileCalls /\ (Snapshot => agent.calls < SnapshotEdits)
    /\ \E works \in BOOLEAN :
         /\ source' \in IF works /\ agent.pending[1] = "edit" THEN Writes ELSE {source}
         /\ agent' = [agent EXCEPT !.pending = Tail(@), !.calls = @ + 1,
                        !.last = IF works THEN agent.pending[1] ELSE "failed"]
    /\ phase' = AfterTool(agent')
    /\ UNCHANGED <<given, left, exp, passed, codeRow>>

\* An edit is previewed in snapshot mode: where the next request, which carries
\* the whole source, would be too large with it, nothing is written.
EditTooLarge ==
    /\ phase = "tool" /\ Snapshot /\ agent.pending[1] = "edit"
    /\ agent.calls < MaxFileCalls /\ agent.calls < SnapshotEdits
    /\ agent' = [agent EXCEPT !.pending = Tail(@), !.calls = @ + 1, !.last = "failed"]
    /\ phase' = AfterTool(agent')
    /\ UNCHANGED <<given, source, left, exp, passed, codeRow>>

(***************************************************************************)
(* The validate node: static checks, then pytest, of one snapshot.         *)
(***************************************************************************)
\* A run is recorded, with its log, whether it succeeded or not.
Recorded(content, action, ok) ==
    passed' = IF ok THEN passed \cup {<<content, action>>} ELSE passed

SomebodyWrites ==
    /\ phase # "done"
    /\ source' \in Content \ {source}
    /\ agent' = [agent EXCEPT !.late = @ \/ phase = "finalize"]
    /\ UNCHANGED <<given, phase, left, exp, passed, codeRow>>

Static ==
    /\ phase = "static" /\ source # Empty
    /\ \E ok \in BOOLEAN :
         /\ agent' = [agent EXCEPT !.snap = source, !.ok = ok]
         /\ Recorded(source, "static_check", ok)
         /\ phase' = IF ok THEN "pytest" ELSE "conclude"
    /\ UNCHANGED <<given, source, left, exp, codeRow>>

NothingWritten ==
    /\ phase = "static" /\ source = Empty
    /\ CodingFails
    /\ UNCHANGED <<given, source, left, agent, exp, passed>>

Pytest ==
    /\ phase = "pytest"
    /\ \E ok \in BOOLEAN :
         /\ agent' = [agent EXCEPT !.ok = ok]
         /\ Recorded(agent.snap, "run_pytest", ok)
    /\ phase' = "conclude"
    /\ UNCHANGED <<given, source, left, exp, codeRow>>

Validated == [agent EXCEPT !.last = "other"]

ValidationFails ==
    /\ phase = "conclude"
    /\ \/ source # agent.snap
       \/ ~agent.ok /\ (agent.repairs >= MaxCodeRepairs \/ Trigger # "none")
    /\ CodingFails
    /\ UNCHANGED <<given, source, left, agent, exp, passed>>

\* The conversation is emptied, and the diagnostic takes its place.
RepairIsAsked ==
    /\ phase = "conclude" /\ source = agent.snap /\ ~agent.ok
    /\ agent.repairs < MaxCodeRepairs /\ Trigger = "none"
    /\ agent' = [Validated EXCEPT !.repairs = @ + 1, !.objective = FALSE, !.handoff = "none"]
    /\ phase' = "author"
    /\ UNCHANGED <<given, source, left, exp, passed, codeRow>>

ValidationPasses ==
    /\ phase = "conclude" /\ source = agent.snap /\ agent.ok
    /\ agent' = [Validated EXCEPT !.handoff = IF @ # "none" THEN @ ELSE Trigger]
    /\ phase' = "finalize"
    /\ UNCHANGED <<given, source, left, exp, passed, codeRow>>

(***************************************************************************)
(* The finalize node has run, and whoever asked for the code reads it from *)
(* the workspace anew.                                                     *)
(***************************************************************************)
\* A workflow refuses source without the two files that training needs.
CodeIsHandedOver ==
    /\ phase = "finalize" /\ given.mode # "experiment"
    /\ Closes("succeeded") \/ (Snapshot /\ CodingFails)
    /\ UNCHANGED <<given, source, left, agent, exp, passed>>

\* Fault: the digest is the one of the source before the repair.
KeepsDigest == [exp EXCEPT !.source = source, !.repairs = @ + agent.repairs]
\* The experiment goes on with what lies in the workspace now, which nobody compares
\* with what the agent validated.
AfterRepair ==
    [exp EXCEPT !.source = source, !.sha = source, !.repairs = @ + agent.repairs]

ExperimentResumes ==
    /\ phase = "finalize" /\ given.mode = "experiment"
    /\ exp' = AfterRepair
    /\ phase' = "experiment"
    /\ UNCHANGED <<given, source, left, agent, passed, codeRow>>

(***************************************************************************)
(* The experiment: static_check, run_pytest and run_python of one source.  *)
(* Training is recorded with the digest of the source before it starts.    *)
(***************************************************************************)
Starts ==
    IF Actions[exp.action] = "run_python" THEN [codeRow EXCEPT !.sha = exp.sha] ELSE codeRow

ActionSucceeds ==
    /\ phase = "experiment"
    /\ passed' = passed \cup {<<exp.source, Actions[exp.action]>>}
    /\ exp' = [exp EXCEPT !.action = IF @ = 3 THEN 3 ELSE @ + 1]
    /\ IF exp.action = 3
       THEN codeRow' = [Starts EXCEPT !.trained = exp.source] /\ phase' = "artifacts"
       ELSE UNCHANGED <<codeRow, phase>>
    /\ UNCHANGED <<given, source, left, agent>>

ActionFails ==
    /\ phase = "experiment"
    /\ IF given.repair /\ exp.repairs < MaxCodeRepairs
       THEN /\ exp' = [exp EXCEPT !.repairs = @ + 1, !.repaired = exp.action]
            /\ agent' = NewAgent
            /\ phase' = "author" /\ codeRow' = Starts
       ELSE /\ phase' = "done" /\ codeRow' = [Starts EXCEPT !.status = "failed"]
            /\ UNCHANGED <<exp, agent>>
    /\ UNCHANGED <<given, source, left, passed>>

\* The artifacts that training must leave, their digests, and the configuration the
\* metrics name are checked.
ResultsRefused ==
    /\ phase = "artifacts"
    /\ CodingFails
    /\ UNCHANGED <<given, source, left, agent, exp, passed>>

\* One after the other they are validated, written as new files and recorded; where
\* that fails, what was saved before stays.
SavesArtifacts ==
    /\ phase = "artifacts"
    /\ (phase' = "saved" /\ UNCHANGED codeRow) \/ CodingFails
    /\ UNCHANGED <<given, source, left, agent, exp, passed>>

ExperimentSucceeds ==
    /\ phase = "saved"
    /\ Closes("succeeded")
    /\ UNCHANGED <<given, source, left, agent, exp, passed>>

CodingNext ==
    \/ Interrupted \/ HandsOff \/ OutOfFileCalls
    \/ AuthorBreaksSchema \/ AuthorMisses \/ AuthorReplies
    \/ ToolRefused \/ PendingRuns \/ EditTooLarge
    \/ SomebodyWrites \/ Static \/ NothingWritten \/ Pytest
    \/ ValidationFails \/ RepairIsAsked \/ ValidationPasses
    \/ CodeIsHandedOver \/ ExperimentResumes
    \/ ActionSucceeds \/ ActionFails
    \/ ResultsRefused \/ SavesArtifacts \/ ExperimentSucceeds

CodingSpec == CodingInit /\ [][CodingNext]_codingVars

(***************************************************************************)
(* Properties                                                              *)
(***************************************************************************)
\* What is accepted was checked and tested as it is: code as it is handed over; an
\* experiment's training as it ran, whichever of its three actions was repaired and
\* by how many runs of the agent, and the digest in its row is the digest of that
\* content.  Writes of others are noticed, except where nobody looks again: between
\* the agent's last look at the source (agent.py:653) and the reading of it by the
\* workflow (orchestration/service.py:718) or by the experiment
\* (experiment/service.py:263).  Even then what an experiment trains passed every
\* action from the repaired one on.
TrainedWasTested ==
    codeRow.status = "succeeded" =>
        IF given.mode = "experiment"
        THEN /\ codeRow.sha = codeRow.trained
             /\ \A i \in 1 .. 3 :
                  \/ <<codeRow.trained, Actions[i]>> \in passed
                  \/ agent.late /\ i < exp.repaired
        ELSE agent.late \/ \A i \in 1 .. 2 : <<source, Actions[i]>> \in passed

\* Coding in a workflow leaves a call for the review, and three for a review, a
\* replan and the last review when there were enough; corrections of rejected
\* replies included (agent.py:364-390, orchestration/service.py:703-715).
ReserveIsKept ==
    given.mode = "snapshot" =>
        /\ given.calls >= 1 => left >= 1
        /\ given.replans /\ given.calls >= 4 => left >= 3

\* Coding cannot hand off an unresolved protocol failure (agent.py:402-411): nothing
\* is accepted while the last reply of the model was one that had to be refused.
RefusedIsNotAccepted == codeRow.status = "succeeded" => ~agent.feedback

\* The objective appears in the initial user message (agent.py:291), which every
\* request of the full mode carries.
ObjectiveIsSent == ~agent.asksWithout
=============================================================================
