------------------------- MODULE ExperimentExecution -------------------------
(***************************************************************************)
(* Training runs of one experiment step: MCPSandbox in Core submits a run, *)
(* polls it and records its outcome; ExperimentExecutionService starts it  *)
(* in the sandbox, watches the authority it was started under, publishes   *)
(* its result or gives it up.                                              *)
(*                                                                         *)
(* Left out: the checks of sources, specification, budget, data set and    *)
(* capacity, which only decide whether a submission is refused, the        *)
(* contents of artifacts, and the heartbeat, which turns an answer into    *)
(* "uncertain" at any time.                                                *)
(***************************************************************************)
EXTENDS ToolAuthority

CONSTANTS
  Training,   \* operation ids of training runs of one child task
  Submission  \* how often a submission may reach the service

VARIABLES
  place,      \* where MCPSandbox is with a call
  issued,     \* the generation in the call's context
  over,       \* calls whose deadline has passed, or whose child task is over
  revoked,    \* calls whose unit or approval is no longer what it was
  journal,    \* WorkflowJobRow.pending_calls
  record,     \* CoreToolCallRow: its status, or the answer it completed with
  taken,      \* submissions that have reached the service
  returned,   \* answers to them on their way to Core
  heard,      \* the last answer Core has received
  operation,  \* ToolOperationRow.status
  execution,  \* ExperimentExecutionRow.status
  runner,     \* the service's own task for a call
  runs        \* how often the sandbox was asked to run it

trainingVars == <<place, issued, record, heard>>
rowVars == <<operation, execution>>
runVars == <<runner, runs>>
environmentVars == <<authority, over, revoked>>
experimentVars == <<environmentVars, trainingVars, journal, taken, returned, rowVars, runVars>>

Waiting == {"queued", "running"}
RunReply == Waiting \cup {"completed", "denied", "uncertain"}

\* What a service's task for a call goes through, and the two ways it ends.
Going == {"guarded", "running"}
Runner == {"none", "fresh", "ran", "published", "stopping", "stopped", "ended"}
            \cup Going

RunsTypeOK ==
  /\ AuthorityTypeOK
  /\ place \in [Training -> {"new", "prepared", "sent", "polling", "answered",
                        "recorded", "finished", "failed", "lost"}]
  /\ issued \in [Training -> 0..MaxGeneration]
  /\ over \subseteq Training /\ revoked \subseteq Training /\ journal \subseteq Training
  /\ record \in [Training -> {"absent", "prepared", "completed", "denied"}]
  /\ taken \subseteq Training \X Submission
  /\ returned \subseteq Training \X RunReply
  /\ heard \in [Training -> RunReply \cup {"none"}]
  /\ operation \in [Training -> {"absent", "running", "completed"}]
  /\ execution \in [Training -> Waiting \cup {"absent", "completed", "uncertain",
                                          "cancelled"}]
  /\ runner \in [Training -> Runner]
  /\ runs \in [Training -> 0..1]

RunsInit ==
  /\ AuthorityInit
  /\ place = [k \in Training |-> "new"]
  /\ issued = [k \in Training |-> 0]
  /\ over = {} /\ revoked = {} /\ journal = {}
  /\ record = [k \in Training |-> "absent"]
  /\ taken = {} /\ returned = {}
  /\ heard = [k \in Training |-> "none"]
  /\ operation = [k \in Training |-> "absent"]
  /\ execution = [k \in Training |-> "absent"]
  /\ runner = [k \in Training |-> "none"]
  /\ runs = [k \in Training |-> 0]

-----------------------------------------------------------------------------
(* Authority *)

\* OperationStore.authorize for a call that changes something.
Permitted(k, g) ==
  /\ Fenced(g)
  /\ mode \in {"running", "pause_requested"}
  /\ k \notin over

\* Fault: whether another run was dispatched is not looked at.
AuthorizedRunAgain(k) ==
  /\ Permitted(k, issued[k])
  /\ record[k] = "prepared" /\ k \in journal /\ k \notin revoked

\* authorize_run: Core has prepared and journalled this very call, its unit is
\* still the one in the row, and no other training run of it was dispatched.
AuthorizedRun(k) ==
  /\ Permitted(k, issued[k])
  /\ record[k] = "prepared" /\ k \in journal /\ k \notin revoked
  /\ \A j \in Training \ {k} : execution[j] = "absent"

Environment ==
  /\ \/ AuthorityNext /\ UNCHANGED <<over, revoked>>
     \/ /\ \E k \in Training : over' = over \cup {k}
        /\ UNCHANGED <<authority, revoked>>
     \/ /\ \E k \in Training : revoked' = revoked \cup {k}
        /\ UNCHANGED <<authority, over>>
  /\ UNCHANGED <<trainingVars, journal, taken, returned, rowVars, runVars>>

-----------------------------------------------------------------------------
(* Core: MCPSandbox, InvocationRegistry and the journal *)

RunGoes(k, at) == place' = [place EXCEPT ![k] = at]
ServiceUnchanged ==
  UNCHANGED <<environmentVars, taken, returned, rowVars, runVars>>

PrepareRun(k) ==
  /\ place[k] = "new"
  /\ \E g \in 1..generation :
       /\ issued' = [issued EXCEPT ![k] = g]
       /\ \/ /\ Permitted(k, g)
             /\ record' = [record EXCEPT ![k] = "prepared"]
             /\ RunGoes(k, "prepared")
          \/ ~Permitted(k, g) /\ RunGoes(k, "failed") /\ UNCHANGED record
  /\ UNCHANGED <<journal, heard>> /\ ServiceUnchanged

DispatchRun(k) ==
  /\ place[k] = "prepared"
  /\ \/ /\ Fenced(issued[k]) /\ mode # "cancel_requested" /\ journal = {}
        /\ journal' = {k}
        /\ RunGoes(k, "sent")
     \/ /\ ~Fenced(issued[k]) \/ mode = "cancel_requested" \/ journal # {}
        /\ RunGoes(k, "failed")
        /\ UNCHANGED journal
  /\ UNCHANGED <<issued, record, heard>> /\ ServiceUnchanged

\* Core looks at an answer: it goes on polling, keeps the answer, or gives up.
Hear(k, r) ==
  /\ heard' = [heard EXCEPT ![k] = r]
  /\ RunGoes(k, IF r \in Waiting THEN "polling"
             ELSE IF r = "uncertain" THEN "lost" ELSE "answered")

ReceiveAnswer(k) ==
  /\ place[k] = "sent"
  /\ \E r \in RunReply : <<k, r>> \in returned /\ Hear(k, r)
  /\ UNCHANGED <<issued, record, journal>> /\ ServiceUnchanged

\* state: the receipt if there is one; what the row says while its heartbeat is
\* fresh; nothing otherwise.
State(k) ==
  IF operation[k] = "completed" THEN {"completed"}
  ELSE IF execution[k] \in Waiting THEN {execution[k], "uncertain"}
  ELSE {"uncertain"}

\* get_status, which only reads and therefore asks for less authority.
Poll(k) ==
  /\ place[k] = "polling"
  /\ \/ Fenced(issued[k]) /\ \E r \in State(k) : Hear(k, r)
     \/ ~Fenced(issued[k]) /\ Hear(k, "denied")
  /\ UNCHANGED <<issued, record, journal>> /\ ServiceUnchanged

\* Fault: the outcome is recorded without asking for authority.
CompleteUnfenced(k) ==
  /\ place[k] = "answered"
  /\ record' = [record EXCEPT ![k] = heard[k]]
  /\ RunGoes(k, "recorded")
  /\ UNCHANGED <<issued, heard, journal>> /\ ServiceUnchanged

CompleteRun(k) ==
  /\ place[k] = "answered"
  /\ \/ /\ Permitted(k, issued[k])
        /\ record' = [record EXCEPT ![k] = heard[k]]
        /\ RunGoes(k, "recorded")
     \/ ~Permitted(k, issued[k]) /\ RunGoes(k, "lost") /\ UNCHANGED record
  /\ UNCHANGED <<issued, heard, journal>> /\ ServiceUnchanged

FinishRun(k) ==
  /\ place[k] = "recorded"
  /\ \/ Fenced(issued[k]) /\ journal' = journal \ {k} /\ RunGoes(k, "finished")
     \/ ~Fenced(issued[k]) /\ RunGoes(k, "lost") /\ UNCHANGED journal
  /\ UNCHANGED <<issued, record, heard>> /\ ServiceUnchanged

\* A timeout, a broken connection, a damaged artifact, a crash of Core.
GiveUpRun(k) ==
  /\ place[k] \in {"prepared", "sent", "polling", "answered", "recorded"}
  /\ RunGoes(k, IF place[k] = "prepared" THEN "failed" ELSE "lost")
  /\ UNCHANGED <<issued, record, heard, journal>> /\ ServiceUnchanged

\* reconcile_calls, by the next claim or by the operator of a parked row.
ReconcileRuns ==
  /\ mode = "shut" \/ \A k \in journal : issued[k] < generation
  /\ journal' = {k \in journal : record[k] \notin {"completed", "denied"}
                                   /\ operation[k] # "completed"}
  /\ UNCHANGED trainingVars /\ ServiceUnchanged

CoreStep(k) == PrepareRun(k) \/ DispatchRun(k) \/ ReceiveAnswer(k) \/ Poll(k) \/ CompleteRun(k)
             \/ FinishRun(k) \/ GiveUpRun(k)

-----------------------------------------------------------------------------
(* Service *)

CoreUnchanged == UNCHANGED <<environmentVars, trainingVars, journal>>
Runs(k, at) == runner' = [runner EXCEPT ![k] = at]
Marked(k, s) == execution' = [execution EXCEPT ![k] = s]
Send(k, r) == returned' = returned \cup {<<k, r>>}

\* submit, which Core may no longer be waiting for.
Submit(k, d) ==
  /\ place[k] \notin {"new", "prepared", "failed"} /\ <<k, d>> \notin taken
  /\ taken' = taken \cup {<<k, d>>}
  /\ \/ /\ AuthorizedRun(k) /\ operation[k] = "absent"
        /\ operation' = [operation EXCEPT ![k] = "running"]
        /\ Marked(k, "queued")
        /\ Runs(k, "fresh")
        /\ Send(k, "queued")
     \/ /\ Permitted(k, issued[k]) /\ operation[k] # "absent"
        /\ \E r \in State(k) : Send(k, r)
        /\ UNCHANGED <<rowVars, runner>>
     \* No authority, or one of the checks that are left out.
     \/ /\ ~Permitted(k, issued[k]) \/ operation[k] = "absent"
        /\ Send(k, "denied")
        /\ UNCHANGED <<rowVars, runner>>
  /\ UNCHANGED runs /\ CoreUnchanged

Guarded(k) == AuthorizedRun(k) /\ execution[k] \in Waiting

\* The first guard, before the sandbox is asked for anything.
Guard(k) ==
  /\ runner[k] = "fresh"
  /\ \/ Guarded(k) /\ Marked(k, "running") /\ Runs(k, "guarded")
     \/ ~Guarded(k) /\ Runs(k, "stopped") /\ UNCHANGED execution
  /\ UNCHANGED <<operation, taken, returned, runs>> /\ CoreUnchanged

StartRun(k) ==
  /\ runner[k] = "guarded"
  /\ Runs(k, "running")
  /\ runs' = [runs EXCEPT ![k] = @ + 1]
  /\ UNCHANGED <<rowVars, taken, returned>> /\ CoreUnchanged

\* Fault: the watcher looks at the claim only.
WatchClaim(k) ==
  /\ runner[k] = "running" /\ ~Fenced(issued[k])
  /\ Runs(k, "stopping")
  /\ UNCHANGED <<rowVars, taken, returned, runs>> /\ CoreUnchanged

\* The watcher repeats the guard twice a second.
Watch(k) ==
  /\ runner[k] = "running" /\ ~Guarded(k)
  /\ Runs(k, "stopping")
  /\ UNCHANGED <<rowVars, taken, returned, runs>> /\ CoreUnchanged

Ran(k) ==
  /\ runner[k] = "running"
  /\ Runs(k, "ran")
  /\ UNCHANGED <<rowVars, taken, returned, runs>> /\ CoreUnchanged

\* finish: artifacts, receipt and commit under the locks of authorize.
Publish(k) ==
  /\ runner[k] = "ran"
  /\ \/ /\ Permitted(k, issued[k])
        /\ operation' = [operation EXCEPT ![k] = "completed"]
        /\ Runs(k, "published")
     \/ ~Permitted(k, issued[k]) /\ Runs(k, "stopped") /\ UNCHANGED operation
  /\ UNCHANGED <<execution, taken, returned, runs>> /\ CoreUnchanged

\* A cancellation, the deadline, a failing sandbox or database.  A task that
\* has not begun to run is cancelled without a trace.
Interrupt(k) ==
  /\ \/ runner[k] = "running" /\ Runs(k, "stopping")
     \/ runner[k] \in {"fresh", "guarded", "ran", "published"}
          /\ Runs(k, "stopped")
     \/ runner[k] = "fresh" /\ Runs(k, "ended")
  /\ UNCHANGED <<rowVars, taken, returned, runs>> /\ CoreUnchanged

\* The sandbox is told to stop and has let go of the request.
StopRun(k) ==
  /\ runner[k] = "stopping"
  /\ Runs(k, "stopped")
  /\ UNCHANGED <<rowVars, taken, returned, runs>> /\ CoreUnchanged

\* mark; on the way out its own failure is swallowed.
Mark(k) ==
  /\ \/ runner[k] = "published" /\ Marked(k, "completed")
     \/ runner[k] = "stopped" /\ Marked(k, "uncertain")
     \/ runner[k] = "stopped" /\ UNCHANGED execution
  /\ Runs(k, "ended")
  /\ UNCHANGED <<operation, taken, returned, runs>> /\ CoreUnchanged

\* control with cancel: MCPSandbox asks for it when it gives up or was denied.
Cancel(k) ==
  /\ place[k] = "lost" \/ (place[k] = "finished" /\ heard[k] = "denied")
  /\ Fenced(issued[k])
  /\ operation[k] = "running"
  /\ Marked(k, "cancelled")
  /\ UNCHANGED <<operation, taken, returned, runVars>> /\ CoreUnchanged

\* The service dies with everything it was running.
Crash ==
  /\ \E k \in Training : runner[k] \notin {"none", "ended"}
  /\ runner' = [k \in Training |-> IF runner[k] = "none" THEN "none" ELSE "ended"]
  /\ UNCHANGED <<rowVars, taken, returned, runs>> /\ CoreUnchanged

Execute(k) == Guard(k) \/ StartRun(k) \/ Watch(k) \/ Ran(k) \/ Publish(k)
                \/ Interrupt(k) \/ StopRun(k) \/ Mark(k)

-----------------------------------------------------------------------------
RunsNext ==
  \/ Environment \/ ReconcileRuns \/ Crash
  \/ \E k \in Training : CoreStep(k) \/ Execute(k) \/ Cancel(k)
  \/ \E k \in Training, d \in Submission : Submit(k, d)

RunsSpec == RunsInit /\ [][RunsNext]_experimentVars

\* The service's event loop keeps turning: its watcher runs, and a run that is
\* told to stop does.  Nothing is assumed of Core, the sandbox or the network.
Fairness == \A k \in Training : WF_experimentVars(Watch(k)) /\ WF_experimentVars(StopRun(k))

RunsFairSpec == RunsSpec /\ Fairness

-----------------------------------------------------------------------------
(* Properties *)

\* One training run per unit, whatever is submitted again, under the same or a
\* new operation id, across cancellations, crashes and takeovers (submit,
\* authorize_run).
OneTraining ==
  /\ \A k \in Training : runs[k] <= 1
  /\ \A j, k \in Training : runs[j] = 1 /\ runs[k] = 1 => j = k

\* The workflow never goes on while a run of it may still be under way: the
\* call stays in doubt, unrecorded, until the service has let go of the run; a
\* denied status poll in particular is not taken for a denied run.  And whoever
\* reports a run as completed has its receipt: the row of the execution, the
\* record in Core and the receipt are written by three transactions of two
\* processes (_run, execute, mark, state, complete, reconcile_calls).
RunsAreOnRecord ==
  \A k \in Training :
    /\ runner[k] \in Going \cup {"stopping", "ran"} => k \in journal /\ record[k] = "prepared"
    /\ record[k] = "completed" \/ execution[k] = "completed" => operation[k] = "completed"

\* A run whose workflow was taken over or cancelled, whose approval lapsed or
\* which was cancelled itself, is stopped (watch).
StaleRunStops ==
  \A k \in Training : runner[k] = "running" /\ ~Guarded(k) ~> runner[k] # "running"
=============================================================================
