---------------------------- MODULE ProjectTasks ----------------------------
(* The tasks of one project: their submission under an idempotency key, the  *)
(* synchronous runs of the API, the child tasks of both, and the removal of  *)
(* tasks and of the project from the workbench while workers, old ones among *)
(* them, go on.  What a worker does to its job is kept as short as removal   *)
(* needs; DurableQueue has it in full.                                       *)

CONSTANTS
    Client,         \* browsers with a submission on the way
    Key,            \* Idempotency-Key headers
    Body,           \* requests, by their digest
    Task            \* ids of task rows: the bound on their number

ASSUME TasksAssumption == "none" \notin Task

VARIABLES
    gone,           \* deleted_at of the project is set
    enabled,        \* the model connection the requests name is enabled
    status,         \* status[t] of the task row and its job, "none": no row
    parent,         \* parent[t]: parent_task_id
    keyed,          \* keyed[t]: idempotency key and digest of the job row of t
    owned,          \* jobs with an owner and a lease
    open,           \* jobs with a call that is not settled
    strays,         \* tasks a process works for without a claim: a worker that
                    \* lost its lease, a request of the API
    hidden,         \* roots with a task_deleted event
    request,        \* request[c]: the key and body of c's transaction
    told            \* the answers clients got: key, body and task

workVars == <<owned, open, strays>>
taskVars == <<gone, enabled, status, parent, keyed, workVars, hidden, request, told>>

None == "none"
NoJob == [key |-> None, body |-> None]
\* failed and partial are left as succeeded is.
Terminal == {"succeeded", "budget_exceeded", "cancelled"}

TaskRows == {t \in Task : status[t] # "none"}
Jobs == {t \in TaskRows : keyed[t] # NoJob}
Family(t) == {t} \cup {c \in TaskRows : parent[c] = t}
NewTask == CHOOSE t \in Task : t \notin TaskRows

TasksInit ==
    /\ gone = FALSE /\ enabled = TRUE
    /\ status = [t \in Task |-> "none"] /\ parent = [t \in Task |-> None]
    /\ keyed = [t \in Task |-> NoJob]
    /\ owned = {} /\ open = {} /\ strays = {} /\ hidden = {}
    /\ request = [c \in Client |-> NoJob]
    /\ told = {}

AddRow(t, s, p, j) ==
    /\ status' = [status EXCEPT ![t] = s]
    /\ parent' = [parent EXCEPT ![t] = p]
    /\ keyed' = [keyed EXCEPT ![t] = j]

NoNewRow == UNCHANGED <<parent, keyed>>

-----------------------------------------------------------------------------
(* Submission.                                                               *)

\* Fault: who meets the key in use is told the task whatever it asked for.
TellAnyone(c, j, t) ==
    /\ request' = [request EXCEPT ![c] = NoJob]
    /\ told' \in {told, told \cup {[key |-> j.key, body |-> j.body, task |-> t]}}

\* The answer that names task t, or a conflict: the key was used for another
\* request.  The answer may be lost; the client submits again.
Tell(c, j, t) ==
    /\ request' = [request EXCEPT ![c] = NoJob]
    /\ told' \in IF keyed[t] \in {j, NoJob}
                   THEN {told, told \cup {[key |-> j.key, body |-> j.body, task |-> t]}}
                   ELSE {told}

Holders(key) == {t \in Jobs : keyed[t].key = key}

\* The first statement of enqueue looks the key up without a lock.
Submit(c) ==
    /\ request[c] = NoJob
    /\ \E j \in [key : Key, body : Body] :
         \/ \E t \in Holders(j.key) : Tell(c, j, t)
         \/ /\ Holders(j.key) = {}
            /\ request' = [request EXCEPT ![c] = j]
            /\ UNCHANGED told
    /\ UNCHANGED <<gone, enabled, status, parent, keyed, workVars, hidden>>

\* The rest of it, under the locks of the model connection and the project: a
\* refusal, a new task with its job, or the key that another one inserted since.
EnqueueJob(c) ==
    LET j == request[c] IN
    /\ j # NoJob
    /\ \/ /\ ~enabled \/ gone
          /\ request' = [request EXCEPT ![c] = NoJob]
          /\ UNCHANGED <<status, parent, keyed, told>>
       \/ /\ enabled /\ ~gone
          /\ \E t \in Holders(j.key) : Tell(c, j, t)
          /\ UNCHANGED <<status, parent, keyed>>
       \/ /\ enabled /\ ~gone
          /\ Holders(j.key) = {} /\ TaskRows # Task
          /\ AddRow(NewTask, "queued", None, j)
          /\ Tell(c, j, NewTask)
    /\ UNCHANGED <<gone, enabled, workVars, hidden>>

SetEnabled ==
    /\ enabled' = ~enabled
    /\ UNCHANGED <<gone, status, parent, keyed, workVars, hidden, request, told>>

-----------------------------------------------------------------------------
(* Work.                                                                     *)

Work(t, s) ==
    /\ status' = [status EXCEPT ![t] = s]
    /\ NoNewRow
    /\ UNCHANGED <<gone, enabled, hidden, request, told>>

ClaimTask(t) ==
    /\ t \in Jobs /\ status[t] = "queued"
    /\ owned' = owned \cup {t}
    /\ UNCHANGED <<open, strays>>
    /\ Work(t, "running")

\* The lease ended.  The worker that had it is dead or goes on for a while.
TakeOver(t) ==
    /\ t \in owned
    /\ strays' \in {strays, strays \cup {t}}
    /\ open' \in {open, open \ {t}}
    /\ UNCHANGED owned
    /\ Work(t, status[t])

StartCall(t) ==
    /\ t \in owned \ open /\ status[t] = "running"
    /\ open' = open \cup {t}
    /\ UNCHANGED <<owned, strays>>
    /\ Work(t, status[t])

EndCall(t) ==
    /\ t \in owned \cap open
    /\ open' = open \ {t}
    /\ UNCHANGED <<owned, strays>>
    /\ Work(t, status[t])

Save(t) ==
    /\ t \in owned
    /\ owned' = owned \ {t}
    /\ UNCHANGED <<open, strays>>
    /\ \E s \in {"queued", "succeeded", "budget_exceeded"} :
         Work(t, CASE status[t] = "cancel_requested" -> "cancelled"
                   [] status[t] = "running" /\ t \in open /\ s # "budget_exceeded" ->
                        "recovery_required"
                   [] OTHER -> s)

CancelTask(t) ==
    /\ t \in Jobs
    /\ UNCHANGED workVars
    /\ \/ t \in owned /\ status[t] = "running" /\ Work(t, "cancel_requested")
       \/ status[t] \in {"queued", "recovery_required"} /\ Work(t, "cancelled")

\* A synchronous run has a task row and no job.  It is accepted on an enabled
\* model and is not started in a deleted project.
RunSync ==
    /\ enabled /\ ~gone /\ TaskRows # Task
    /\ AddRow(NewTask, "running", None, NoJob)
    /\ strays' = strays \cup {NewTask}
    /\ UNCHANGED <<gone, enabled, owned, open, hidden, request, told>>

EndSync(t) ==
    /\ t \in strays \ Jobs
    /\ strays' = strays \ {t}
    /\ UNCHANGED <<owned, open>>
    /\ Work(t, "succeeded")

\* A process without a claim notices, or dies.
EndStray(t) ==
    /\ t \in strays
    /\ strays' = strays \ {t}
    /\ UNCHANGED <<owned, open>>
    /\ Work(t, status[t])

Actors == owned \cup strays

\* Fault: the project of the parent is not looked at.
AnyTime == TRUE

\* create_task locks the project of the child and of its parent.
ProjectIsThere == ~gone

\* create_task under the task the process works for.
StartChild(t) ==
    /\ t \in Actors /\ TaskRows # Task
    /\ ProjectIsThere
    /\ AddRow(NewTask, "running", t, NoJob)
    /\ UNCHANGED <<gone, enabled, workVars, hidden, request, told>>

\* update_task of a child, which its process alone does.
EndChild(c) ==
    /\ c \in TaskRows /\ parent[c] \in Actors
    /\ status[c] = "running"
    /\ UNCHANGED workVars
    /\ Work(c, "succeeded")

-----------------------------------------------------------------------------
(* Removal.                                                                  *)

RemoveProject ==
    /\ ~gone
    /\ \A t \in TaskRows : status[t] \in Terminal
    /\ open = {}
    /\ gone' = TRUE
    /\ UNCHANGED <<enabled, status, parent, keyed, workVars, hidden, request, told>>

\* A task whose job is at an end and not owned is hidden as it stands, its
\* open calls and its children's rows included; any other only when all of it
\* is at an end.
DeleteTask(t) ==
    /\ ~gone
    /\ t \in TaskRows \ hidden /\ parent[t] = None
    /\ \/ t \in Jobs \ owned /\ status[t] \in Terminal
       \/ \A f \in Family(t) : status[f] \in Terminal /\ f \notin open \cup owned
    /\ hidden' = hidden \cup {t}
    /\ UNCHANGED <<gone, enabled, status, parent, keyed, workVars, request, told>>

TasksNext ==
    \/ \E c \in Client : Submit(c) \/ EnqueueJob(c)
    \/ \E t \in Task :
         \/ ClaimTask(t) \/ TakeOver(t) \/ StartCall(t) \/ EndCall(t) \/ Save(t) \/ CancelTask(t)
         \/ EndSync(t) \/ EndStray(t) \/ StartChild(t) \/ EndChild(t) \/ DeleteTask(t)
    \/ SetEnabled \/ RunSync \/ RemoveProject

TasksSpec == TasksInit /\ [][TasksNext]_taskVars

-----------------------------------------------------------------------------
\* Whoever is told a task under its key is told the one task that was queued
\* for this key and for its own request, however submissions of the same key
\* cross each other and however often they are repeated (enqueue).
SubmittedOnce ==
    \A a \in told : Holders(a.key) = {a.task} /\ keyed[a.task].body = a.body

\* In a deleted project nothing runs and no call is open, whatever was on its
\* way when it was deleted: a submission, a synchronous run, or the child task
\* of a worker whose claim was taken over.  A task that was hidden alone has
\* no owner and never gets one again (delete_project, delete_task).
RemovedIsAtRest ==
    /\ gone => open = {} /\ owned = {} /\ \A t \in TaskRows : status[t] \in Terminal
    /\ \A t \in hidden : t \notin owned /\ status[t] \in Terminal
=============================================================================
