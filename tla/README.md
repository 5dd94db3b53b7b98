# Specifications of AutoScholar

AutoScholar runs research tasks on the user's own machine: a task is planned,
its steps search, read, write code and train models, and the result is reviewed
and written up. A task may run for hours, spends money on every model call, and
must survive the death of any process. These TLA+ modules describe the part of
the program that makes this work, and the parts that live beside it: documents,
memory, admission, sandbox, evaluation, deployment. The configurations check
them on small instances with TLC, and the `*Proofs` modules prove the main
properties for every size with TLAPS.

Contents: [the system](#1-the-system) · [modules](#2-modules) ·
[runs](#3-runs) · [bounds](#4-bounds) · [fairness](#5-fairness) ·
[proofs](#6-proofs) · [findings and observations](#7-findings-and-observations) ·
[not modelled](#8-what-is-not-modelled) · [plan](#9-plan)

Paths below are relative to `src/src/autoscholar/` unless they begin with `web/`
or `tests/`.

## 1. The system

### Processes

| process | code | what it does |
| --- | --- | --- |
| Core API | `api/`, `main.py` | HTTP: creates tasks, controls them, decides approvals, streams events |
| worker | `orchestration/worker.py`, `durable.py` | claims a workflow, executes it unit by unit, keeps its lease alive |
| tool services | `tool_platform/*_server.py` | filesystem, git, research and experiment tools behind MCP over HTTP |
| document worker | `rag/worker.py` | parses, embeds and indexes uploaded PDFs; the deployment runs one |
| sandbox manager | `sandbox/` | runs code in throw-away containers |
| browser | `web/src` | shows a task and follows its events |
| operator's commands | `deployment/`, `evaluation/` | back up and restore a deployment; run paid evaluations once |

They share PostgreSQL, and little else: Redis holds the admission counters,
Qdrant the vectors, two volumes the workspaces and artifacts. Any number of
workers and API processes may run.

### Components

**Durable workflow queue** (`orchestration/durable_repository.py`).
State: one `WorkflowJobRow` per task with status, owner, lease, generation,
the unit that was begun (`active`), the calls in doubt (`pending_calls`), the
usage counters and the checkpoint number; the chain of checkpoints.
Operations: enqueue, claim, heartbeat, begin, journal, save, quarantine,
control (pause, resume, cancel), reconcile_calls, queue_reconciled. Each is one
transaction that locks the row first.
Correct when: one owner at a time, and only while leased; a claim that was
replaced changes nothing any more; a finished workflow stays finished; a begun
unit is settled before anything else begins; a call whose outcome is unknown is
never treated as one that did not happen.

**Approvals** (`orchestration/approvals.py`).
State: one row per operation hash: pending, approved, rejected, superseded,
expired, consumed. Operations: gate, approve, reject, modify; expiry by time.
`decide` reads the snapshot *before* it locks the row.
Correct when: a costly experiment runs only on an approval that it consumes,
once, and that was given for the plan version that runs; a decision never
overwrites a newer checkpoint.

**Durable worker and recovery desk** (`orchestration/durable.py`).
State: in memory, what one execution has loaded: snapshot, budget, the unit it
is in. Operations: tick and its heartbeat, `_execute` (load, settle what the
last worker left, gate, begin, unit, save), `reconcile` by an operator.
Correct when: a unit is never run twice; recovery goes by records only; a
workflow comes to rest by itself, ended or waiting for a person.

**Autonomous graph** (`orchestration/service.py`, `repository.py`,
`research/quality.py`).
State: plan rows per version, step rows per version and step, reviews per
version. Operations: planner, executor, quality, reviewer, replanner, writer.
These rows are written in transactions of their own, *without* the fence.
Correct when: what a checkpoint says about a step is what its row says, and a
success has a passing review of its own plan version.

**Journal and budget** (`core/journal.py`, `core/budget.py`).
State: counters, in memory and on the row. Operations: reserve, start, finish,
reject locally. Correct when: nothing sent is uncounted, across restarts.

**Workflow events and their stream** (`api/workbench_repository.py`,
`workbench_events.py`, `web/src/events.tsx`, `web/src/api.ts`).
State: `event_sequence` of a task and its event rows; a cursor per stream; a
cursor and a connection state per view. Operations: append (inside every
transaction above, and in memory and deletion, which lock other rows), page,
stream, rotate, reconnect; guarded decisions that compare what the person saw.
Correct when: numbers have no gap at any commit order; a view shows every event
once and in order and says "over" only at the end; a decision is made on what
is current.

**Tool platform** (`tool_platform/gateway.py`, `registry.py`, `operations.py`
and the servers). State: a `CoreToolCallRow` per call in Core, a
`ToolOperationRow` (the receipt) in the service. Operations: prepare, invoke,
complete; authorize, reserve, act, commit; reconcile by receipt.
Correct when: a call has at most one effect, only under a live claim, and what
is recorded is what happened.

**Experiment execution** (`tool_platform/experiment_service.py`,
`experiment_adapter.py`). State: an `ExperimentExecutionRow` beside the receipt;
a task per run in the service. Operations: submit, guard, watch, publish,
cancel; in Core submit and poll. Correct when: a unit trains at most once; a run
without authority is stopped; the workflow does not go on beside a running one.

**Leases of a workflow** (`orchestration/durable.py`, `durable_repository.py`).
State: when the lease ends, when each worker last heard that it has it.
Operations: claim, the wait of a third of the lease, heartbeat, giving up.
Correct when: whoever still executes a job owns it, although a lease is stamped
with the time before its transaction waited for a lock.

**Plan and repair** (`orchestration/service.py`). State: the plan of an
experiment workflow, what each step was made from, the source in the workspaces
of coding steps. Operations: plan, step, skip, review, replan, repeat.
Correct when: a result that is kept still fits the plan, a training is not
repeated for nothing, and the repairs that a revision was accepted with are
still in the budget when its coding steps come, as far as the check can know.

**Report quality** (`research/quality.py`, `materials.py`). State: the bundle of
materials, the two screenings, the draft with its claims, the last review.
Operations: screen, read, draft, review, supplement, revise, each with a
checkpoint. Correct when: every claim of a finished report rests on a material
that was kept and on text the bundle had.

**Agents** (`agent/runner.py`) and **coding agent** (`coding/agent.py`,
`experiment/service.py`). State: the graph's memory, the task's row, what was
sent and paid. Operations: the nodes, their retries, refusals and routes;
editing, validating, repairing and training.
Correct when: a success has what it claims, every request is counted, code that
trains is the code that was tested, as long as somebody looks, and the calls
later steps need are left.

**Model calls and usage ledger** (`llm/`, `core/journal.py`, `core/budget.py`).
State: budget, open journal entry, ledger row. Operations: reserve, start,
record the answer, report. Correct when: every request that left has a row, and
the summary adds up what the rows say.

**Document ingestion and questions** (`rag/`). State: the row and chunks of a
document, its points in the index, its file, the table of jobs.
Operations: upload, claim, parse, embed, index, retry, delete, ask.
Correct when: what is shown as ready can be searched, what was deleted left
nothing, and nothing stays half done. Jobs are leased but carry no fencing
token; the four places share no transaction.

**Project tasks** (`api/routes/workflows.py`, `api/workbench_repository.py`).
State: task rows, job rows with an idempotency key, children. Operations:
submit, create a child, run in the request, hide a task, delete a project.
Correct when: a key makes one workflow, and what was removed is at rest.

**Project memory** (`orchestration/memory.py`). State: lessons, which are off,
which a run was shown. Operations: learn, switch, show. Correct when: a lesson
is of a run that succeeded and of the plan that cured the problem.

**Request admission** (`api/governance.py`, `core/admission.py`,
`infrastructure/admission.py`, `core/audit.py`). State: slots and rates in
Redis with their expiry, what each process believes, audit rows. Operations:
acquire, renew, release, audit. Correct when: no more run than the limit, no
critical result is told without its record, and slots come back.

**Sandbox runner** (`coding/sandbox.py`, `sandbox/manager.py`). State: slots,
the engine's volumes and containers. Operations: an execution call by call, and
its cleanup. Correct when: what is left behind is named in the log.

**Git import** (`tool_platform/git_server.py`, `git_manager.py`). State:
receipts, staging directories, repositories, a task's source files. Operations:
reserve, fetch, authorize, publish file by file, record. Correct when: the
receipt says what happened to the sources, and two services together keep
within the limit.

**Evaluation campaigns** (`evaluation/live_ablation*.py`) and **neural
inference** (`evaluation/neural_*.py`). State: claim files, ledgers and records
on disk; a pair of pipes to a container. Operations: claim, reserve, dispatch,
settle, accept; call, fail, cancel, close. Correct when: what an approval allows
is spent once and every request is on the ledger; an answer goes to whoever
asked, and a verified cleanup left nothing.

**Deployment operations** (`deployment/`). State: data and services of a
deployment, backup folders. Operations: maintenance, backup, verify, restore,
switch of images, resume. Correct when: what is accepted as a backup or as a
restored deployment is one moment of the data.

### How they interact

```
 person ── control, decide ──►  WorkflowJobRow  ◄── claim, begin, journal, save ── worker
   ▲                             │ (row lock)  ▲                                   │
   │ events                      │             │ authorize (same lock)             │ invoke
   └──────── stream ◄── events ──┘             └────────── tool service ◄──────────┘
                                                            │ receipt, effect
                                                            └─► experiment service ─► sandbox
```

Everything hard is about this row. A worker that has lost its lease does not
know it; a tool service may carry out a request long after the worker that sent
it is gone; a person clicks on a page that is out of date; the answer to a call
that cost money is lost. The program's answers are a fencing token (owner and
generation) checked under the row lock by everyone, a journal of calls written
before they are sent, receipts in the services, and checkpoints that are only
ever extended. Away from the row the same difficulties return with weaker means:
documents, sandbox, evaluation and backups have no fence, and rely on the order
of their steps, on expiry, on files created exclusively, or on the operator.
`PROJECT.json` lists the hazards at their lines.

## 2. Modules

```
 EventFeed ◄─implements─ WorkflowEvents           ToolAuthority ◄─────────── EXTENDS
                                                        ▲                ┌──────┴───────┐
 DurableQueue ──implements (Granted as mode)────────────┘         ToolOperations  ExperimentExecution
      ▲  ▲ EXTENDS and implements
      │  └── DurableWorker
      └───── (approvals are part of it)

 on their own:  LeaseTiming   PlanRepair   ResearchQuality   AgentRunner   CodingRun   ModelCalls
                DocumentIngestion   ProjectTasks   ProjectMemory   RequestAdmission   SandboxRunner
                GitImport   EvaluationCampaign   NeuralWorker   Maintenance
```

| module | models | its variables are | one action is |
| --- | --- | --- | --- |
| `DurableQueue` | `DurableRepository`, `ApprovalService` | the columns of one row, its approvals, the claims ever handed out, the snapshots decisions are based on | one transaction, by any caller with any old claim |
| `DurableWorker` | `DurableService`, `AutonomousService`, their tables, budget and journal | per worker a program counter and what it holds in memory; plan, step and review rows; the desk's reconcile | one transaction or one decision between two |
| `LeaseTiming` | the waits of `DurableService.tick` and the times that `claim` and `heartbeat` write | what is left of the lease, who holds the row lock, per worker its timer and the transaction it waits for | reading the clock, getting the lock, committing, hearing of it, a tick |
| `ToolAuthority` | what `OperationStore.authorize` sees of the row | generation and what the newest claim may do | a takeover, a request of the user, the end of the claim |
| `ToolOperations` | `ToolGateway`, `InvocationRegistry`, `OperationStore` | both rows of a call, each delivery's place, the lock, answers in flight, effects | one transaction, message or death |
| `ExperimentExecution` | `MCPExperimentSandbox`, `ExperimentExecutionService` | rows of call, operation and execution, the service's task, submissions and answers in flight | one transaction, message, guard or death |
| `GitImport` | the clone operation of the git service beside the one that writes a file | receipts, staging, repositories, sources, the lock | reserve, fetch, check of the claim, one file, the record, a death |
| `EventFeed` | (abstract) what a person following a task is promised | length of the log, what was shown, whether it is over | publish, open, show, finish |
| `WorkflowEvents` | `event`, `expect`, `events`, `event_stream`, `events.tsx` | log and locks, open transactions, server, frames and view | one statement, frame or client step |
| `PlanRepair` | planning, execution, review and replanning of an experiment workflow | plan, results with what they were made from, workspaces, last review, budget with the repairs of the coding agent | one node of the graph, or a write of somebody else |
| `ResearchQuality` | `advance` and its passes, the bundle of materials | materials, bundle, assessments, draft, review, budget | one pass with its answer, a search, a refusal, a death |
| `AgentRunner` | the agent's graph, its retries, the task's row | what it was asked, the node, its memory, the row, what was sent | one node, by the way its call ended |
| `CodingRun` | the coding agent in both modes, the experiment loop | source, model calls left, conversation, loop, what passed the sandbox | a reply, a tool, a sandbox run, a look at the source, a training, a hand-over, a write of somebody else |
| `ModelCalls` | budget, journal, provider call, usage rows, the summary | budget in memory and saved, journal, rows, what the provider saw | one of these steps, a failure or a death |
| `DocumentIngestion` | the document tables, worker, index, deletion and question | rows, chunks, points, files, jobs, the worker's place, the question's | one transaction, one write to the index, a crash |
| `ProjectTasks` | submission, children, requests, removal | tasks, job keys, who works for what, requests and answers | one transaction |
| `ProjectMemory` | learning, choosing, switching off | plans, faults, lessons, what runs were shown | one transaction |
| `RequestAdmission` | middleware, its Redis scripts, keeper, audit | slots and rates with their time, commands on the way, requests, keepers, audit rows | a command sent, carried out or answered; a tick; a death |
| `SandboxRunner` | the manager's slots and the life of an execution | requests, slots, objects of the engine, log | one engine call by the way it ended |
| `EvaluationCampaign` | pilot, second version and continuation | claim files, ledgers, processes, requests sent | one file operation, request or answer; a death |
| `NeuralWorker` | client, pipes, worker loop, cleanup | container, client process, pipes, callers, lock | a write, a read, a cancellation, one step of closing |
| `Maintenance` | the operator's commands | moments of the data, services, images, folders, the command | one step of a command, a write of the application, a failure, a death |

The theorems are in `DurableQueueProofs`, `DurableWorkerProofs`, `WorkerRecordsProofs`,
`ToolsProofs`, `LimitsProofs`, `ProjectsProofs`, `TasksProofs` and `ReportsProofs`;
[section 6](#6-proofs) says which is about what.

Conventions. Names are the code's where TLA+ allows it; a comment before a
definition says which function it is where the name does not. Operators whose
comment begins with `Fault:` are not part of any specification: each is a
plausible bug in the definition that follows it, and replaces that definition to
see that a property would notice. Bounds are constants called `Max...`; they
appear as guards.

Correspondence worth knowing:

* *Transactions are atomic at the row lock.* Transactions of the queue take
  `SELECT ... FOR UPDATE` on the one row before they look at anything, so they
  are actions. Where code reads before the lock (`decide`, `reconcile`,
  `_execute`), the read is a separate action and what it read is kept in a
  variable (`prior`, `desk`, `run`). Where the wait for the lock itself matters,
  or a transaction is left open (`LeaseTiming`, `WorkflowEvents`, `GitImport`), its
  parts are actions of their own.
* *Time.* In `DurableQueue` the lease counts down with `Tick` and is checked where
  the code compares `lease_until` with the clock. `LeaseTiming` and
  `RequestAdmission` have timers, and a tick is not possible while a timer is due:
  that is how "waits at most" is said.
* *Claims never disappear* from `claims`: a caller may use an old one at any moment.
* *Units.* `active` is a triple of plan version, unit, and whether an operation
  hash was stored with it; an operation hash is identified with the pair of
  version and experiment step.
* *Two pieces of the checkpoint.* `DurableQueue` keeps its number, the number it
  was computed from and the plan version; `DurableWorker` adds stage, results
  and quality phase.
* `DurableWorker` **extends** `DurableQueue` and conjoins the queue's actions
  with its own program counters, so that the refinement is an implication
  (`WorkerSpec => Spec`) without a substitution.
* `Granted` maps the row to the `mode` of `ToolAuthority`: the status while the
  row is owned and its lease lasts, otherwise `"shut"`. `ToolOperations` and
  `ExperimentExecution` extend `ToolAuthority`, so what they show holds against
  every behaviour of the queue.
* In `ExperimentExecution` the heartbeat's age is not counted: an unfinished run
  may be reported as `uncertain` at any time. One service process is modelled
  (the column `owner` then never differs). Core and service agree on the time.
* *Content is identity.* In `CodingRun` and `PlanRepair` a value stands for
  everything that lies in a source directory, and a digest is that value. In
  `Maintenance` the data of a part is the moment at which it was copied, and the
  history says what the counters were at each moment.
* *The outside answers as it likes.* A call of a model, a provider, the container
  engine or a tool ends in every way the code tells apart: answered, refused,
  unusable, lost before or after its effect, late.

## 3. Runs

| run | states | its parts | what it asks |
| --- | --- | --- | --- |
| `worker_recovery` | 587 k | `DurableWorker`, one worker, crashes, interrupts, corruption, an operator | `SentCallsAreCounted`, `RequeueNeedsEvidence`; liveness: `WorkflowRests` |
| `worker_race` | 1.1 M | `DurableWorker`, two workers, one of which outlives its lease | `StepRowsAreSound`, `CancelIsHonoured`, `DoubtResolvedByReceipt`; the queue's specification is implemented (`Spec`), and it implements `ToolAuthority` |
| `worker_approvals` | 238 k | `DurableWorker`, replanning, a user's decisions on a gated experiment | `VerdictEarned`, `GatedUnitPaid`, `NoLostCheckpoint` |
| `tools` | 1.7 M | `ToolOperations`, `ExperimentExecution` | `SettledCallsAreTrue`, `EffectsAreAuthorized`, `RunsAreOnRecord`, `OneTraining`; liveness: `StaleRunStops` |
| `projects` | 892 k | `DocumentIngestion`, `ProjectTasks`, `ProjectMemory`, `ResearchQuality`, `Maintenance` | `DocumentsAreTrue`, `SubmittedOnce`, `RemovedIsAtRest`, `LessonsAreVerified`, `ReportIsSupported`, `BackupIsOneMoment`; liveness: `DocumentsSettle` |
| `limits` | 535 k | `LeaseTiming`, `RequestAdmission`, `SandboxRunner`, `ModelCalls`, `WorkflowEvents`, `NeuralWorker`, `GitImport` | `OneExecution`, `RunningIsBounded`, `EngineIsAccounted`, `LedgerIsTrue`, `DecisionsAreCurrent`, `NothingLeftOver`, `ClonesAreKnown`, `FeedIsImplemented`; liveness: `SlotsReturn`, `ViewsSettle` |
| `tasks` | 2.8 M | `PlanRepair`, `AgentRunner`, `CodingRun`, `EvaluationCampaign` | `WorkFitsTogether`, `RepeatsAreForRepairs`, `SuccessIsEarned`, `CallsAreAccounted`, `TrainedWasTested`, `ReserveIsKept`, `CampaignIsAccounted` |
| `event_ending`, `tool_pause`, `coding_refused`, `coding_objective`, `plan_repeat` | | `WorkflowEvents`, `ToolOperations`, `CodingRun`, `PlanRepair` | violated: see [findings](#7-findings-and-observations) |

**Side by side.** The last four passing runs check several components that do
not touch each other's state. A variable `which` is chosen in the initial state,
and from then on only that component moves; the others stay in an initial state,
where nothing is due of them. The states are the sum of the components' and not
their product, and every property is checked on its component exactly as if that
component were alone. Fairness of a component is guarded by `which` where it
would otherwise be owed in vain.

What the properties mean is said above each of them in its module. The ones that
took most to get right:

* `RequeueNeedsEvidence`: the operator's evidence is collected before the lock;
  it must still hold when the row is queued.
* `StepRowsAreSound` and `VerdictEarned` relate checkpoints to tables that are
  written by other, unfenced transactions. Together they say that a workflow
  which succeeds has, for each step, a row in which the step itself recorded its
  success once, and a review of the final plan that passed.
* `SettledCallsAreTrue`: answers may belong to an earlier or later delivery of
  the same call. A denial that is on its way while another delivery acts would
  be a lie; authority only shrinks, so there is none.
* `RunsAreOnRecord`: a status poll may be answered "denied" while the sandbox
  trains. The adapter treats that as the outcome of the run; only because
  recording it asks for the same authority does it never get recorded.
* `DocumentsAreTrue`: four places (row, chunks, index, file) and no common
  transaction. What holds is an order of writes, and it holds because whoever
  writes is alone.
* `OneExecution`: a lease is stamped before the transaction waits for its lock, so
  it is shorter than it looks by that wait; twice a third is just enough.
* `RunningIsBounded`: the renewal that did arrive and the one that did not look
  alike to the process; it has to stop in time for the worse of the two, and its
  last command may still arrive after that.
* `WorkFitsTogether`: which results a revision may keep is computed from the
  plans, not from the files; the property compares the files. Its second part is
  about money: a revision is accepted only if its coding steps can be charged one
  repair each, but the coding agent charges its own repairs to the same budget, so
  the budget may refuse a step all the same. The property says that this is the only
  way (`inner`).
* `TrainedWasTested`: who writes when. The agent compares the source once more after
  its last sandbox run; whoever asked for the code reads it anew after the graph has
  ended. A write in that window is not noticed (`agent.late`). The property says what
  holds without one, and what is left with one: an experiment goes back to the
  action that failed, so that action and those after it ran on what was trained, and
  those before it need not have.
* `CampaignIsAccounted` and `ClonesAreKnown` are about what a process leaves behind
  that died between an effect and the record of it. `EngineIsAccounted` is about what
  the engine may still hold when an execution ends of which any call failed before or
  after its effect; there the manager itself lives.

Every property of a passing run has a mutant: the model with one bug in it, for
which the property fails under the same configuration. This is how we know that
the bounds let the interesting cases happen.

The runs switch deadlock checking off: a finished workflow, a settled view, an
answered call or a completed campaign has no next step, and the bounds stop the
rest.

## 4. Bounds

`MaxGeneration`, `MaxCheckpoint`, `MaxVersion`, `MaxFaults`, `MaxControls`,
`MaxSequence`, `MaxCrashes` and the like bound counters that grow without limit in
the code. Limits the code itself has (attempts, retries, rounds, queries, tool
calls, `MaxFailures` of `events.tsx`) are constants too, and are made small.

* `worker_recovery` allows 12 claims and 13 checkpoints, more than one plan of one
  step, two quality phases, and two faults and one control can use: no behaviour is
  cut off, which the liveness properties need. `worker_approvals` likewise (14 and
  15; two versions, so that a modification can supersede an approval; a lease of
  two ticks, so that an approval can lapse between gate and begin).
* `worker_race` allows five generations and six checkpoints with one fault: enough
  for each worker to lose a lease to the other in the middle of any unit. Only
  safety is checked there.
* `tools`: two claims, hence one takeover. A write and a search, each delivered
  twice; two training runs of one step, each delivered once.
* `projects`. *Documents*: two uploads of the same bytes, so that the second
  meets the first; one worker, two jobs, two attempts, one crash: a retry after a
  crash in every step of a job, and a deletion after that. *Tasks*: two clients
  with one key and two bodies, three rows. *Memory*: two runs of three plans each: a
  failed plan, one that cures it, and one more. *Report*: two sources of which one
  is a document, two claims, room for one long text or two short ones, one more
  round and one supplement, eight calls: from too few to more than enough.
  *Deployment*: the main one and a fresh one, two writers, two volumes, two folders,
  two images of which one fits, two moments, one damage.
* `limits`. *Lease*: two workers, a third of two ticks. *Admission*: two requests,
  one slot, one a minute, a lease of three renewals. *Sandbox*: two requests, one
  slot. *Calls*: two calls, either of which a limit may refuse. *Events*: two
  writers, pages of two, three events: a full page, one that is not, and a rotation
  between. *Models*: two callers and the one that closes, four requests: an
  abandoned answer and somebody to receive it. *Clones*: two, of two repositories
  or one, with two files each, and a file written by an agent; room for three.
* `tasks`. *Plan*: all 20 plans of up to three steps, two sources, two replans, two
  code repairs, of which a run of the agent may use one by itself, one foreign write. *Agent*: two topics, pages and queries, three
  pieces of evidence. *Coding*: three file calls, two in snapshot mode, two repairs,
  six model calls, replies of two calls; writes of somebody else at any time. Calls
  and replans vary in snapshot mode only, and whether the experiment repairs in an
  experiment only: elsewhere nothing reads them. *Campaign*: two processes, three approvals,
  two tasks with two requests each, of which the first version spent one.

Larger instances were run once and held: `EvaluationCampaign` with three tasks
(236 k states), `PlanRepair` with all kinds for every step (93 plans, 217 k),
`Maintenance` with two images that both fit (677 k).

Symmetry is used for the workers of `worker_race`, which has no liveness property.

## 5. Fairness

* `FairWorkerSpec`: weak fairness of the clock, of `WorkerClaim` and of `Work`
  for each worker. `run_worker` (`orchestration/worker.py`) loops for ever, the
  deployment restarts it, and an execution that is neither cancelled nor
  crashed goes on.
* `ExperimentExecution`: `watch` runs twice a second on the service's event
  loop, and a run that was told to stop disconnects from the sandbox, which the
  code waits for.
* `DocumentIngestion`: the worker process loops, is restarted, and its steps have
  timeouts; leases and back-offs run out.
* `LimitsFairness`. *Admission*: a request that is admitted, refused or told to
  stop goes on, the keeper's loop goes on, time passes; Redis and the network owe
  nothing, which is why slots must run out. *Events*: the server's loop and the
  browser's loop go on; cuts are not fair and unbounded, and the view gives up
  after `MaxFailures` in a row, which is one of the ways to settle.

Faults are bounded. Users, operators, providers, sandbox and network owe
nothing.

## 6. Proofs

Every safety invariant and every action property of a passing run is stated by a
theorem, and so are the three refinements. The theorems hold for every value of the
constants that satisfies the named assumptions: null values differ from real ones,
bounds are naturals, sets of files, sources, steps and requests are finite, and the
inequalities below between the waits of a component. TLC evaluates these assumptions
on the instances it checks.

Each component has an inductive invariant, made of named parts, whose step lemmas
have one step per action and under it one per part that the action can disturb. Eight
modules hold the proofs; where one module is about several components it extends them
side by side, and their variables do not meet.

| proofs | about | theorems that state a property of a run |
| --- | --- | --- |
| `DurableQueueProofs` | `DurableQueue` | `ExperimentsArePaid`, `CheckpointsExtend`, `CancellationIsHonoured`, `ReceiptsResolveDoubt`, `QueueImplementsAuthority` |
| `DurableWorkerProofs` | `DurableWorker` | `WorkersImplementQueue`, and with it the queue's properties (`WorkersKeepThePromises`) |
| `WorkerRecordsProofs` | `DurableWorker` | `StepsRunOnce`, `SuccessHasItsRecords`, `RequeueRestsOnEvidence`, `CallsAreCounted` |
| `ToolsProofs` | `ToolOperations`, `ExperimentExecution` | `RecordsAreTrue`, `OnlyAuthorizedEffects`, `TrainedOnce`, `RunsStayOnRecord` |
| `LimitsProofs` | `LeaseTiming`, `GitImport`, `NeuralWorker`, `SandboxRunner`, `RequestAdmission`, `WorkflowEvents`, `ModelCalls` | `ExecutionIsUnique`, `ReceiptsTell`, `NothingIsLeftOver`, `LeftoversAreLogged`, `LimitsHold`, `LogIsNumbered`, `ViewsFollow`, `LedgerStaysTrue` |
| `ProjectsProofs` | `DocumentIngestion`, `ProjectMemory`, `ProjectTasks` | `DocumentsAreWhatTheySay`, `LessonsHold`, `SubmissionsAreOne`, `RemovalIsFinal` |
| `TasksProofs` | `CodingRun`, `AgentRunner`, `PlanRepair` | `SuccessWasTested`, `ReserveStays`, `SuccessStands`, `CallsStayAccounted`, `WorkStaysTogether`, `NoIdleRepeat` |
| `ReportsProofs` | `Maintenance`, `ResearchQuality`, `EvaluationCampaign` | `BackupsHold`, `ReportsHold`, `CampaignStays` |

**The queue.** `InvariantHolds == Spec => []IInv`, with

    IInv == TypeOK /\ OwnerIffLeased /\ NewestClaimHolds /\ DoubtIsNeverRequeued
              /\ OneCallInDoubt /\ GatedUnitPaid /\ NoLostCheckpoint

Why the parts need each other: `DoubtIsNeverRequeued` is kept by the
transactions of parked rows only because a fenced row is leased
(`OwnerIffLeased`), and by `save` only because its status is computed from
`pending`; `GatedUnitPaid` needs `OwnerIffLeased` to know that a gate or a
decision meets no begun unit with a spent approval. From `IInv` follow the action
properties `TerminalIsFinal`, `UnitClosedByCheckpoint`, `CancelIsHonoured`,
`DoubtResolvedByReceipt` and `ApprovalSpentOnce`. `UnitClosedByCheckpoint` relates
`active`, `checkpoint` and `pending` over a step: no crash, takeover, control
or operator action makes a begun unit disappear without a checkpoint.

`QueueImplementsAuthority == Spec => AuthorityIsImplemented`: initial states map
to initial states and each transaction maps to a step of `ToolAuthority` or to a
stutter. The delicate case is `Claim`, which keeps a requested pause or
cancellation and may only happen once the old claim is shut.

**The worker.** `WorkersImplementQueue == WorkerSpec => Spec`. The queue assumes of
`save` that the snapshot is based on the newest checkpoint; the worker has to earn
that, because it read it several transactions earlier. The invariant `WInv` says so:
a run whose claim still passes the fence has the newest checkpoint as its base and the
newest plan version, or the one it is about to save (`Current`). It is kept by
everyone else's steps because whatever moves the checkpoint also replaces or releases
the claim (`GoodClaimKeepsCheckpoint`, proved of the queue).

**Its records.** Step, plan and review rows are written without a fence, by
executions that may have lost their claim. `RInv` is what keeps them sound all the
same. `Placed` says where *any* execution may still write: in a step or a review whose
unit is the one in the row, or of a workflow that is over. `Alone` says that there is
one such execution at a time: a unit is begun once, and only a checkpoint that settles
it clears it. `Faithful` says what the execution that holds the row carries towards its save,
and `Open` how a checkpoint agrees with the tables meanwhile. From `RInv` follow that
no step is started twice (`StepsRunOnce`) and that a success has its review
(`SuccessHasItsRecords`). `RequeueRestsOnEvidence` adds what the operator's
reconcile has seen so far; since a record never goes back on what it says, the
evidence is still there when the row is queued. `CallsAreCounted` follows one counter
through the memory of whoever holds the row.

**The lease.** `ExecutionIsUnique`, for every number of workers and every length of
the lease, if a claim is answered within a third of it (`LeaseAssumption`). The
invariant gives, for each place of the worker's loop, a bound below which the rest of
the lease plus the timer cannot fall: two thirds and one when the execution runs, one
third and one when a beat is on its way. `LeaseCoversExecution` reads off that the
lease has not ended.

**Tool calls and training runs.** The invariant adds to the properties where the lock
is and what each delivery implies about row and effect (`LockIsGood`,
`OneReservation`, `RowsAreTrue`), and for answers the fact that a denial outlives the
authority it was based on: once denied, a call can never be authorized again
(`AnswersAreTrue`, lemma `DenialStays`). By `QueueImplementsAuthority` the environment
assumed here is the real queue. Of training runs, `RunInv` says how the rows of Core,
receipt and service agree, and that no second run is dispatched; `TrainedOnce` follows
for any number of copies of a submission. `RunsStayOnRecord` needs `DoubtInv` too, that
a denial is of a run that never was or of a poll that can record nothing, and with it
the assumption `OneSubmission`, that the transport does not repeat a submission: with
a second copy the statement is false (see the observations).

**Events.** `LogIsNumbered`: whoever has numbered events holds the task row and nobody
has published since, so numbers follow each other at any commit order; whoever decides
holds the job row it has compared. `ViewsFollow == EventsSpec => FeedIsImplemented` is
the refinement to `EventFeed`. Its invariant is about the frames on the way: they
follow what is shown one by one up to where the server is (`Stream`), a page is the
beginning of what follows the cursor, and all of it when it says that there is no more
(`ServerReads`). A commit then maps to publishing, a page to opening the view, a frame to
showing one event or its end, and every cut, rotation and reconnection to a stutter.

**Admission.** `LimitsHold` is the argument of the lease with one more message.
`SlotOutlives` bounds from below what is left of a slot by what its request may
still wait for: the answer to its admission, the next answer to its keeper, the
handler that has to stop. The condition on the settings is `AdmissionAssumption`:
two waits for Redis, the sleep between them and the stop fit into a lease.

**Sandbox.** `LeftoversAreLogged`: what exists is known to the execution that is to
remove it, or is on its way to be created, or has been logged; cleanup visits every
kind and leaves the object, or a line about it. It holds while the manager lives: its
death is not in the model. What nobody looks for are creations carried out after their
client gave up; since a failed call ends the execution, each request has one at most,
and nothing starts it (`LateIsGivenUp`).

**Clones.** The invariant of `ReceiptsTell` follows a clone from place to place: from
the check of its claim to its receipt it holds the rows (`Locking`); what it has
written is bounded by what its place and receipt say (`Placed`, `Written`); of two
clones of a repository only one has written, since the directory was created
exclusively (`Alone`). The limit on files is not inductive by itself: a clone checks it
once and then writes file by file, so `Fits` says that there is room for everything it
has still to write, and the lock that nobody else takes that room.

**Inference.** `NothingIsLeftOver`: whoever reads has the lock, and its request is the
last that was numbered, so an answer with that number was computed for it.

**Model calls.** `LedgerStaysTrue`. `RowTrue` says what a row says of its call,
`CallPlaced` what has happened of the call that is under way and that nothing has of
those after it, and `BudgetCovers` at each point of a call that the budget covers what
was asked and answered before it; in a workflow the row of the job does so whenever the
journal has nothing open, which is when another process goes on from it. An answer
without usage is the last one (`BlindIsLast`), since it spends the whole budget. The
sums are cardinalities of sets of units, one per token, which is what makes them
provable: `UnitsGrow` bounds a sum in which one term is new, and `GroupsAddUp` maps the
units of the totals one to one to those of the groups.

**Documents.** `DocumentsAreWhatTheySay`, for every number of documents, jobs, attempts
and crashes, *if there is one document worker* (`OneWorker`), as the deployment has
it. With two the theorem is false (see the observations). The invariant's core is
`Knows`: at each step of a job, what the worker found or made earlier is still so, since
nobody else had the job in hand; in between a document is neither searchable nor gone.

**Memory and tasks.** `LessonsHold`: what a run knows of its own plans (`Reviewed`) is
what a lesson copies when the run has ended (`Verified`), and what a run has ended with
does not change. `SubmissionsAreOne`: a key has one job, and whoever is told a task is
told that one, though it may have looked before the other committed. `RemovalIsFinal`:
what is owned is neither hidden nor at an end (`Rest`), and whoever works does so for
a task there is (`WorkIsOnRows`).

**Code, agents, plans.** `SuccessWasTested`: what was checked is known of a *content*,
so whoever writes meanwhile cannot make an old result count for what lies there now.
The invariant says for each place of the experiment's loop which of its actions the
present source passed (`RanThrough`): all before this one, or, if somebody wrote after
the agent's last look, all from the repaired one up to this one.
`ReserveStays`: each request of the author is refused where it would touch the reserve.
`SuccessStands` and `CallsStayAccounted` follow an agent's memory against its row and
against what was sent, over the one retry a node has. For `PlanRepair`,
`_downstream` is defined as the least closed set, whose closure and leastness are
lemmas (`DownstreamIsClosed`, `DownstreamIsLeast`). `ResultsFit` says that a result was
made from the results of its dependencies as they are now; that a revision keeps this
is the lemma that what it touches in the new plan includes all that depended on
what was blamed in the old one. From it, from the budget of repairs (`RevisionIsPaid`:
as long as the agent has not repaired by itself under this plan, what its coding steps
will charge is left) and from the count of failed collections per source
(`RepeatsAreCounted`) follow `WorkStaysTogether` and the action property `NoIdleRepeat`.

**Backups, reports, campaigns.** `BackupsHold`: no command and no writer runs beside
the one that makes a backup (one command per deployment is assumed), so it is of one
moment as far as it goes, a signed manifest says so for good, and a restore that has
come to an end holds what a signed manifest says. `ReportsHold`: from one screening to
the next the bundle stays what it was, because freezing what is frozen changes nothing
(`FrozenOnce`); the calls that must follow a pass are bounded from below at each pass.
`CampaignStays`: one process holds a campaign, and no two campaigns run at a time, since
each waits for evidence that the one before it has ended, and evidence does not change;
what reached the provider is on a ledger, and a settled row had reached it; the records of tasks
follow the rows. What the first pilot spent, the second version may have used when it was stopped and
the continuation is granted stay together within what was approved
(`CampaignAssumption`).

**Only model-checked.** Liveness (`WorkflowRests`, `StaleRunStops`, `DocumentsSettle`,
`SlotsReturn`, `ViewsSettle`): the prover has no rules for fairness and `ENABLED`.

A remark for readers of the proofs: tlapm reads `SUBSET S \ {{}}` as a subset of the
difference, which TLC does not, so it is always written with parentheses; and the
nested `@` of an `EXCEPT` within an `EXCEPT` is avoided for the same reason
(`Finished` of `ModelCalls`).

## 7. Findings and observations

Five places where the code disagrees with what the repository says of it:

1. **A rotating stream of a finished task stops the view** (`event_ending`,
   `api/workbench_events.py:146`). When a stream's time is up while more than a
   page remains of a task that is over, it ends with reason `rotate` and a
   terminal status. `web/src/events.test.ts:71` lists this frame among those a
   client rejects, and it does: the view stops with an error. It takes a view
   more than 100 events behind after 60 seconds.
2. **A pause denies searches of the quality stage** (`tool_pause`,
   `tool_platform/operations.py:86`). The comment at line 73 says that a pause
   lets the current unit finish. Calls in the scope of a child task do finish; in
   the scope of the root task the task row itself says `pause_requested`, and
   the call is denied with `task_not_running`.
3. **A refused reply starts a validation** (`coding_refused`, `coding/agent.py:463`).
   After a failed validation the submission stays among the pending calls. A
   next reply without exactly one call is refused, but the route then finds the
   old submission and validates again, which spends a repair or accepts the code,
   although line 410 says that coding cannot hand off an unresolved failure.
4. **A failed validation drops the objective** (`coding_objective`,
   `coding/agent.py:682`). It empties the conversation, and with it the first
   message, in which, as the comment at line 291 says, the objective appears.
   Later requests have the plan and the diagnostic only.
5. **A training is repeated unchanged** (`plan_repeat`,
   `orchestration/service.py:1200`). A training whose results could not be
   collected is to be repeated once, then only after a repair of its source (docstring
   at 1195). The check gives up as soon as any step that writes code lies downstream, also one
   that only *uses* the training and has nothing to repair: the same source is
   trained again after every replan.

Observations: behaviour that the models show and the code seems to intend, or at
least tolerates. They are not counted as errors.

*Workflows.*

* A graceful shutdown between claim and begin parks the row in
  `recovery_required` without a begun unit; the operator's reconcile then always
  answers `operation_uncertain` and only a cancellation leads out
  (`durable.py:256`, `:391`).
* If an approval lapses after it was given and before begin spends it, the row
  waits with an approval that is `approved` and overdue: approving does nothing,
  rejecting and modifying conflict, only a cancellation leads out
  (`approvals.py:156`, `durable_repository.py:447`).
* Quarantine of a row with a requested cancellation parks it and forgets the
  request.
* A cancelled workflow, or one out of budget, may keep a call in doubt for ever;
  `tests/test_project_deletion.py:173` expects that.
* Step, plan and review rows may be written by a worker that lost its lease. The
  fence protects the row only. A step whose journal call fails with `LeaseLost`
  is recorded as failed, and a later reconciliation accepts the record.
* An interrupted quality, replanner or advance unit leaves no record that the
  reconciliation accepts: the workflow can only be cancelled. An interrupted
  writer always has one, and may go through the operator repeatedly.
* `reconcile_calls` never resolves a call in the scope of the root task: it
  considers rows of child tasks only (`durable_repository.py:382`).
* The answer to a claim is not timed (`durable.py`), so that it arrives within a third
  of the lease is an assumption of `LeaseTiming`, as is that the workers' clocks agree.
* The page says that a task is over when it has shown the event that ended it;
  events that memory adds afterwards may never be shown live.

*Tools.*

* A training run that was cancelled may still publish if it ends at that moment:
  publication looks at the authority, not at the execution row. The receipt is
  true, so this is harmless.
* `RunsAreOnRecord` holds for a submission that reaches the service once, which is
  what the transport does (no retries). A second copy that arrives between a
  refusal (capacity, data set) and its recording could be accepted.
* A clone whose publication breaks off leaves the repository directory and part of
  the sources; a retry is refused with `git_repo_exists`, and the receipt stays
  open. A service that dies leaves its staging directory.
* A sandbox manager that dies leaves its objects unlogged. A caller whose request
  timed out may find its own slot still taken. A creation that the engine carries out
  after the client gave up is neither looked for nor logged, although
  `docs/security/sandbox.md:56` says that uncertain objects are; the property
  exempts it (`tardy`).

*Plans and code.*

* A revision is accepted when its coding steps can be charged one repair each
  (`orchestration/service.py:1172`), but each repair that the coding agent makes by
  itself is charged to the same budget (`coding/agent.py:675`), under the first plan, too.
  So a revision with two coding steps may be accepted with two repairs left, the first
  step repair its code once, and the second be refused: the workflow ends
  with its budget exhausted. `PlanRepair` has these charges, and `WorkFitsTogether`
  exempts exactly this case.
* Between the last comparison of the source (`coding/agent.py:653`) and the next reading
  of it (`experiment/service.py:263`, `orchestration/service.py:718`) the graph's route and
  its last node run, and nobody notices a write. A direct experiment that repaired a
  failed `run_pytest` or `run_python` goes on with that action, so what was written there
  is trained without the checks before it, although its digest is recorded. In a
  workflow the experiment step checks and tests what was handed over once more.

*Agents and their accounts.*

* In compute mode the calls of executor and writer are not counted in the row of a
  run that fails; a run out of budget leaves its row `running`, which the service
  that started it closes.
* A search that ends in `httpx.RemoteProtocolError`, which
  `research/providers.py:66` does not catch, is recorded as failed at
  `agent/runner.py:1001` while its journal entry stays open, against the
  comment five lines above.
* A worker that dies after the answer of a quality pass pays for that pass again, which
  can use up the calls that were kept for the review.
* A second freeze of the bundle may cut texts that earlier claims quoted; the revision
  validates its claims again.
* A usage start whose commit was not acknowledged leaves a pending row for a call
  that was never sent.

*Documents, tasks, memory.*

* The deployment runs one document worker. With two, a job whose lease ended is
  completed by the stale worker while the new one still writes; a document may be
  left `processing`, points may be left of a document that is gone, and a
  deleted project may see a job requeued.
* An exception that is none of the caught ones ends the document worker. An upload
  whose request dies may leave its file. A deletion that fails for good shows
  the document as failed. Attempts are compared on failure only, so that a job that
  kills its worker is run again for ever.
* A child row left `running` by a crashed worker keeps its project from being
  deleted for ever; a single task can be hidden.
* Lessons are lost if the worker dies between `save` and `learn`; `learn` is called on
  the worker's own word that the run succeeded, and only its look at the task's
  row keeps out a run that `save` turned into a cancelled one.
* A model connection that is disabled goes on being used by workflows that run.

*Limits, evaluation, deployment.*

* The settings permit an admission lease of three seconds with a control timeout of
  ten, under which a slot can be given away while its request runs; the defaults, 30
  and 3, satisfy `AdmissionAssumption`.
* A claim of a campaign whose process dies is spent for good, and a request that was
  reserved and never settled keeps later campaigns from starting.
* Nothing keeps two operators apart: a resume during a backup gives a backup that
  verifies and is not one moment. One command per deployment at a time is assumed.
* The switch of images compares five counters, so an older backup with equal counters
  passes for one of this database.
* A restore that failed late, followed by `resume --backup`, may be accepted on partly
  restored data; it is assumed that such a target is set aside (`InService`, which
  `MaintenanceNext` asks for and the commands themselves do not). The dump is not
  verified again between the verification and its use.

## 8. What is not modelled

* **What a model or a tool computes**: prompts, plan contents, schemas,
  artifacts, grades. A unit makes any number of calls and ends in any way its code
  can.
* **Read-only queries** of the workbench, apart from the event pages and the usage
  summary; older history pages of the event view.
* **Clock skew** between machines, and weaker isolation than the code's locks give,
  except in `WorkflowEvents`, where two statements of a page and two open
  transactions are steps of their own.
* **Wall-time budgets**: they only interrupt, and interrupts are modelled.
* **Small compare-and-set writes**: memory settings, creation of model profiles
  (its limit of 100 is checked before the insert, under a lock of one process).
* **The other one-shot evaluations** (providers, repairs, pairs, baselines): they
  use the ledger and the transport of the campaigns that are modelled. **Batch
  evaluation**, provider configuration and the web pages: one process that reads,
  computes and writes, and rendering.
* **Plans of the other workflow kinds**; `PlanRepair` has the experiment workflow,
  whose steps depend on each other most.
* **Wire formats, credentials, archives**, container configurations, and the
  identity of two processes of one service.

## 9. Plan

Done, in this order: the queue with its proofs and the worker that implements it;
events and their view; tool authority, calls and experiments; then documents, tasks,
memory and admission; leases with their time; agents, coding, plans, reports and what
they spend; sandbox, clones, inference, campaigns and deployment; and the proofs of
every safety property the runs check.

What would come next:

1. Abstract specifications of a document's life (uploaded, ready, gone) and of a paid
   campaign (approved, running, accounted), which `DocumentIngestion` and
   `EvaluationCampaign` implement, proved as the refinement to `EventFeed` is.
2. `PlanRepair` for the research and coding kinds, and `DurableWorker` composed with it:
   the worker's units are abstract there.
3. The other one-shot evaluations over the ledger of `EvaluationCampaign`.
