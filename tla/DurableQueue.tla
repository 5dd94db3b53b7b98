---------------------------- MODULE DurableQueue ----------------------------
(***************************************************************************)
(* The row of one durable workflow in PostgreSQL and the transactions      *)
(* DurableRepository and ApprovalService run on it.  Every transaction     *)
(* takes the row lock first (SELECT ... FOR UPDATE), so each is one atomic *)
(* action here.  No transaction touches two workflows, so the module       *)
(* models one of them.                                                     *)
(*                                                                         *)
(* Callers are as unruly as the deployment allows: an execution, or a tool *)
(* server it started, keeps the claim (owner, generation) it was given     *)
(* for ever and may call at any time, long after its lease has expired and *)
(* another worker has taken over.  What keeps such a caller out is in the  *)
(* repository, and is what this module states.                             *)
(*                                                                         *)
(* Left out: the wording of errors and the columns that only reporting     *)
(* reads (error_code, metrics, answer, active_seconds).  Events are in     *)
(* module WorkflowEvents.                                                  *)
(***************************************************************************)
EXTENDS Integers, FiniteSets

CONSTANTS
  Owner,          \* DurableService.owner: one fresh uuid4 per process
  NoOwner,        \* the null owner column
  Call,           \* ids of external operations, a fresh uuid4 each
  ToolCall,       \* those of kind "mcp:<tool>"; the others are of kind "llm"
  Unit,           \* what a worker may begin: a stage, or one step of the plan
  Gated,          \* the experiment steps whose cost needs an approval
  NoUnit,         \* the empty active column (a model value)
  Client,         \* people deciding approvals
  LeaseTicks,     \* lease_seconds, in ticks of the clock
  MaxGeneration,  \* bound on claims
  MaxCheckpoint,  \* bound on checkpoints
  MaxVersion,     \* bound on plan versions
  MaxModelCalls   \* bound on the model_calls counter

ASSUME OwnerAssumption == NoOwner \notin Owner
ASSUME CallAssumption == ToolCall \subseteq Call
ASSUME UnitAssumption ==
  Gated \subseteq Unit /\ NoUnit \notin (1..MaxVersion) \X Unit \X BOOLEAN
ASSUME BoundAssumption ==
  /\ LeaseTicks \in Nat \ {0}
  /\ MaxGeneration \in Nat
  /\ MaxCheckpoint \in Nat \ {0}
  /\ MaxVersion \in Nat \ {0}
  /\ MaxModelCalls \in Nat

VARIABLES
  status,      \* WorkflowJobRow.status
  owner,       \* WorkflowJobRow.owner
  generation,  \* WorkflowJobRow.generation
  lease,       \* lease_until - now, in ticks, down to -1
  claims,      \* every claim ever handed out
  active,      \* WorkflowJobRow.active: the unit that was begun
  pending,     \* WorkflowJobRow.pending_calls: calls with no known outcome
  started,     \* the generation that journalled a call's start, 0 before
  receipts,    \* tool calls whose service holds a "completed" receipt
  modelCalls,  \* WorkflowJobRow.usage["model_calls"]
  checkpoint,  \* WorkflowJobRow.checkpoint_sequence
  basis,       \* the checkpoint the newest one was computed from
  version,     \* plan version in the newest checkpoint
  approval,    \* WorkflowApprovalRow.status, per operation
  overdue,     \* operations whose expires_at has passed
  prior        \* per client: the snapshot its decision is based on

claimVars == <<owner, generation, lease, claims>>
callVars == <<pending, started, receipts, modelCalls>>
checkpointVars == <<checkpoint, basis, version>>
approvalVars == <<approval, overdue, prior>>
recordVars == <<status, owner, active, pending, modelCalls, checkpointVars,
                approval>>
vars == <<status, active, claimVars, callVars, checkpointVars, approvalVars>>

-----------------------------------------------------------------------------

Leased == {"running", "pause_requested", "cancel_requested"}
Parked == {"queued", "paused", "awaiting_approval", "recovery_required"}
Terminal == {"succeeded", "failed", "budget_exceeded", "cancelled"}
Status == Leased \cup Parked \cup Terminal

\* The status arguments _execute gives to save.
SaveStatus == Parked \cup Terminal

ApprovalStatus == {"absent", "pending", "approved", "rejected", "superseded",
                   "expired", "consumed"}

WorkflowClaim == [owner : Owner, generation : 1..MaxGeneration]
Version == 1..MaxVersion

\* An operation hash binds an experiment step to a version of the plan.
Operation == Version \X Gated

\* What active holds: plan version, unit, and whether an operation hash came
\* with it, as it does for experiment steps that need an approval.
Begun == {b \in Version \X Unit \X BOOLEAN : b[3] => b[2] \in Gated}

Snapshot == [checkpoint : 0..MaxCheckpoint, version : Version]
ModelCall == Call \ ToolCall
Started == {k \in Call : started[k] # 0}

Larger(m, n) == IF m >= n THEN m ELSE n

\* fence: the caller still owns the row and its lease has not run out.
Fence(c) ==
  /\ owner = c.owner
  /\ generation = c.generation
  /\ lease > 0

\* owner and lease_until are always cleared together; a null lease_until
\* passes no comparison, like a lease that ends at this very instant.
Release ==
  /\ owner' = NoOwner
  /\ lease' = 0
  /\ UNCHANGED <<generation, claims>>

Approved(op) == approval[op] = "approved" /\ op \notin overdue

-----------------------------------------------------------------------------

\* The row as enqueue commits it, with its first checkpoint.
Init ==
  /\ status = "queued"
  /\ owner = NoOwner
  /\ generation = 0
  /\ lease = 0
  /\ claims = {}
  /\ active = NoUnit
  /\ pending = {}
  /\ started = [k \in Call |-> 0]
  /\ receipts = {}
  /\ modelCalls = 0
  /\ checkpoint = 1
  /\ basis = 0
  /\ version = 1
  /\ approval = [op \in Operation |-> "absent"]
  /\ overdue = {}
  /\ prior = [d \in Client |-> [checkpoint |-> 0, version |-> 1]]

\* Fault: only queued rows are looked for.
ClaimQueued(w) ==
  /\ generation < MaxGeneration
  /\ status = "queued"
  /\ status' = "running"
  /\ owner' = w
  /\ generation' = generation + 1
  /\ lease' = LeaseTicks
  /\ claims' = claims \cup {[owner |-> w, generation |-> generation + 1]}
  /\ UNCHANGED <<active, callVars, checkpointVars, approvalVars>>

\* Fault: a row is taken over while its lease still runs.
ClaimLive(w) ==
  /\ generation < MaxGeneration
  /\ status \in {"queued"} \cup Leased
  /\ status' = IF status = "queued" THEN "running" ELSE status
  /\ owner' = w
  /\ generation' = generation + 1
  /\ lease' = LeaseTicks
  /\ claims' = claims \cup {[owner |-> w, generation |-> generation + 1]}
  /\ UNCHANGED <<active, callVars, checkpointVars, approvalVars>>

\* claim: a queued row, or one whose worker let its lease run out.  Only a
\* queued row becomes "running"; active and pending_calls stay as they are.
Claim(w) ==
  /\ generation < MaxGeneration
  /\ \/ status = "queued"
     \/ status \in Leased /\ lease < 0
  /\ status' = IF status = "queued" THEN "running" ELSE status
  /\ owner' = w
  /\ generation' = generation + 1
  /\ lease' = LeaseTicks
  /\ claims' = claims \cup {[owner |-> w, generation |-> generation + 1]}
  /\ UNCHANGED <<active, callVars, checkpointVars, approvalVars>>

Heartbeat(c) ==
  /\ Fence(c)
  /\ lease' = LeaseTicks
  /\ UNCHANGED <<status, owner, generation, claims, active, callVars,
                 checkpointVars, approvalVars>>

\* The clock passes; a lease that is not renewed runs out.
Tick ==
  /\ owner # NoOwner /\ lease > -1
  /\ lease' = lease - 1
  /\ UNCHANGED <<status, owner, generation, claims, active, callVars,
                 checkpointVars, approvalVars>>

\* snapshot failed its digest: park the row for a person, keep the evidence.
Quarantine(c) ==
  /\ Fence(c)
  /\ status' = "recovery_required"
  /\ Release
  /\ UNCHANGED <<active, callVars, checkpointVars, approvalVars>>

\* Fault: the approval is looked at and not spent.
SpendNothing(u, hashed) ==
  (hashed => Approved(<<version, u>>)) /\ UNCHANGED approval

\* A unit that carries an operation hash spends its approval.
Spend(u, hashed) ==
  \/ ~hashed /\ UNCHANGED approval
  \/ /\ hashed /\ Approved(<<version, u>>)
     /\ approval' = [approval EXCEPT ![<<version, u>>] = "consumed"]

\* begin records the unit before it does anything, and spends the approval in
\* the same transaction.
Begin(c, u, hashed) ==
  /\ Fence(c)
  /\ active = NoUnit /\ pending = {}
  /\ status = "running"
  /\ active' = <<version, u, hashed>>
  /\ Spend(u, hashed)
  /\ UNCHANGED <<status, claimVars, callVars, checkpointVars, overdue, prior>>

-----------------------------------------------------------------------------
(* The journal of external operations.  n is the caller's own model_calls.  *)

\* Fault: a call may start after a cancellation was requested.
MayStartCancelled == pending = {}

\* No call may start while another is in doubt or the user wants to stop.
MayStart == pending = {} /\ status # "cancel_requested"

JournalStart(c, k, n) ==
  /\ Fence(c)
  /\ started[k] = 0
  /\ MayStart
  /\ pending' = pending \cup {k}
  /\ started' = [started EXCEPT ![k] = c.generation]
  /\ modelCalls' = Larger(n, modelCalls)
  /\ UNCHANGED <<status, active, claimVars, receipts, checkpointVars,
                 approvalVars>>

JournalFinish(c, k, n) ==
  /\ Fence(c)
  /\ k \in pending
  /\ pending' = pending \ {k}
  /\ modelCalls' = Larger(n, modelCalls)
  /\ UNCHANGED <<status, active, claimVars, started, receipts, checkpointVars,
                 approvalVars>>

\* A guard of this process refused the request before it was sent, so its
\* reservation is given back.
JournalRejected(c, k, n) ==
  /\ Fence(c)
  /\ k \in pending /\ k \in ModelCall
  /\ pending' = pending \ {k}
  /\ modelCalls' = Larger(n, Larger(0, modelCalls - 1))
  /\ UNCHANGED <<status, active, claimVars, started, receipts, checkpointVars,
                 approvalVars>>

\* persist_budget, and a local rejection that had not been journalled yet.
JournalBudget(c, n) ==
  /\ Fence(c)
  /\ modelCalls' = Larger(n, modelCalls)
  /\ UNCHANGED <<status, active, claimVars, pending, started, receipts,
                 checkpointVars, approvalVars>>

\* The result of a tool call is committed on the side of the service or of the
\* registry, under the claim the call was started with: a service that answers
\* after its caller lost the row writes nothing.
CompleteReceipt(c, k) ==
  /\ Fence(c)
  /\ status \in {"running", "pause_requested"}
  /\ k \in ToolCall /\ started[k] = c.generation
  /\ receipts' = receipts \cup {k}
  /\ UNCHANGED <<status, active, claimVars, pending, started, modelCalls,
                 checkpointVars, approvalVars>>

\* Fault: every tool call is dropped, with or without its receipt.
DropToolCalls ==
  /\ pending' = pending \ ToolCall
  /\ UNCHANGED <<status, active, claimVars, started, receipts, modelCalls,
                 checkpointVars, approvalVars>>

\* reconcile_calls: a call leaves pending_calls when its receipt is complete.
DropReceipted ==
  /\ pending' = pending \ receipts
  /\ UNCHANGED <<status, active, claimVars, started, receipts, modelCalls,
                 checkpointVars, approvalVars>>

ReconcileCalls(c) == Fence(c) /\ DropReceipted

\* seq is the checkpoint the operator looked at.
ReconcileCallsByOperator(seq) ==
  /\ status = "recovery_required" /\ owner = NoOwner /\ checkpoint = seq
  /\ DropReceipted

-----------------------------------------------------------------------------
(* Checkpoints, recovery and control.                                       *)

\* A user's cancellation wins; then an unknown outcome; then a pause.
SavedStatus(s) ==
  IF status = "cancel_requested" THEN "cancelled"
  ELSE IF pending # {} /\ s \notin {"cancelled", "budget_exceeded"}
       THEN "recovery_required"
       ELSE IF status = "pause_requested" /\ s = "queued" THEN "paused" ELSE s

\* save: the caller asks for status s; its snapshot was computed from
\* checkpoint b and holds plan version v.
Save(c, s, b, v, n) ==
  /\ Fence(c)
  /\ checkpoint < MaxCheckpoint
  /\ status' = SavedStatus(s)
  /\ modelCalls' = Larger(n, modelCalls)
  /\ checkpoint' = checkpoint + 1
  /\ basis' = b
  /\ version' = v
  /\ active' = IF status' = "recovery_required" THEN active ELSE NoUnit
  /\ Release
  /\ UNCHANGED <<pending, started, receipts, approvalVars>>

\* Fault: the row is queued again without its unit.
QueueReconciledAfresh(seq) ==
  /\ status = "recovery_required" /\ owner = NoOwner /\ checkpoint = seq
  /\ pending = {}
  /\ status' = "queued"
  /\ active' = NoUnit
  /\ UNCHANGED <<claimVars, callVars, checkpointVars, approvalVars>>

\* queue_reconciled: the operator's evidence was accepted; active stays, for
\* the next worker to reconcile again.
QueueReconciled(seq) ==
  /\ status = "recovery_required" /\ owner = NoOwner /\ checkpoint = seq
  /\ pending = {}
  /\ status' = "queued"
  /\ UNCHANGED <<active, claimVars, callVars, checkpointVars, approvalVars>>

Control(from, to) ==
  /\ status \in from
  /\ status' = to
  /\ UNCHANGED <<active, claimVars, callVars, checkpointVars, approvalVars>>

Pause == \/ Control({"queued", "paused"}, "paused")
         \/ Control({"running", "pause_requested"}, "pause_requested")
Resume == Control({"paused"}, "queued")
Cancel == Control(Leased, "cancel_requested") \/ Control(Parked, "cancelled")

-----------------------------------------------------------------------------
(* Approvals.                                                               *)

\* gate asks for an approval, or notices that the one it has ran out of time.
Gate(c, u) ==
  LET op == <<version, u>> IN
  /\ Fence(c)
  /\ \/ /\ approval[op] = "absent"
        /\ approval' = [approval EXCEPT ![op] = "pending"]
     \/ /\ approval[op] \in {"pending", "approved"} /\ op \in overdue
        /\ approval' = [approval EXCEPT ![op] = "expired"]
  /\ UNCHANGED <<status, active, claimVars, callVars, checkpointVars, overdue,
                 prior>>

\* 24 hours pass.
Lapse(op) ==
  /\ approval[op] \in {"pending", "approved"}
  /\ overdue' = overdue \cup {op}
  /\ UNCHANGED <<status, active, claimVars, callVars, checkpointVars,
                 approval, prior>>

\* decide reads its snapshot before it takes the row lock.
ReadSnapshot(d) ==
  /\ prior' = [prior EXCEPT
                 ![d] = [checkpoint |-> checkpoint, version |-> version]]
  /\ UNCHANGED <<status, active, claimVars, callVars, checkpointVars,
                 approval, overdue>>

\* Fault: the checkpoint is not compared with the snapshot's.
DecidableStale(d) == status = "awaiting_approval"

\* What decide requires once it holds the lock, whatever the decision: the
\* row is still the one the snapshot was read from.
Decidable(d) ==
  /\ status = "awaiting_approval"
  /\ checkpoint = prior[d].checkpoint

Decide(d, u, from, target, to) ==
  LET op == <<prior[d].version, u>> IN
  /\ Decidable(d)
  /\ approval[op] \in from
  /\ approval' = [approval EXCEPT ![op] = target]
  /\ status' = to
  /\ UNCHANGED <<active, claimVars, callVars, overdue, prior>>

Approve(d, u) ==
  /\ <<prior[d].version, u>> \notin overdue
  /\ Decide(d, u, {"pending"}, "approved", "paused")
  /\ UNCHANGED checkpointVars

Reject(d, u) ==
  /\ Decide(d, u, {"pending", "expired"}, "rejected", "awaiting_approval")
  /\ UNCHANGED checkpointVars

\* modify writes a new plan version on top of the snapshot it read.
Modify(d, u) ==
  /\ prior[d].version < MaxVersion /\ checkpoint < MaxCheckpoint
  /\ Decide(d, u, {"pending", "rejected", "expired"}, "superseded", "paused")
  /\ checkpoint' = checkpoint + 1
  /\ basis' = prior[d].checkpoint
  /\ version' = prior[d].version + 1

-----------------------------------------------------------------------------

Fenced(c) ==
  \/ Heartbeat(c) \/ Quarantine(c) \/ ReconcileCalls(c)
  \/ \E u \in Unit, hashed \in BOOLEAN :
       (hashed => u \in Gated) /\ Begin(c, u, hashed)
  \/ \E u \in Gated : Gate(c, u)
  \/ \E n \in 0..MaxModelCalls :
       \/ JournalBudget(c, n)
       \/ \E k \in Call : \/ JournalStart(c, k, n)
                          \/ JournalFinish(c, k, n)
                          \/ JournalRejected(c, k, n)
       \/ \E s \in SaveStatus, v \in Version :
            v \in {version, version + 1} /\ Save(c, s, checkpoint, v, n)

Operate == \E seq \in 0..MaxCheckpoint :
             ReconcileCallsByOperator(seq) \/ QueueReconciled(seq)

DecideApproval == \E d \in Client :
  \/ ReadSnapshot(d)
  \/ \E u \in Gated : Approve(d, u) \/ Reject(d, u) \/ Modify(d, u)

Next ==
  \/ \E w \in Owner : Claim(w)
  \/ \E c \in claims : Fenced(c)
  \/ Tick
  \/ \E c \in claims, k \in Call : CompleteReceipt(c, k)
  \/ Operate
  \/ Pause \/ Resume \/ Cancel
  \/ \E op \in Operation : Lapse(op)
  \/ DecideApproval

Spec == Init /\ [][Next]_vars

-----------------------------------------------------------------------------
(* What the row is to the tool services, which read it under the same lock. *)

Granted == IF owner = NoOwner \/ lease <= 0 THEN "shut" ELSE status

Authority == INSTANCE ToolAuthority WITH mode <- Granted

-----------------------------------------------------------------------------
(* What the row promises.                                                   *)

\* Every column holds a value of its type.
TypeOK ==
  /\ status \in Status
  /\ owner \in Owner \cup {NoOwner}
  /\ generation \in 0..MaxGeneration
  /\ lease \in -1..LeaseTicks
  /\ claims \subseteq WorkflowClaim
  /\ active \in Begun \cup {NoUnit}
  /\ started \in [Call -> 0..MaxGeneration]
  /\ pending \subseteq Started
  /\ receipts \subseteq Started \cap ToolCall
  /\ modelCalls \in 0..MaxModelCalls
  /\ checkpoint \in 1..MaxCheckpoint
  /\ basis \in 0..MaxCheckpoint
  /\ version \in Version
  /\ approval \in [Operation -> ApprovalStatus]
  /\ overdue \subseteq Operation
  /\ prior \in [Client -> Snapshot]

\* A row is owned exactly while its status says a worker is on it, whatever
\* mix of control, claims, saves and recoveries led there: a queued or parked
\* row is never blocked by a left-over owner, and a running one can always be
\* taken over once its lease ends (claim, save, quarantine, control).
OwnerIffLeased == (owner # NoOwner) <=> (status \in Leased)

\* Claims are fencing tokens: none is ahead of the row, no two are alike in
\* generation, and only the newest one ever handed out can pass the fence
\* (claim, fence).
NewestClaimHolds ==
  \A c, d \in claims :
    /\ c.generation <= generation
    /\ c.generation = d.generation => c = d
    /\ Fence(c) => d.generation <= c.generation

\* A call whose outcome is unknown never goes back to the queue, waits for a
\* decision as if nothing had happened, or ends in a verdict: journal, save,
\* reconcile_calls and queue_reconciled together see to it.
DoubtIsNeverRequeued ==
  pending # {} => status \in Leased \cup {"recovery_required", "cancelled",
                                          "budget_exceeded"}

\* At most one external call is ever in doubt, across workers and takeovers:
\* no start is journalled before the previous outcome is known (journal).
OneCallInDoubt == \A j, k \in pending : j = k

\* A unit that began with an operation hash has spent its approval: the unit
\* in the row and the approvals table never disagree (begin, gate, decide,
\* save).
GatedUnitPaid ==
  active # NoUnit /\ active[3]
    => approval[<<active[1], active[2]>>] = "consumed"

\* Every checkpoint extends the one before it: a decision taken on a stale
\* snapshot can not overwrite what a worker saved meanwhile (decide, save).
NoLostCheckpoint == basis = checkpoint - 1

\* A finished workflow is never touched again: no late worker, operator,
\* approval or control changes its outcome or its records.
TerminalIsFinal ==
  [][(status \in Terminal) => UNCHANGED recordVars]_vars

\* After a cancellation was requested no call starts and no unit begins, and
\* the row can only end cancelled, or parked for a person when its checkpoint
\* is corrupt (control, journal, begin, save, quarantine).
CancelIsHonoured ==
  [][status = "cancel_requested" =>
       /\ status' \in {"cancel_requested", "cancelled", "recovery_required"}
       /\ pending' \subseteq pending
       /\ active' \in {active, NoUnit}]_vars

\* Once begun, a unit is only ever forgotten together with a checkpoint that
\* settles it, and never while one of its calls is in doubt unless the
\* workflow ends there: a crash, a takeover, a control or an operator can not
\* make the next worker replay it.
UnitClosedByCheckpoint ==
  [][active # NoUnit /\ active' # active =>
       /\ active' = NoUnit
       /\ checkpoint' = checkpoint + 1
       /\ pending = {} \/ status' \in {"cancelled", "budget_exceeded"}]_vars

\* While no worker holds the row, a call in doubt is only cleared by a
\* completed receipt of the service it went to (reconcile_calls).
DoubtResolvedByReceipt ==
  [][owner = NoOwner => pending \ pending' \subseteq receipts]_vars

\* Seen from a tool service, the authority of a claim only ever shrinks, to
\* nothing at last, and the next claim comes after that (claim, heartbeat,
\* control, save, quarantine): the queue implements module ToolAuthority.
AuthorityIsImplemented == Authority!AuthoritySpec

\* A spent or superseded approval never becomes usable again (decide, gate).
ApprovalSpentOnce ==
  [][\A op \in Operation :
       approval[op] \in {"consumed", "superseded"}
         => approval'[op] = approval[op]]_vars
=============================================================================
