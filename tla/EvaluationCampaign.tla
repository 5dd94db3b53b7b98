------------------------- MODULE EvaluationCampaign -------------------------
(***************************************************************************)
(* The paid evaluation runs.  A campaign of tasks is run once: a claim     *)
(* file and a ledger named by an approval are created exclusively, every   *)
(* request is reserved in the ledger before it is dispatched, and the      *)
(* first result that cannot be accounted for stops everything.  What is    *)
(* left may be spent by two later campaigns, each bound to the evidence    *)
(* the one before it left on disk: the pilot's second version, and the     *)
(* continuation with the tasks that version never reached.  Processes may  *)
(* be started again, under any approval, and may die at any point.         *)
(***************************************************************************)
EXTENDS Integers, Sequences, FiniteSets

CONSTANTS
    Process,
    Grant,       \* approval identifiers
    NoGrant,
    Tasks,       \* the number of tasks, run in order (TASKS)
    PerTask,     \* PER_TASK_REQUESTS
    Total,       \* TOTAL_REQUESTS
    Prior,       \* PRIOR_REQUESTS: what the first pilot had used
    Stopped,     \* the requests the stopped second version had made
    FirstLeft    \* the first task of the continuation

Campaign == {"v1", "v2", "tail"}

\* Where a campaign starts: the continuation with what the second version left.
FirstTask == [v1 |-> 1, v2 |-> 1, tail |-> FirstLeft]
Planned(c) == FirstTask[c]..Tasks
Allowance == [v1 |-> Total, v2 |-> Total - Prior, tail |-> (Tasks + 1 - FirstLeft) * PerTask]

ASSUME CampaignAssumption ==
    /\ NoGrant \notin Grant
    /\ {Tasks, PerTask, Total, Prior, Stopped} \subseteq Nat /\ FirstLeft \in 1..Tasks
    /\ Prior <= Total /\ Prior + Stopped + Allowance["tail"] <= Total

VARIABLES
    claim,      \* the claim file of each campaign: the approval it names
    ledger,     \* the ledger and the directory of each approval's run
    cpc, run,   \* of each process
    sent        \* requests that reached the provider, by version, task and number

campaignVars == <<claim, ledger, cpc, run, sent>>

NoFile == [campaign |-> "none", rows |-> <<>>, records |-> <<>>, done |-> "no"]
NoRun == [campaign |-> "none", grant |-> NoGrant, task |-> 0, calls |-> 0, failed |-> FALSE,
          charged |-> TRUE]
Version(c) == IF c = "v1" THEN 1 ELSE 2
Request == {1, 2} \X (1..Tasks) \X (1..PerTask)

CampaignInit ==
    /\ claim = [c \in Campaign |-> NoGrant]
    /\ ledger = [g \in Grant |-> NoFile]
    /\ cpc = [p \in Process |-> "idle"]
    /\ run = [p \in Process |-> NoRun]
    /\ sent = [r \in Request |-> 0]

Mine(p) == ledger[run[p].grant]
Goto(p, at) == cpc' = [cpc EXCEPT ![p] = at]
WriteLedger(p, f) == ledger' = [ledger EXCEPT ![run[p].grant] = f]
LeaveRun(p) == Goto(p, "idle") /\ run' = [run EXCEPT ![p] = NoRun]
RowsOf(f, task) == {i \in DOMAIN f.rows : f.rows[i].task = task}

(***************************************************************************)
(* What a later campaign requires of the earlier ones.                     *)
(***************************************************************************)
AllOk(f, places) == \A i \in places : f.rows[i].state = "ok"

\* PriorPilot: claim, ledger and directory belong together, the requests are
\* those known, and every one was answered.
PriorPilot ==
    /\ claim["v1"] # NoGrant
    /\ LET f == ledger[claim["v1"]] IN
         f.campaign = "v1" /\ f.done # "no" /\ Len(f.rows) = Prior /\ AllOk(f, DOMAIN f.rows)

\* StoppedV2: its records are the first tasks, all closed but the last, which
\* ended in an error and is not resumed.
StoppedV2 ==
    /\ claim["v2"] # NoGrant
    /\ LET f == ledger[claim["v2"]] IN
         /\ f.campaign = "v2" /\ f.done = "partial"
         /\ Len(f.rows) = Stopped /\ AllOk(f, DOMAIN f.rows)
         /\ Len(f.records) = FirstLeft - 1
         /\ \A i \in DOMAIN f.records :
              /\ f.records[i].task = i
              /\ i < FirstLeft - 1 => f.records[i].status = "measured" /\ f.records[i].accounted
              /\ i = FirstLeft - 1 => f.records[i].status = "provider_error"

Evidence(c) ==
    /\ c # "v1" => PriorPilot
    /\ c = "tail" => StoppedV2

(***************************************************************************)
(* run_live_ablations up to the ledger.                                    *)
(***************************************************************************)
Check(p, c, g) ==
    /\ cpc[p] = "idle"
    /\ ledger[g] = NoFile /\ claim[c] = NoGrant /\ Evidence(c)
    /\ Goto(p, "checked")
    /\ run' = [run EXCEPT ![p] = [NoRun EXCEPT !.campaign = c, !.grant = g]]
    /\ UNCHANGED <<claim, ledger, sent>>

\* Fault: a claim is written over another one.
AnyClaim(c) == c \in Campaign

\* The claim file is created, or exists: open(..., "x").
ClaimFree(c) == claim[c] = NoGrant

TakeClaim(p) ==
    /\ cpc[p] = "checked" /\ ClaimFree(run[p].campaign)
    /\ claim' = [claim EXCEPT ![run[p].campaign] = run[p].grant]
    /\ Goto(p, "claimed")
    /\ UNCHANGED <<ledger, run, sent>>

ClaimTaken(p) ==
    /\ cpc[p] = "checked" /\ ~ClaimFree(run[p].campaign)
    /\ LeaveRun(p)
    /\ UNCHANGED <<claim, ledger, sent>>

\* A ledger without requests.
NewLedger(c) == [NoFile EXCEPT !.campaign = c]

\* It is created exclusively as well.
OpenLedger(p) ==
    /\ cpc[p] = "claimed" /\ Mine(p) = NoFile
    /\ WriteLedger(p, NewLedger(run[p].campaign))
    /\ Goto(p, "tasks")
    /\ UNCHANGED <<claim, run, sent>>

(***************************************************************************)
(* The tasks and their requests.                                           *)
(***************************************************************************)
Left(p) == {t \in Planned(run[p].campaign) : t > run[p].task}

BeginTask(p) ==
    /\ cpc[p] = "tasks" /\ Left(p) # {}
    /\ run' = [run EXCEPT ![p].task = CHOOSE t \in Left(p) : \A u \in Left(p) : t <= u,
                          ![p].calls = 0, ![p].failed = FALSE, ![p].charged = TRUE]
    /\ Goto(p, "works")
    /\ UNCHANGED <<claim, ledger, sent>>

\* The limits of LiveAblationLedger.reserve.
Reservable(p) ==
    LET f == Mine(p) made == Cardinality(RowsOf(f, run[p].task)) IN
    /\ run[p].calls = made /\ made < PerTask
    /\ Len(f.rows) < Allowance[run[p].campaign]

\* The request is on disk before it is sent (ApprovalLedger.reserve).
Booked(f, task, number) ==
    [f EXCEPT !.rows = Append(@, [task |-> task, number |-> number, state |-> "reserved"])]

\* LiveWorkflowProvider.generate: a task whose provider failed asks no more.
ReserveRequest(p) ==
    /\ cpc[p] = "works" /\ ~run[p].failed /\ run[p].calls < PerTask /\ Reservable(p)
    /\ run' = [run EXCEPT ![p].calls = @ + 1]
    /\ WriteLedger(p, Booked(Mine(p), run[p].task, run[p].calls + 1))
    /\ Goto(p, "reserved")
    /\ UNCHANGED <<claim, sent>>

Dispatch(p) ==
    /\ cpc[p] = "reserved"
    /\ sent' = [sent EXCEPT ![<<Version(run[p].campaign), run[p].task, run[p].calls>>] = @ + 1]
    /\ Goto(p, "sent")
    /\ UNCHANGED <<claim, ledger, run>>

Settle(f, state) == [f EXCEPT !.rows[Len(f.rows)].state = state]

\* A usable completion, one the caller cannot use, the same not charged to the
\* workflow's own budget, an error status, an answer without usage, or none.
Answer(p, kind) ==
    /\ cpc[p] = "sent"
    /\ WriteLedger(p, Settle(Mine(p), IF kind \in {"unusable", "uncharged"} THEN "ok" ELSE kind))
    /\ run' = [run EXCEPT ![p].failed = kind # "ok", ![p].charged = kind # "uncharged"]
    /\ Goto(p, "works")
    /\ UNCHANGED <<claim, sent>>

\* Every call of the task is a row, answered and with its usage.
Accounted(f, r) ==
    Cardinality(RowsOf(f, r.task)) = r.calls /\ r.charged /\ AllOk(f, RowsOf(f, r.task))

\* What execute_task reports of a workflow it ran, or that it raised an error.
Reported == {"measured", "infrastructure_incomplete", "error"}

\* The status it reports: a failure of the provider goes before how the workflow ended.
Status(p, reported) == IF run[p].failed THEN "provider_error" ELSE reported

\* The end of a task: its record, and whether the campaign goes on.  From the
\* second version on a failure of the model that is accounted for counts.
EndTask(p, status, clean) ==
    LET f == Mine(p)
        ok == Accounted(f, run[p])
        observed == run[p].campaign # "v1" /\ run[p].failed /\ run[p].calls > 0 /\ ok
        final == IF observed THEN "measured" ELSE Status(p, status)
    IN  /\ cpc[p] = "works"
        /\ WriteLedger(p, [f EXCEPT !.records = Append(@,
                        [task |-> run[p].task, status |-> final, accounted |-> ok])])
        /\ Goto(p, IF final = "measured" /\ ok /\ clean THEN "tasks" ELSE "ends")
        /\ UNCHANGED <<claim, run, sent>>

\* The task's deadline, or the cancellation of the run, cuts a request short.
CutShort(p) ==
    /\ cpc[p] = "sent"
    /\ WriteLedger(p, [Settle(Mine(p), "lost") EXCEPT !.records = Append(@,
                    [task |-> run[p].task, status |-> "error", accounted |-> FALSE])])
    /\ Goto(p, "ends")
    /\ UNCHANGED <<claim, run, sent>>

\* pilot_summary, and the continuation's own condition.
Complete(f) ==
    /\ DOMAIN f.records = 1..(Tasks + 1 - FirstTask[f.campaign])
    /\ \A i \in DOMAIN f.records : f.records[i].task = FirstTask[f.campaign] + i - 1
    /\ \A i \in DOMAIN f.records : f.records[i].status = "measured" /\ f.records[i].accounted
    /\ IF f.campaign = "tail" THEN \A t \in Planned("tail") : RowsOf(f, t) # {}
                              ELSE f.rows # <<>> /\ AllOk(f, DOMAIN f.rows)

\* What was measured is written down; an intervention that was not verified, a
\* changed source or a container left behind make it incomplete.
Finish(p, valid) ==
    /\ cpc[p] = "ends" \/ (cpc[p] = "tasks" /\ Left(p) = {})
    /\ WriteLedger(p, [Mine(p) EXCEPT !.done = IF Complete(Mine(p)) /\ valid THEN "complete" ELSE "partial"])
    /\ LeaveRun(p)
    /\ UNCHANGED <<claim, sent>>

Crash(p) ==
    /\ cpc[p] # "idle"
    /\ LeaveRun(p)
    /\ UNCHANGED <<claim, ledger, sent>>

CampaignNext == \E p \in Process :
    \/ \E c \in Campaign, g \in Grant : Check(p, c, g)
    \/ TakeClaim(p) \/ ClaimTaken(p) \/ OpenLedger(p)
    \/ BeginTask(p) \/ ReserveRequest(p) \/ Dispatch(p)
    \/ \E kind \in {"ok", "unusable", "uncharged", "status", "nousage", "lost"} : Answer(p, kind)
    \/ \E status \in Reported, clean \in BOOLEAN : EndTask(p, status, clean)
    \/ CutShort(p)
    \/ \E valid \in BOOLEAN : Finish(p, valid)
    \/ Crash(p)

CampaignSpec == CampaignInit /\ [][CampaignNext]_campaignVars

(***************************************************************************)
(* Properties                                                              *)
(***************************************************************************)
SentFor(v, t) == {n \in 1..PerTask : sent[<<v, t, n>>] > 0}

\* No request of a version of the pilot is paid for twice, whatever process is
\* started again, under whatever approval, and whoever continues; all campaigns
\* together stay within the allowance that was approved; and a campaign that calls
\* itself complete knows the answer to every request it made: those, and no others,
\* are the ones that reached the provider, and none is in doubt
\* (provider_transport.py:76, live_ablation.py:426, :499, :709,
\* live_ablation_continuation.py:135).
CampaignIsAccounted ==
    /\ \A r \in Request : sent[r] <= 1
    /\ Cardinality({r \in Request : sent[r] > 0}) <= Total
    /\ \A g \in Grant : ledger[g].done = "complete" =>
         LET f == ledger[g] IN \A t \in Planned(f.campaign) :
           /\ AllOk(f, RowsOf(f, t))
           /\ SentFor(Version(f.campaign), t) = {f.rows[i].number : i \in RowsOf(f, t)}
           /\ Cardinality(RowsOf(f, t)) = Cardinality(SentFor(Version(f.campaign), t))
=============================================================================
