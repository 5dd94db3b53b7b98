----------------------------- MODULE ModelCalls -----------------------------
(* A call of the language model, from the budget of the task through its     *)
(* journal and the usage ledger to the provider and back, with answers that  *)
(* are refused, unusable, unmetered or lost, ledger writes that fail, and    *)
(* the death of the process; and the summary page that reads the ledger      *)
(* meanwhile.  One task makes its calls one after the other.                 *)
EXTENDS Integers, FiniteSets

CONSTANTS
    Calls,          \* number of calls the task tries: bound
    CallLimit, TokenLimit,      \* budget: model_calls, total_tokens
    Stage,          \* what a call is for
    Raw,            \* usage records a provider may report
    Rate, CachedRate            \* price per token: input and output, cached input

Call == 1 .. Calls
Unknown == -1
Usages ==
    [input : Nat, output : Nat, total : Nat, hit : Nat \cup {Unknown}, miss : Nat \cup {Unknown}]

ASSUME ModelCallsAssumption ==
    /\ {Calls, CallLimit, TokenLimit, Rate, CachedRate} \subseteq Nat
    /\ Raw \subseteq Usages

NoUsage == [input |-> 0, output |-> 0, total |-> 0, hit |-> Unknown, miss |-> Unknown]
NoRow == [outcome |-> "none", stage |-> "none", known |-> FALSE, usage |-> NoUsage,
          cost |-> Unknown]

VARIABLES
    durable,        \* the task is a workflow with a journal
    mpc,            \* where the process is in the call
    current,        \* the call
    used,           \* the budget in memory
    saved,          \* the usage of the job row
    open,           \* the journal has the call open
    reply,          \* the answer in memory: how it ended, its usage
    ledger,         \* ledger[c]: the row of call c
    world,          \* world[c]: what reached the provider, and what it reported
    report          \* the summary being read

taskVars == <<durable, mpc, current, used, saved, open, reply>>
modelVars == <<taskVars, ledger, world, report>>

NoReply == [end |-> "none", metered |-> FALSE, usage |-> NoUsage]
NoReport == [phase |-> "none", rows |-> <<>>, total |-> 0, groups |-> 0]
Zero == [calls |-> 0, tokens |-> 0]

CallsInit ==
    /\ durable \in BOOLEAN
    /\ mpc = "idle" /\ current = 1
    /\ used = Zero /\ saved = Zero /\ open = FALSE
    /\ reply = NoReply
    /\ ledger = [c \in Call |-> NoRow]
    /\ world = [c \in Call |-> [sent |-> FALSE, answered |-> FALSE, blind |-> FALSE,
                                total |-> 0]]
    /\ report = NoReport

-----------------------------------------------------------------------------
(* Usage: what the provider reports is completed or its cache counts are     *)
(* given up; a price is computed from counts that add up only.               *)

\* parse_usage, of prompt_cache_hit_tokens (or cached_tokens) and
\* prompt_cache_miss_tokens.
Parse(r) ==
    LET hit == IF r.hit = Unknown /\ r.miss # Unknown /\ r.miss <= r.input
                 THEN r.input - r.miss ELSE r.hit
        miss == IF r.miss = Unknown /\ hit # Unknown /\ hit <= r.input
                  THEN r.input - hit ELSE r.miss
    IN IF hit # Unknown /\ miss # Unknown /\ hit + miss = r.input
         THEN [r EXCEPT !.hit = hit, !.miss = miss]
         ELSE [r EXCEPT !.hit = Unknown, !.miss = Unknown]

\* estimate.
Estimate(u) ==
    IF u.input + u.output # u.total THEN Unknown
    ELSE IF CachedRate = Rate THEN (u.input + u.output) * Rate
    ELSE IF u.hit = Unknown THEN Unknown
    ELSE u.hit * CachedRate + (u.miss + u.output) * Rate

-----------------------------------------------------------------------------
(* The budget and the journal around the call (BudgetedLLM).                 *)

Larger(a, b) == [calls |-> IF a.calls > b.calls THEN a.calls ELSE b.calls,
                 tokens |-> IF a.tokens > b.tokens THEN a.tokens ELSE b.tokens]

\* Back from the call: a journal entry that stays open stops the workflow, any
\* other task may go on.
Return ==
    /\ mpc' = IF open' THEN "stopped" ELSE "idle"
    /\ current' = current + 1
    /\ reply' = NoReply

Count ==
    /\ mpc = "idle" /\ current \in Call
    /\ used.tokens < TokenLimit /\ used.calls < CallLimit
    /\ used' = [used EXCEPT !.calls = @ + 1]
    /\ mpc' = "counted"
    /\ UNCHANGED <<durable, current, saved, open, reply, ledger, world, report>>

Journal ==
    /\ mpc = "counted"
    /\ open' = durable
    /\ saved' = IF durable THEN Larger(used, saved) ELSE saved
    /\ mpc' = "journaled"
    /\ UNCHANGED <<durable, current, used, reply, ledger, world, report>>

\* Proven not to be sent: the call is given back and its journal entry removed.
GiveBack ==
    LET fewer(x) == [x EXCEPT !.calls = IF @ > 0 THEN @ - 1 ELSE 0] IN
    /\ used' = fewer(used)
    /\ open' = FALSE
    /\ saved' = IF durable THEN Larger(used', fewer(saved)) ELSE saved
    /\ Return
    /\ UNCHANGED <<durable, report>>

-----------------------------------------------------------------------------
(* The ledger (RoutedLLM, UsageStore).                                       *)

Pending(s) == [NoRow EXCEPT !.outcome = "pending", !.stage = s]

\* start commits a pending row before anything is sent.  When it fails the
\* call is given back; the row may have been committed all the same.
StartRow ==
    /\ mpc = "journaled"
    /\ \E s \in Stage :
         \/ /\ ledger' = [ledger EXCEPT ![current] = Pending(s)]
            /\ mpc' = "logged"
            /\ UNCHANGED <<durable, current, used, saved, open, reply, report>>
         \/ /\ ledger' \in {ledger, [ledger EXCEPT ![current] = Pending(s)]}
            /\ GiveBack
    /\ UNCHANGED world

\* finish: at most two seconds, and a failure is not reported to anyone.
Finished(r, outcome, metered, u) == [r EXCEPT
    !.outcome = outcome,
    !.known = metered,
    !.usage = IF metered THEN Parse(u) ELSE r.usage,
    !.cost = IF metered THEN Estimate(Parse(u)) ELSE r.cost]

FinishRow(outcome, metered, u) ==
    ledger' \in {ledger,
                [ledger EXCEPT ![current] = Finished(ledger[current], outcome, metered, u)]}

\* Fault: any failure of the connection is taken for a rejection before dispatch.
Anything == "not_sent"

\* What an error that is no answer says of the call: LocalRequestRejected, an
\* error of the provider (LLMUpstreamError, llm_rate_limited), anything else.
Uncertain == "uncertain"

\* A guard of the request or of the transport refuses it.
RejectLocally ==
    /\ mpc = "logged"
    /\ FinishRow("not_sent", FALSE, NoUsage)
    /\ GiveBack
    /\ UNCHANGED world

-----------------------------------------------------------------------------
(* The provider (OpenAICompatibleProvider).                                  *)

SendCall ==
    /\ mpc = "logged"
    /\ world' = [world EXCEPT ![current].sent = TRUE]
    /\ mpc' = "waiting"
    /\ UNCHANGED <<durable, current, used, saved, open, reply, ledger, report>>

\* An answer without a completion: rejected credentials, a rate limit, a status.
CallRefused ==
    /\ mpc = "waiting"
    /\ world' = [world EXCEPT ![current].answered = TRUE]
    /\ FinishRow("failed", FALSE, NoUsage)
    /\ UNCHANGED <<durable, used, saved, open, report>>
    /\ Return

\* A timeout, a broken connection, a cancellation: the provider may have worked.
Lost ==
    /\ mpc = "waiting"
    /\ world' \in {world, [world EXCEPT ![current].answered = TRUE]}
    /\ FinishRow(Uncertain, FALSE, NoUsage)
    /\ UNCHANGED <<durable, used, saved, open, report>>
    /\ Return

\* A completion; truncated, malformed or empty ones are errors that keep usage.
AnswerComes ==
    /\ mpc = "waiting"
    /\ \E end \in {"succeeded", "failed"} :
         \/ \E r \in Raw :
              /\ reply' = [end |-> end, metered |-> TRUE, usage |-> r]
              /\ world' = [world EXCEPT ![current].answered = TRUE, ![current].total = r.total]
         \/ /\ reply' = [end |-> end, metered |-> FALSE, usage |-> NoUsage]
            /\ world' = [world EXCEPT ![current].answered = TRUE, ![current].blind = TRUE]
    /\ mpc' = "answered"
    /\ UNCHANGED <<durable, current, used, saved, open, ledger, report>>

\* Fault: an answer without usage costs nothing.
FreeWhenUnmetered(r) == IF r.metered THEN used.tokens + r.usage.total ELSE used.tokens

\* _account: without usage the whole budget counts as spent.
Spent(r) == IF r.metered THEN used.tokens + r.usage.total ELSE TokenLimit

Account ==
    /\ mpc = "answered"
    /\ used' = [used EXCEPT !.tokens = Spent(reply)]
    /\ mpc' = "accounted"
    /\ UNCHANGED <<durable, current, saved, open, reply, ledger, world, report>>

\* record_usage, after the budget.  A missing usage, or a cancellation that
\* arrives now, leaves the journal entry open.
Record ==
    /\ mpc = "accounted"
    /\ FinishRow(reply.end, reply.metered, reply.usage)
    /\ \/ /\ reply.metered
          /\ mpc' = "recorded"
          /\ UNCHANGED <<current, open, reply>>
       \/ UNCHANGED open /\ Return
    /\ UNCHANGED <<durable, used, saved, world, report>>

CloseCall ==
    /\ mpc = "recorded"
    /\ open' = FALSE
    /\ saved' = IF durable THEN Larger(used, saved) ELSE saved
    /\ Return
    /\ UNCHANGED <<durable, used, ledger, world, report>>

\* The process dies.  A workflow goes on from its row when no call is open.
ProcessDies ==
    /\ mpc # "stopped"
    /\ mpc' = IF durable /\ ~open THEN "idle" ELSE "stopped"
    /\ used' = saved
    /\ current' = IF mpc = "idle" THEN current ELSE current + 1
    /\ reply' = NoReply
    /\ UNCHANGED <<durable, saved, open, ledger, world, report>>

-----------------------------------------------------------------------------
(* summary: statements of one transaction.                                   *)

Counted(rows) == {c \in Call : rows[c].outcome \notin {"none", "not_sent"}}

\* Sums, counted one by one: a unit for each token of a call.
Units(tokens) == UNION {{c} \X (1 .. tokens[c]) : c \in DOMAIN tokens}
UnitsOf(rows, cs) == Units([c \in cs |-> rows[c].usage.total])
Tokens(rows, cs) == Cardinality(UnitsOf(rows, cs))

\* The counted calls of a stage.
Group(rows, s) == {c \in Counted(rows) : rows[c].stage = s}

\* What later statements of the transaction see: repeatable read.
SnapshotRows == report.rows

ReadTotals ==
    /\ report.phase = "none"
    /\ report' = [phase |-> "totals", rows |-> ledger, total |-> Tokens(ledger, Counted(ledger)),
                  groups |-> 0]
    /\ UNCHANGED <<taskVars, ledger, world>>

ReadGroups ==
    /\ report.phase = "totals"
    /\ report' = [phase |-> "shown", rows |-> <<>>, total |-> report.total,
                  groups |-> Cardinality(UNION {{s} \X UnitsOf(SnapshotRows, Group(SnapshotRows, s)) : s \in Stage})]
    /\ UNCHANGED <<taskVars, ledger, world>>

CloseReport ==
    /\ report.phase = "shown"
    /\ report' = NoReport
    /\ UNCHANGED <<taskVars, ledger, world>>

CallsNext ==
    \/ Count \/ Journal \/ StartRow \/ RejectLocally \/ SendCall
    \/ CallRefused \/ Lost \/ AnswerComes \/ Account \/ Record \/ CloseCall
    \/ ProcessDies
    \/ ReadTotals \/ ReadGroups \/ CloseReport

CallsSpec == CallsInit /\ [][CallsNext]_modelVars

-----------------------------------------------------------------------------
\* Of a call the ledger says only what is so: not_sent means that it was not,
\* succeeded and failed that an answer came; its tokens are those that were
\* reported, and their cached and uncached parts add up wherever a price rests
\* on them.  Whatever was sent has a row, whoever died since; and the groups of
\* a summary add up to its totals, whatever is recorded while it is read (usage.py,
\* profiles.py, usage_parser.py, pricing.py).
EntriesAreTrue ==
    /\ report.phase = "shown" => report.groups = report.total
    /\ \A c \in Call :
          LET r == ledger[c] IN
          /\ r.outcome = "not_sent" => ~world[c].sent
          /\ r.outcome \in {"succeeded", "failed"} => world[c].answered
          /\ r.known => r.usage.total = world[c].total
          /\ r.cost # Unknown => r.usage.hit = Unknown \/ r.usage.hit + r.usage.miss = r.usage.input
          /\ world[c].sent => r.outcome # "none"

\* The budget of the task covers all that the provider was asked and all that
\* the ledger knows, but for the last call of a task that stopped in doubt; and no
\* task asks again once an answer came without usage (BudgetedLLM).
SpendingIsCovered ==
    LET budget == IF durable THEN Larger(saved, used) ELSE used
        sent == {c \in Call : world[c].sent}
        metered == {c \in sent : ledger[c].known}
    IN /\ mpc # "stopped" =>
            /\ Cardinality(sent) <= budget.calls
            /\ Tokens(ledger, metered) <= budget.tokens
       /\ \A c, d \in sent : c < d => ~world[c].blind

\* The ledger is true, and the budget that is decided upon covers it.
LedgerIsTrue == EntriesAreTrue /\ SpendingIsCovered
=============================================================================
