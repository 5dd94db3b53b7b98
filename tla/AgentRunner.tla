---------------------------- MODULE AgentRunner ----------------------------
(***************************************************************************)
(* One run of the agent: the graph of nodes that plans, searches, selects  *)
(* evidence and writes a report, or computes with tools, or hands the task *)
(* to another service; what it sends to model and search providers; and    *)
(* the row of the task.  A run may be a step of a durable workflow: then a *)
(* budget is charged and a journal keeps every request whose answer did    *)
(* not arrive.                                                             *)
(*                                                                         *)
(* A run is one coroutine.  What interleaves with it is the outside: every *)
(* call may be answered, rejected, lost, or refused by budget or journal.  *)
(***************************************************************************)
EXTENDS Integers, Sequences, FiniteSets

CONSTANTS
    Topic,          \* topics the queries are about
    Url,            \* pages and papers a search may find
    MinQueries, MaxQueries,     \* 3 and ResearchLimits.max_queries
    PerQuery,       \* max_candidates_per_query
    MaxEvidence, MaxIterations, MaxToolCalls

ASSUME AgentAssumption ==
    /\ IsFiniteSet(Topic) /\ IsFiniteSet(Url)
    /\ MinQueries \in Nat \ {0} /\ MaxQueries \in Nat /\ MinQueries <= MaxQueries
    /\ PerQuery \in Nat /\ MaxEvidence \in Nat \ {0}
    /\ MaxIterations \in Nat \ {0} /\ MaxToolCalls \in Nat

VARIABLES
    asked,          \* what run is given: sources and documents, and what it runs under
    node,           \* the node that runs
    attempt,        \* of the model call of that node, 0 or 1
    mem,            \* AgentState
    taskRow,        \* the task's row, its evidence and its failed tool calls
    net,            \* completions received; is a request unanswered; was one sent since
    raised          \* how run ended

agentVars == <<asked, node, attempt, mem, taskRow, net, raised>>

Candidate == [topic : Topic, source : {"web", "paper"}, url : Url]
Document == [topic |-> "local", source |-> "document", url |-> "document"]
NoSelection == [items |-> {}, rejected |-> 1]

ModelNode == {"planner", "query_planner", "extractor", "reporter", "executor", "writer"}
\* Nodes that may ask the model to correct a call that fails the local schema.
Correcting == {"planner", "query_planner", "extractor", "reporter"}

AgentInit ==
    /\ \E sources \in (SUBSET {"web", "paper"}) \ {{}} :
         asked \in [sources : {sources},
                   search : [sources -> {"absent", "off", "ready"}],
                   documents : BOOLEAN,
                   under : {"nothing", "budget", "journal"}]
    /\ node = "planner" /\ attempt = 0
    /\ mem = [mode |-> "compute", queries |-> <<>>, next |-> 1, candidates |-> {},
              best |-> NoSelection, flagged |-> FALSE, partial |-> FALSE,
              calls |-> 0, progress |-> 0,
              traces |-> 0, iterations |-> 0, prompted |-> FALSE, exceeded |-> FALSE]
    /\ taskRow = [status |-> "running", calls |-> 0, evidence |-> {}, cited |-> {}, failures |-> 0]
    /\ net = [received |-> 0, doubt |-> FALSE, late |-> FALSE]
    /\ raised = "no"

(***************************************************************************)
(* Ends of run.                                                            *)
(***************************************************************************)
Sent(got, doubt) ==
    net' = [received |-> net.received + got,
            doubt |-> net.doubt \/ doubt,
            late |-> net.late \/ net.doubt]

\* The journal starts nothing while an earlier request is unanswered.
MayStart == asked.under = "journal" => ~net.doubt

\* run's handler of exceptions: the metrics stored last stay, and a durable
\* caller is told the cause when it is a failed search or an open request.
AgentFails(code, stored) ==
    /\ node' = "done"
    /\ taskRow' = [stored EXCEPT !.status = "failed"]
    /\ raised' = IF asked.under = "journal" /\ code \in {"search", "uncertain"}
                 THEN "cause" ELSE code

\* _raise_research_failure
ResearchFails(code, calls) ==
    /\ node' = "done"
    /\ taskRow' = [taskRow EXCEPT !.status = "failed", !.calls = calls]
    /\ raised' = code

Succeeds(status, calls, cited) ==
    /\ node' = "done"
    /\ taskRow' = [taskRow EXCEPT !.status = status, !.calls = calls, !.cited = cited]
    /\ raised' = "nothing"

\* Nodes that call the model, unless they end before.
Calling ==
    /\ node \in ModelNode
    /\ node = "extractor" => mem.candidates # {}
    /\ node = "executor" => mem.iterations < MaxIterations

(***************************************************************************)
(* What may happen to a call instead of an answer that can be used.        *)
(***************************************************************************)
BudgetRefuses ==
    /\ node # "done" /\ asked.under # "nothing"
    /\ node' = "done" /\ raised' = "budget"
    /\ UNCHANGED <<asked, attempt, mem, taskRow, net>>

JournalRefuses ==
    /\ Calling \/ node \in {"research", "service"}
    /\ ~MayStart
    /\ AgentFails("uncertain", taskRow)
    /\ UNCHANGED <<asked, attempt, mem, net>>

\* The request is too large: known before it is sent.
CallIsTooLarge ==
    /\ Calling
    /\ AgentFails("call", taskRow)
    /\ UNCHANGED <<asked, attempt, mem, net>>

CallIsLost ==
    /\ Calling /\ MayStart
    /\ Sent(0, TRUE)
    /\ AgentFails("call", taskRow)
    /\ UNCHANGED <<asked, attempt, mem>>

\* The answer spends the budget, or does not say what it cost: then its
\* journal entry stays open.
CallEndsBudget ==
    /\ Calling /\ MayStart /\ asked.under # "nothing"
    /\ \E unmetered \in BOOLEAN : Sent(1, unmetered)
    /\ node' = "done" /\ raised' = "budget"
    /\ UNCHANGED <<asked, attempt, mem, taskRow>>

\* _response_error_progress: a completion that cannot be used is counted too.
\* The executor and the plain writer do not count it.
CallIsRejected ==
    /\ Calling /\ MayStart
    /\ Sent(1, FALSE)
    /\ LET counted == [taskRow EXCEPT !.calls = mem.progress + 1] IN
       \/ /\ node \in Correcting /\ attempt = 0
          /\ attempt' = 1
          /\ mem' = [mem EXCEPT !.progress = @ + 1]
          /\ taskRow' = counted
          /\ UNCHANGED <<node, raised>>
       \/ /\ AgentFails("call", IF node \in Correcting THEN counted ELSE taskRow)
          /\ UNCHANGED <<attempt, mem>>
    /\ UNCHANGED asked

(***************************************************************************)
(* Planning.                                                               *)
(***************************************************************************)
Answered == MayStart /\ Sent(1, FALSE)
Counted == [taskRow EXCEPT !.calls = mem.progress + 1]

\* A node is left: what it counted becomes the state of the graph.
Leave(there, state) ==
    /\ node' = there /\ attempt' = 0
    /\ mem' = [state EXCEPT !.calls = mem.progress + 1, !.progress = mem.progress + 1]
    /\ UNCHANGED raised

\* The mode is the caller's, or the model's choice.
PlannerReplies ==
    /\ node = "planner" /\ Answered
    /\ \/ \E mode \in {"research", "compute", "service"} :
            /\ taskRow' = Counted
            /\ Leave(CASE mode = "research" -> "query_planner"
                       [] mode = "compute" -> "executor"
                       [] mode = "service" -> "service",
                     [mem EXCEPT !.mode = mode])
       \/ AgentFails("protocol", Counted) /\ UNCHANGED <<attempt, mem>>
    /\ UNCHANGED asked

\* Every requested source is searched at least once.
ValidQueries(n) ==
    {queries \in [1 .. n -> [topic : Topic, source : asked.sources]] :
        {queries[i].source : i \in 1 .. n} = asked.sources}

QueryPlannerReplies ==
    /\ node = "query_planner" /\ Answered
    /\ \/ \E n \in MinQueries .. MaxQueries :
          \E queries \in ValidQueries(n) :
            /\ taskRow' = Counted
            /\ Leave("research", [mem EXCEPT !.queries = queries])
       \/ AgentFails("protocol", Counted) /\ UNCHANGED <<attempt, mem>>
    /\ UNCHANGED asked

(***************************************************************************)
(* Searching, one query after the other, then the project's documents.     *)
(***************************************************************************)
Query == mem.queries[mem.next]
AfterSearch(state) ==
    LET searched == [state EXCEPT !.next = @ + 1] IN
    /\ mem' = searched
    /\ node' = IF searched.next <= Len(mem.queries) THEN "research"
             ELSE IF asked.documents THEN "documents" ELSE "extractor"

\* From the cache, or after a request.
Answers == UNCHANGED net \/ (MayStart /\ Sent(0, FALSE))
\* The provider's own retries are used up, or the answer is not one it understands.
GivesUp == MayStart /\ Sent(0, TRUE)

SearchFinds ==
    /\ node = "research"
    /\ asked.search[Query.source] = "ready"
    /\ Answers
    /\ \E found \in SUBSET Url :
         /\ Cardinality(found) <= PerQuery
         /\ AfterSearch([mem EXCEPT !.candidates = @ \cup
                {[topic |-> Query.topic, source |-> Query.source, url |-> u] : u \in found}])
    /\ UNCHANGED <<asked, attempt, taskRow, raised>>

\* Without a service, or one that is not configured, the query is skipped; the
\* warning names a provider if there is one.
SearchIsSkipped ==
    /\ node = "research"
    /\ asked.search[Query.source] # "ready"
    /\ taskRow' = [taskRow EXCEPT !.failures = @ + 1]
    /\ AfterSearch([mem EXCEPT !.flagged = @ \/ asked.search[Query.source] = "off"])
    /\ UNCHANGED <<asked, attempt, net, raised>>

\* The failure is one the provider knows, or another one: only at the first does
\* a durable run stop.
SearchFails ==
    /\ node = "research"
    /\ asked.search[Query.source] = "ready"
    /\ GivesUp
    /\ LET failed == [taskRow EXCEPT !.failures = @ + 1] IN
       \/ asked.under = "journal" /\ AgentFails("search", failed) /\ UNCHANGED mem
       \/ /\ taskRow' = failed
          /\ AfterSearch([mem EXCEPT !.flagged = TRUE])
          /\ UNCHANGED raised
    /\ UNCHANGED <<asked, attempt>>

DocumentsSearched ==
    /\ node = "documents"
    /\ \/ /\ mem' = [mem EXCEPT !.candidates = @ \cup {Document}]
          /\ node' = "extractor" /\ UNCHANGED <<taskRow, raised>>
       \/ /\ mem' = [mem EXCEPT !.flagged = TRUE]
          /\ taskRow' \in {taskRow, [taskRow EXCEPT !.failures = @ + 1]}
          /\ node' = "extractor" /\ UNCHANGED raised
       \/ AgentFails("retrieval", taskRow) /\ UNCHANGED mem
    /\ UNCHANGED <<asked, attempt, net>>

(***************************************************************************)
(* Selecting evidence.                                                     *)
(***************************************************************************)
Sources == asked.sources \cup IF asked.documents THEN {"document"} ELSE {}
Topics == {mem.queries[i].topic : i \in 1 .. Len(mem.queries)}
MissingSources(items) == Sources \ {c.source : c \in items}
MissingTopics(items) == Topics \ {c.topic : c \in items}

Rank(s) == <<Cardinality(MissingSources(s.items)), Cardinality(MissingTopics(s.items)),
             s.rejected, -Cardinality(s.items)>>
Better(s, t) ==
    \E i \in 1 .. 4 : Rank(s)[i] < Rank(t)[i] /\ \A j \in 1 .. i - 1 : Rank(s)[j] = Rank(t)[j]

\* Something could still be selected for what is missing.
WorthRetrying(s) ==
    \/ s.rejected > 0
    \/ MissingSources(s.items) \cap {c.source : c \in mem.candidates} # {}
    \/ MissingTopics(s.items) \cap {c.topic : c \in mem.candidates} # {}

\* Fault: what could not be found is not held against the result.
PartialIfMissing(s) == MissingSources(s.items) # {} \/ MissingTopics(s.items) # {}
Partial(s) ==
    \/ MissingSources(s.items) # {} \/ MissingTopics(s.items) # {}
    \/ Cardinality({c.url : c \in s.items}) < 2
    \/ mem.flagged
    \/ s.rejected > 0

\* Fault: the result of a node is stored with the counters it started with.
CallsAtStart == mem.calls
CallsSoFar == mem.progress + 1

NothingFound ==
    /\ node = "extractor" /\ mem.candidates = {}
    /\ ResearchFails("no_evidence", mem.calls)
    /\ UNCHANGED <<asked, attempt, mem, net>>

\* The second attempt, or a first one that cannot be improved, decides; and it is
\* the better of the two that is stored.  (The candidates are not looked at again.)
Conclude(best, calls) ==
    IF best.items = {}
    THEN /\ ResearchFails("no_evidence", calls)
         /\ UNCHANGED <<attempt, mem>>
    ELSE /\ taskRow' = [Counted EXCEPT !.evidence = best.items]
         /\ Leave("reporter", [mem EXCEPT !.partial = Partial(best),
                                          !.candidates = {}, !.best = NoSelection])

\* Each item names a candidate once, and is in order; the others are rejected.
Selections ==
    {s \in [items : SUBSET mem.candidates, rejected : 0 .. 1] :
        Cardinality(s.items) + s.rejected <= MaxEvidence}

ExtractorReplies ==
    /\ node = "extractor" /\ mem.candidates # {} /\ Answered
    /\ \E answer \in Selections :
         LET best == IF Better(answer, mem.best) THEN answer ELSE mem.best IN
         IF attempt = 0 /\ WorthRetrying(answer)
         THEN /\ attempt' = 1
              /\ mem' = [mem EXCEPT !.best = best, !.progress = @ + 1]
              /\ taskRow' = Counted
              /\ UNCHANGED <<node, raised>>
         ELSE Conclude(best, CallsSoFar)
    /\ UNCHANGED asked

(***************************************************************************)
(* The report: the evidence it cites is the evidence its claims are mapped *)
(* to, and all of it is stored.  Evidence i has the key E<i>.              *)
(***************************************************************************)
Keys == 1 .. Cardinality(taskRow.evidence)
ValidReport(cited, mapped) == cited # {} /\ cited \subseteq Keys /\ cited = mapped

ReporterReplies ==
    /\ node = "reporter" /\ Answered
    /\ \E cited, mapped \in SUBSET (1 .. MaxEvidence + 1) :
         \/ /\ ValidReport(cited, mapped)
            /\ Succeeds(IF mem.partial THEN "partial" ELSE "succeeded",
                        CallsSoFar, cited)
            /\ UNCHANGED <<attempt, mem>>
         \/ /\ ~ValidReport(cited, mapped) /\ attempt = 0
            /\ attempt' = 1
            /\ mem' = [mem EXCEPT !.progress = @ + 1]
            /\ taskRow' = Counted
            /\ UNCHANGED <<node, raised>>
         \/ /\ ~ValidReport(cited, mapped) /\ attempt = 1
            /\ ResearchFails("invalid_citations", CallsSoFar)
            /\ UNCHANGED <<attempt, mem>>
    /\ UNCHANGED asked

(***************************************************************************)
(* Computing: the model and the tools take turns.                          *)
(***************************************************************************)
OutOfIterations ==
    /\ node = "executor" /\ mem.iterations >= MaxIterations
    /\ node' = "writer"
    /\ mem' = [mem EXCEPT !.exceeded = TRUE]
    /\ UNCHANGED <<asked, attempt, taskRow, net, raised>>

\* Without any tool call yet, a text is answered with a request for one, once.
ExecutorReplies ==
    /\ node = "executor" /\ mem.iterations < MaxIterations /\ Answered
    /\ LET turn == [mem EXCEPT !.iterations = @ + 1] IN
       \/ Leave("tools", turn)
       \/ mem.traces > 0 /\ Leave("writer", turn)
       \/ mem.traces = 0 /\ ~mem.prompted /\ Leave("executor", [turn EXCEPT !.prompted = TRUE])
    /\ UNCHANGED <<asked, taskRow>>

ExecutorInsists ==
    /\ node = "executor" /\ mem.iterations < MaxIterations /\ Answered
    /\ mem.traces = 0 /\ mem.prompted
    /\ AgentFails("protocol", taskRow)
    /\ UNCHANGED <<asked, attempt, mem>>

\* The loop ends when the calls or the iterations are used up.
ToolRuns ==
    /\ node = "tools"
    /\ IF mem.traces >= MaxToolCalls
       THEN /\ mem' = [mem EXCEPT !.exceeded = TRUE] /\ node' = "writer" /\ UNCHANGED taskRow
       ELSE /\ mem' = [mem EXCEPT !.traces = @ + 1,
                                  !.exceeded = mem.iterations >= MaxIterations]
            /\ node' = IF mem.iterations >= MaxIterations THEN "writer" ELSE "executor"
            /\ taskRow' \in {taskRow, [taskRow EXCEPT !.failures = @ + 1]}
    /\ UNCHANGED <<asked, attempt, net, raised>>

WriterReplies ==
    /\ node = "writer" /\ Answered
    /\ \/ Succeeds(IF mem.exceeded THEN "budget_exceeded" ELSE "succeeded", mem.progress + 1, {})
       \/ AgentFails("empty", taskRow)
    /\ UNCHANGED <<asked, attempt, mem>>

(***************************************************************************)
(* Knowledge, coding and experiment: one call of another service, whose    *)
(* completions are added to the planner's.                                 *)
(***************************************************************************)
ServiceEnds ==
    /\ node = "service" /\ MayStart
    /\ \/ Sent(1, FALSE) /\ Succeeds("succeeded", mem.calls + 1, {})
       \/ \E got \in 0 .. 1, doubt \in BOOLEAN :
            Sent(got, doubt) /\ \E code \in {"call", "uncertain"} : AgentFails(code, taskRow)
    /\ UNCHANGED <<asked, attempt, mem>>

AgentNext ==
    \/ BudgetRefuses \/ JournalRefuses \/ CallIsTooLarge \/ CallIsLost \/ CallEndsBudget
    \/ CallIsRejected
    \/ PlannerReplies \/ QueryPlannerReplies \/ SearchFinds \/ SearchIsSkipped \/ SearchFails
    \/ DocumentsSearched \/ NothingFound \/ ExtractorReplies \/ ReporterReplies
    \/ OutOfIterations \/ ExecutorReplies \/ ExecutorInsists \/ ToolRuns \/ WriterReplies
    \/ ServiceEnds

AgentSpec == AgentInit /\ [][AgentNext]_agentVars

(***************************************************************************)
(* Properties                                                              *)
(***************************************************************************)
\* A research task is shown as succeeded only if its stored evidence covers every
\* source and topic, from two pages at least, after searches none of which failed;
\* succeeded or partial, what it cites is stored; and a computed answer rests on a
\* tool call (runner.py:1317-1343, 1765-1807, 1549-1557).
SuccessIsEarned ==
    /\ taskRow.status = "succeeded" /\ mem.mode = "research" =>
         /\ \A s \in asked.sources : \E c \in taskRow.evidence : c.source = s
         /\ asked.documents => Document \in taskRow.evidence
         /\ \A i \in 1 .. Len(mem.queries) : \E c \in taskRow.evidence : c.topic = mem.queries[i].topic
         /\ \E c, d \in taskRow.evidence : c.url # d.url
         /\ taskRow.failures = 0
    /\ taskRow.status \in {"succeeded", "partial"} /\ mem.mode = "research" =>
         taskRow.cited # {} /\ \A i \in taskRow.cited : i <= Cardinality(taskRow.evidence)
    /\ taskRow.status = "succeeded" /\ mem.mode = "compute" => mem.traces > 0

\* Under a journal nothing is sent after a request whose outcome is unknown; and
\* the completions a research run received are the ones its row counts, whichever
\* way the run ended, unless a budget cut it short: answers that were rejected or
\* asked to be corrected are not lost (runner.py:561-574, 995-998, 1250-1262,
\* 1739-1764, durable_repository.py:488-490).
CallsAreAccounted ==
    /\ asked.under = "journal" => ~net.late
    /\ taskRow.status # "running" /\ (mem.mode = "research" \/ taskRow.status # "failed")
         => taskRow.calls = net.received
=============================================================================
