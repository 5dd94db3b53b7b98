-------------------------- MODULE ResearchQuality --------------------------
(* The quality passes of a research task: two screenings of the material with *)
(* the reading of full texts between them, the draft, its review, and the     *)
(* rounds of searching, screening and revision a review asks for.  After each *)
(* pass the state is a checkpoint; a worker that dies in a pass repeats it    *)
(* and has spent what it spent.                                               *)
EXTENDS Integers, Sequences, FiniteSets, SequencesExt

CONSTANTS
    Source,         \* what searches and the documents of the project have
    Document,       \* those of them that are documents
    Claim,          \* texts of claims
    Space,          \* what a bundle holds: an excerpt of every material, and
                    \* the long text of as many as fit beside them
    MaxMaterials,   \* 40
    MaxQueue,       \* 8, or 12
    MaxRounds,      \* 1, or 2
    MaxSupplements, \* 2, or 4
    Calls, Queries, Replans,    \* budgets of a task: upper bounds of the limits
    MaxSlips        \* bound on refused answers and deaths of the worker

ASSUME QualityAssumption ==
    /\ Document \subseteq Source
    /\ {Space, MaxMaterials, MaxQueue, MaxRounds, MaxSupplements} \subseteq Nat
    /\ {Calls, Queries, Replans, MaxSlips} \subseteq Nat
    /\ IsFiniteSet(Source)

VARIABLES
    phase,
    materials,      \* what was found, in the order of its ids
    long,           \* materials with more text than an excerpt
    bundle,         \* the frozen materials and texts every pass is shown
    tried, queue,   \* read_attempted, read_queue
    kept, assessed, \* the assessments: what was not rejected, and of which bundle
    draft,          \* the claims of the report, each with its citation
    issues,         \* the last review: flagged claims, searches it asks for
    rounds, supplements,
    accepted,
    attempt,        \* answers of this pass that were refused
    budget,         \* model calls, search queries and replans left
    rows,           \* evidence rows of the task
    end,            \* how it ended; "none" before, out_of_...: budget_exceeded
    slips           \* history: refused answers and deaths so far

screenVars == <<materials, long, bundle, tried, queue, kept, assessed>>
reportVars == <<draft, issues, rounds, supplements, accepted>>
qualityVars == <<phase, screenVars, reportVars, attempt, budget, rows, end, slips>>

NoIssues == [flagged |-> {}, searches |-> 0]
NoDraft == [x \in {} |-> 0]
Citation == [source : Source, deep : BOOLEAN]

QualityInit ==
    /\ phase = "collect"
    /\ materials = <<>> /\ long = {} /\ bundle = [sources |-> <<>>, long |-> {}]
    /\ tried = {} /\ queue = {} /\ kept = {} /\ assessed = bundle
    /\ draft = NoDraft /\ issues = NoIssues
    /\ rounds = 0 /\ supplements = 0 /\ accepted = FALSE
    /\ attempt = 0
    /\ budget \in [calls : 1 .. Calls, queries : 0 .. Queries, replans : 0 .. Replans]
    /\ rows = {} /\ end = "none" /\ slips = 0

-----------------------------------------------------------------------------
(* The bundle.                                                               *)

\* The long texts that fit beside an excerpt of every material, by their order.
Fitting(m, l) ==
    LET before(s) == {i \in DOMAIN m : m[i] \in l /\ \E j \in DOMAIN m : i < j /\ m[j] = s}
    IN {s \in l : Cardinality(before(s)) < Space - Len(m)}

\* Whatever does not fit is cut off for good.
Freeze(m, l) ==
    /\ materials' = m
    /\ long' = Fitting(m, l)
    /\ bundle' = [sources |-> m, long |-> long']

\* A candidate that is there already, or is one too many, is left out.
Added(s) ==
    IF s \in Range(materials) \/ Len(materials) >= MaxMaterials THEN materials
    ELSE Append(materials, s)

\* What the child tasks found.
Collect ==
    /\ phase = "collect" /\ end = "none"
    /\ \/ \E found \in SUBSET Source :
            /\ found # {} /\ Cardinality(found) <= MaxMaterials
            /\ Freeze(SetToSeq(found), {})
            /\ phase' = "screen"
            /\ UNCHANGED end
       \/ end' = "unverified"
          /\ UNCHANGED <<phase, materials, long, bundle>>
    /\ UNCHANGED <<tried, queue, kept, assessed, reportVars, attempt, budget, rows, slips>>

-----------------------------------------------------------------------------
(* A pass over the bundle by the model (_call).                              *)

\* The calls a task must have left, up to the review of the draft.
Needed == [screen |-> 4, refine |-> 3, write |-> 2, revise |-> 2, check |-> 1]

MayCall == end = "none" /\ phase \in DOMAIN Needed /\ budget.calls >= Needed[phase]
CallsLeft == [budget EXCEPT !.calls = @ - 1]

\* The answer is valid and the checkpoint is saved.
Pass(p) ==
    /\ phase = p /\ MayCall
    /\ budget' = CallsLeft
    /\ attempt' = 0
    /\ UNCHANGED <<rows, slips>>

\* Two refused answers end the task.
Refused ==
    /\ MayCall /\ slips < MaxSlips
    /\ budget' = CallsLeft
    /\ attempt' = attempt + 1
    /\ end' = IF attempt' = 2 THEN "unverified" ELSE end
    /\ slips' = slips + 1
    /\ UNCHANGED <<phase, screenVars, reportVars, rows>>

\* The worker dies after an answer and before the checkpoint.
LoseAnswer ==
    /\ MayCall /\ slips < MaxSlips
    /\ budget' = CallsLeft
    /\ attempt' = 0
    /\ slips' = slips + 1
    /\ UNCHANGED <<phase, screenVars, reportVars, rows, end>>

OutOfCalls ==
    /\ end = "none" /\ phase \in DOMAIN Needed /\ budget.calls < Needed[phase]
    /\ end' = "out_of_calls"
    /\ UNCHANGED <<phase, screenVars, reportVars, attempt, budget, rows, slips>>

-----------------------------------------------------------------------------
(* Screening and reading.                                                    *)

Screen ==
    /\ Pass("screen")
    /\ \E q \in SUBSET Range(materials) :
         /\ Cardinality(q) <= MaxQueue
         /\ queue' = q
         /\ IF q = {} THEN end' = "unverified" /\ UNCHANGED phase
                      ELSE phase' = "read" /\ UNCHANGED end
    /\ UNCHANGED <<materials, long, bundle, tried, kept, assessed, reportVars>>

\* The reader gets a text, or none; a search is spent unless the text is in the
\* cache or of the project.
Read(s) ==
    /\ phase = "read" /\ s \in queue /\ end = "none"
    /\ tried' = tried \cup {s}
    /\ budget' \in {budget} \cup
         (IF budget.queries > 0 /\ s \notin Document \cup tried
            THEN {[budget EXCEPT !.queries = @ - 1]} ELSE {})
    /\ \E l \in {long} \cup
                (IF s \notin tried /\ (s \in Document \/ budget.queries > 0)
                   THEN {long \cup {s}} ELSE {}) :
         /\ queue' = queue \ {s}
         /\ IF queue' = {}
              THEN Freeze(materials, l) /\ phase' = "refine"
              ELSE long' = l /\ UNCHANGED <<materials, bundle, phase>>
    /\ UNCHANGED <<kept, assessed, reportVars, attempt, rows, end, slips>>

\* The second screening, of the bundle as it is now.
Refine ==
    /\ Pass("refine")
    /\ \E k \in SUBSET Range(materials) :
         /\ kept' = k
         /\ IF k = {} THEN end' = "unverified" /\ UNCHANGED phase
                      ELSE phase' = (IF draft = NoDraft THEN "write" ELSE "revise") /\ UNCHANGED end
    /\ assessed' = bundle
    /\ UNCHANGED <<materials, long, bundle, tried, queue, reportVars>>

-----------------------------------------------------------------------------
(* Draft and review.                                                         *)

\* _validate: quotations are of kept sources, word for word in their text.
Quotable(c) == c.source \in kept /\ (c.deep => c.source \in long)

Drafts == UNION {[X -> {c \in Citation : Quotable(c)}] : X \in (SUBSET Claim) \ {{}}}

WriteDraft ==
    /\ Pass("write")
    /\ draft' \in Drafts
    /\ phase' = "check"
    /\ UNCHANGED <<screenVars, issues, rounds, supplements, accepted, end>>

\* A revision keeps the claims that were not flagged, with citations of today.
Revise ==
    /\ Pass("revise")
    /\ \E d \in Drafts :
         /\ (DOMAIN draft) \ issues.flagged \subseteq DOMAIN d
         /\ draft' = d
    /\ phase' = "check"
    /\ UNCHANGED <<screenVars, issues, rounds, supplements, accepted, end>>

Accept ==
    /\ Pass("check")
    /\ accepted' = TRUE /\ phase' = "done"
    /\ issues' = NoIssues
    /\ UNCHANGED <<screenVars, draft, rounds, supplements, end>>

\* Issues may be of headings only.  The last round may ask for nothing more.
Object ==
    /\ phase = "check" /\ MayCall
    /\ attempt' = 0
    /\ \E f \in SUBSET DOMAIN draft, n \in 0 .. MaxSupplements :
         /\ issues' = [flagged |-> f, searches |-> n]
         /\ \/ /\ rounds >= MaxRounds
               /\ end' = "unverified" /\ budget' = CallsLeft
               /\ UNCHANGED <<phase, rounds>>
            \/ /\ rounds < MaxRounds /\ budget.replans = 0
               /\ end' = "out_of_replans" /\ budget' = CallsLeft
               /\ UNCHANGED <<phase, rounds>>
            \/ /\ rounds < MaxRounds /\ budget.replans > 0
               /\ budget' = [CallsLeft EXCEPT !.replans = @ - 1]
               /\ rounds' = rounds + 1
               /\ phase' = IF n > 0 THEN "supplement" ELSE "revise"
               /\ UNCHANGED end
    /\ UNCHANGED <<screenVars, draft, supplements, accepted, rows, slips>>

\* Fault: new material goes into the report without another screening.
Straight == "revise"

\* Where the last search of a round leads.
AfterSupplement == IF supplements' > 0 THEN "refine" ELSE "revise"

\* The search that a review asks for is made, or is not offered here.
Supplement ==
    /\ phase = "supplement" /\ end = "none"
    /\ LET more == issues.searches > 0 /\ supplements < MaxSupplements
           leave == (issues.searches - IF more THEN 1 ELSE 0) IN
       /\ issues' = [issues EXCEPT !.searches = leave]
       /\ \/ /\ more /\ budget.queries > 0
             /\ budget' = [budget EXCEPT !.queries = @ - 1]
             /\ supplements' = supplements + 1
             /\ \E m \in {materials} \cup {Added(s) : s \in Source} :
                  IF leave = 0 \/ supplements' >= MaxSupplements
                    THEN Freeze(m, long)
                    ELSE materials' = m /\ UNCHANGED <<long, bundle>>
             /\ UNCHANGED end
          \/ /\ more /\ budget.queries = 0
             /\ end' = "out_of_searches"
             /\ UNCHANGED <<budget, supplements, materials, long, bundle>>
          \/ /\ UNCHANGED <<budget, supplements, end>>
             /\ IF leave = 0 \/ supplements >= MaxSupplements
                  THEN Freeze(materials, long)
                  ELSE UNCHANGED <<materials, long, bundle>>
       /\ phase' = IF end' = "none" /\ (leave = 0 \/ supplements' >= MaxSupplements)
                     THEN AfterSupplement ELSE phase
    /\ UNCHANGED <<tried, queue, kept, assessed, draft, rounds, accepted, attempt, rows, slips>>

\* The worker dies after the search of a pass and before its checkpoint.
LoseSearch ==
    /\ phase \in {"read", "supplement"} /\ end = "none"
    /\ budget.queries > 0 /\ slips < MaxSlips
    /\ budget' = [budget EXCEPT !.queries = @ - 1]
    /\ slips' = slips + 1
    /\ UNCHANGED <<phase, screenVars, reportVars, attempt, rows, end>>

\* A provider or a search fails.
Fail ==
    /\ end = "none" /\ phase \notin {"collect", "done"}
    /\ end' = "failed"
    /\ UNCHANGED <<phase, screenVars, reportVars, attempt, budget, rows, slips>>

-----------------------------------------------------------------------------
(* persist_evidence, a transaction for each source, and the report.          *)

Cited == {draft[x].source : x \in DOMAIN draft}
Text(s) == [source |-> s, long |-> s \in long]

Persist(s) ==
    /\ phase = "done" /\ end = "none"
    /\ s \in Cited /\ \A r \in rows : r.source # s
    /\ rows' = rows \cup {Text(s)}
    /\ UNCHANGED <<phase, screenVars, reportVars, attempt, budget, end, slips>>

Publish ==
    /\ phase = "done" /\ end = "none"
    /\ Cited \subseteq {r.source : r \in rows}
    /\ end' = "succeeded"
    /\ UNCHANGED <<phase, screenVars, reportVars, attempt, budget, rows, slips>>

QualityNext ==
    \/ Collect \/ Screen \/ (\E s \in Source : Read(s) \/ Persist(s)) \/ Refine
    \/ WriteDraft \/ Revise \/ Accept \/ Object \/ Supplement
    \/ Refused \/ LoseAnswer \/ LoseSearch \/ OutOfCalls \/ Fail
    \/ Publish

QualitySpec == QualityInit /\ [][QualityNext]_qualityVars

-----------------------------------------------------------------------------
\* An accepted report rests on the bundle its last review was shown: every
\* source of it was assessed as it reads there, no later addition or cut of a text
\* excepted, and each claim quotes one that was kept, in words that are still
\* in the text (_freeze, _validate, advance).  And where no answer was refused and
\* no worker died, a task that runs out of model calls has not begun, or has had
\* its draft reviewed and cannot afford another round: no pass it paid for is
\* left without the review it was made for (_call).
ReportIsSupported ==
    /\ accepted =>
        /\ bundle = [sources |-> materials, long |-> long]
        /\ assessed = bundle
        /\ \A x \in DOMAIN draft : Quotable(draft[x])
    /\ end = "out_of_calls" /\ slips = 0 => phase = "screen" \/ (rounds > 0 /\ phase # "check")
=============================================================================
