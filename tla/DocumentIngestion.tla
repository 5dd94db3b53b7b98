------------------------- MODULE DocumentIngestion -------------------------
(***************************************************************************)
(* Documents of one project: uploads, the job table, the worker that       *)
(* parses, embeds and indexes them, deletion, and questions answered from  *)
(* them.  A document lives in four places that share no transaction: its   *)
(* row and chunk rows in PostgreSQL, its points in the vector index, and   *)
(* its file.  A job is leased but carries no fencing token.                *)
(***************************************************************************)
EXTENDS Naturals, FiniteSets, Sequences, SequencesExt

CONSTANTS
    Docs,           \* document identifiers, one per upload
    Digest,         \* Digest[d]: the SHA-256 of the uploaded bytes
    Workers,        \* document workers that run at the same time
    MaxJobs,        \* jobs ever enqueued (a bound of the model)
    MaxAttempts,    \* rag_job_max_attempts
    MaxCrashes      \* deaths of workers (a bound of the model)

IngestionAssumption ==
    /\ IsFiniteSet(Docs) /\ IsFiniteSet(Workers)
    /\ MaxJobs \in Nat /\ MaxAttempts \in Nat \ {0} /\ MaxCrashes \in Nat

VARIABLES
    deleted,        \* the project's deleted_at is set
    doc,            \* doc[d]: status of the row, and whether its chunk rows are there
    file,           \* documents whose file is stored
    index,          \* index[d]: the points of d, none, the first batches, or all
    jobs,           \* the rows of document_jobs, in the order of creation
    line,           \* due jobs in the order of available_at
    worker,         \* what each worker has in hand
    query,          \* the knowledge query that runs, and its task row
    crashes

vars == <<deleted, doc, file, index, jobs, line, worker, query, crashes>>

JobIds == 1 .. Len(jobs)
HasRow(d) == doc[d].status \notin {"absent", "saving", "refused", "gone"}
Busy(j) == jobs[j].status \in {"queued", "processing"}
Rows == {d \in Docs : HasRow(d)}

Idle == [pc |-> "idle", job |-> 0, attempts |-> 0, retry |-> FALSE]
NoQuery == [status |-> "none", pc |-> "idle", scope |-> {}, evidence |-> {}, tries |-> 0]

Init ==
    /\ deleted = FALSE
    /\ doc = [d \in Docs |-> [status |-> "absent", chunks |-> FALSE]]
    /\ file = {}
    /\ index = [d \in Docs |-> "none"]
    /\ jobs = <<>>
    /\ line = <<>>
    /\ worker = [w \in Workers |-> Idle]
    /\ query = NoQuery
    /\ crashes = 0

(***************************************************************************)
(* The API.  A job enqueued now is due now, behind all that are due.       *)
(***************************************************************************)
Enqueue(d, kind) ==
    /\ Len(jobs) < MaxJobs
    /\ jobs' = Append(jobs, [doc |-> d, kind |-> kind, status |-> "queued",
                             attempts |-> 0, leased |-> FALSE])
    /\ line' = Append(line, Len(jobs'))

SaveFile(d) ==
    /\ ~deleted /\ doc[d].status = "absent"
    /\ doc' = [doc EXCEPT ![d].status = "saving"]
    /\ file' = file \cup {d}
    /\ UNCHANGED <<deleted, index, jobs, line, worker, query, crashes>>

\* create_document locks the project; (project, digest) is unique.
CreateRow(d) ==
    /\ doc[d].status = "saving"
    /\ ~deleted
    /\ \A e \in Rows : Digest[e] # Digest[d]
    /\ doc' = [doc EXCEPT ![d].status = "queued"]
    /\ Enqueue(d, "ingest")
    /\ UNCHANGED <<deleted, file, index, worker, query, crashes>>

RefuseDuplicate(d) ==
    /\ doc[d].status = "saving"
    /\ ~deleted
    /\ \E e \in Rows : Digest[e] = Digest[d]
    /\ doc' = [doc EXCEPT ![d].status = "refused"]
    /\ file' = file \ {d}
    /\ UNCHANGED <<deleted, index, jobs, line, worker, query, crashes>>

\* The project went away meanwhile, or the API process died: the file stays.
AbandonUpload(d) ==
    /\ doc[d].status = "saving"
    /\ doc' = [doc EXCEPT ![d].status = "refused"]
    /\ UNCHANGED <<deleted, file, index, jobs, line, worker, query, crashes>>

\* enqueue_document_job rechecks the status under the lock of the row.
RequestJob(d, kind, expected, status) ==
    /\ ~deleted /\ doc[d].status \in expected
    /\ doc' = [doc EXCEPT ![d].status = status]
    /\ Enqueue(d, kind)
    /\ UNCHANGED <<deleted, file, index, worker, query, crashes>>

Retry(d) == RequestJob(d, "ingest", {"failed"}, "queued")
Reindex(d) == RequestJob(d, "reindex", {"ready"}, "queued")
DeleteDocument(d) ==
    RequestJob(d, "delete", {"queued", "processing", "ready", "failed"}, "deleting")

\* Fault: project deletion looks at the queued jobs only.
NothingBusy == \A j \in JobIds : ~Busy(j)

DeleteProject ==
    /\ ~deleted
    /\ NothingBusy
    /\ query.status # "running"
    /\ deleted' = TRUE
    /\ UNCHANGED <<doc, file, index, jobs, line, worker, query, crashes>>

(***************************************************************************)
(* The worker: run_once.                                                   *)
(***************************************************************************)
\* Fault: a job whose worker died is never claimed again.
ClaimableQueued(j) == jobs[j].status = "queued"
Claimable(j) ==
    \/ jobs[j].status = "queued"
    \/ jobs[j].status = "processing" /\ ~jobs[j].leased

\* The claimable job that has been due for longest.
Foremost(j) ==
    \E i \in DOMAIN line :
        line[i] = j /\ \A k \in 1 .. i - 1 : ~Claimable(line[k])

InHand(w) == worker[w].job
Target(w) == jobs[InHand(w)].doc
Goto(w, pc) == worker' = [worker EXCEPT ![w].pc = pc]

ClaimJob(w) ==
    /\ worker[w].pc = "idle"
    /\ \E j \in JobIds :
         /\ Claimable(j) /\ Foremost(j)
         /\ jobs' = [jobs EXCEPT ![j].status = "processing",
                                 ![j].attempts = @ + 1, ![j].leased = TRUE]
         /\ doc' = IF jobs[j].kind = "delete" THEN doc
                   ELSE [doc EXCEPT ![jobs[j].doc].status = "processing"]
         /\ worker' = [worker EXCEPT ![w] =
              [pc |-> "load", job |-> j, attempts |-> jobs[j].attempts + 1, retry |-> FALSE]]
    /\ UNCHANGED <<deleted, file, index, line, query, crashes>>

LoadDocument(w) ==
    /\ worker[w].pc = "load"
    /\ Goto(w, IF ~HasRow(Target(w)) THEN "finish"
               ELSE IF jobs[InHand(w)].kind = "delete" THEN "wipe" ELSE "parse")
    /\ UNCHANGED <<deleted, doc, file, index, jobs, line, query, crashes>>

\* Fault: the row is dropped and the file forgotten.
WipeThenDrop == "drop"
\* A document is taken apart from the outside: points, file, row.
AfterWipe == "unlink"

WipeIndex(w) ==
    /\ worker[w].pc = "wipe"
    /\ index' = [index EXCEPT ![Target(w)] = "none"]
    /\ Goto(w, AfterWipe)
    /\ UNCHANGED <<deleted, doc, file, jobs, line, query, crashes>>

UnlinkFile(w) ==
    /\ worker[w].pc = "unlink"
    /\ file' = file \ {Target(w)}
    /\ Goto(w, "drop")
    /\ UNCHANGED <<deleted, doc, index, jobs, line, query, crashes>>

\* The row takes its chunk rows and all its jobs with it.
DropRow(w) ==
    LET d == Target(w)
        gone == {j \in JobIds : jobs[j].doc = d}
    IN  /\ worker[w].pc = "drop"
        /\ IF HasRow(d)
           THEN /\ doc' = [doc EXCEPT ![d] = [status |-> "gone", chunks |-> FALSE]]
                /\ jobs' = [j \in JobIds |->
                              IF j \in gone THEN [jobs[j] EXCEPT !.status = "gone"]
                              ELSE jobs[j]]
                /\ line' = SelectSeq(line, LAMBDA j : j \notin gone)
           ELSE UNCHANGED <<doc, jobs, line>>
        /\ worker' = [worker EXCEPT ![w] = Idle]
        /\ UNCHANGED <<deleted, file, index, query, crashes>>

AfterEmbedding == "clear"

\* The parser, in a thread of its own, reads the file; embedding only computes.
Parse(w) ==
    /\ worker[w].pc = "parse" /\ Target(w) \in file
    /\ Goto(w, "embed")
    /\ UNCHANGED <<deleted, doc, file, index, jobs, line, query, crashes>>

\* A document without text, or that is no readable PDF, fails for good.
Unsearchable(w) ==
    /\ worker[w].pc = "parse" /\ Target(w) \in file
    /\ worker' = [worker EXCEPT ![w].pc = "fail", ![w].retry = FALSE]
    /\ UNCHANGED <<deleted, doc, file, index, jobs, line, query, crashes>>

Embed(w) ==
    /\ worker[w].pc = "embed"
    /\ Goto(w, AfterEmbedding)
    /\ UNCHANGED <<deleted, doc, file, index, jobs, line, query, crashes>>

ClearIndex(w) ==
    /\ worker[w].pc = "clear"
    /\ index' = [index EXCEPT ![Target(w)] = "none"]
    /\ Goto(w, "upsert")
    /\ UNCHANGED <<deleted, doc, file, jobs, line, query, crashes>>

Upsert(w) ==
    /\ worker[w].pc = "upsert"
    /\ \/ index' = [index EXCEPT ![Target(w)] = "part"] /\ index # index' /\ Goto(w, "upsert")
       \/ index' = [index EXCEPT ![Target(w)] = "full"] /\ Goto(w, "store")
    /\ UNCHANGED <<deleted, doc, file, jobs, line, query, crashes>>

\* replace_chunks of a document that is gone raises LookupError.
StoreChunks(w) ==
    LET d == Target(w)
    IN  /\ worker[w].pc = "store"
        /\ HasRow(d)
        /\ doc' = [doc EXCEPT ![d] = [status |-> "ready", chunks |-> TRUE]]
        /\ Goto(w, "finish")
        /\ UNCHANGED <<deleted, file, index, jobs, line, query, crashes>>

\* The job leaves the line: it is over, or waits for its back-off.  When its row
\* is gone the worker process ends on a LookupError instead, and is restarted.
CloseJob(w, status) ==
    LET j == InHand(w)
    IN  /\ jobs' = IF jobs[j].status = "gone" THEN jobs
                   ELSE [jobs EXCEPT ![j].status = status, ![j].leased = FALSE]
        /\ line' = SelectSeq(line, LAMBDA k : k # j)
        /\ worker' = [worker EXCEPT ![w] = Idle]

CompleteJob(w) ==
    /\ worker[w].pc = "finish"
    /\ CloseJob(w, "succeeded")
    /\ UNCHANGED <<deleted, doc, file, index, query, crashes>>

RetryLeft(attempts) == attempts < MaxAttempts

\* Anything inside the try block may raise; a missing row always does.
Break(w) ==
    /\ worker[w].pc \in {"wipe", "unlink", "drop", "parse", "embed", "clear", "upsert",
                         "store", "finish"}
    /\ HasRow(Target(w)) \/ worker[w].pc # "finish"
    /\ worker' = [worker EXCEPT ![w].pc = "fail",
                                ![w].retry = RetryLeft(worker[w].attempts)]
    /\ UNCHANGED <<deleted, doc, file, index, jobs, line, query, crashes>>

\* fail_job sets the document's status too, whatever kind of job failed.
FailJob(w) ==
    LET d == Target(w)
        status == IF worker[w].retry THEN "queued" ELSE "failed"
    IN  /\ worker[w].pc = "fail"
        /\ CloseJob(w, status)
        /\ doc' = [doc EXCEPT ![d].status = IF HasRow(d) THEN status ELSE @]
        /\ UNCHANGED <<deleted, file, index, query, crashes>>

BackoffEnds(j) ==
    /\ jobs[j].status = "queued" /\ ~Contains(line, j)
    /\ line' = Append(line, j)
    /\ UNCHANGED <<deleted, doc, file, index, jobs, worker, query, crashes>>

LeaseEnds(j) ==
    /\ jobs[j].status = "processing" /\ jobs[j].leased
    /\ jobs' = [jobs EXCEPT ![j].leased = FALSE]
    /\ UNCHANGED <<deleted, doc, file, index, line, worker, query, crashes>>

Crash(w) ==
    /\ worker[w].pc # "idle" /\ crashes < MaxCrashes
    /\ worker' = [worker EXCEPT ![w] = Idle]
    /\ crashes' = crashes + 1
    /\ UNCHANGED <<deleted, doc, file, index, jobs, line, query>>

(***************************************************************************)
(* A question: scope, search, evidence, and at most two tries at a cited   *)
(* answer.  Its task row is created under the lock of the project.         *)
(***************************************************************************)
Ready == {d \in Docs : doc[d].status = "ready"}

QueryStarts ==
    /\ query.status = "none" /\ ~deleted
    /\ query' = [query EXCEPT !.status = "running", !.pc = "scope"]
    /\ UNCHANGED <<deleted, doc, file, index, jobs, line, worker, crashes>>

FinishQuery(status) == query' = [NoQuery EXCEPT !.status = status, !.pc = "over"]

\* _validate_scope: every document named must be ready, and one there must be.
QueryScopes(selection) ==
    /\ query.pc = "scope"
    /\ IF ~deleted /\ selection # {} /\ selection \subseteq Ready
       THEN query' = [query EXCEPT !.pc = "search", !.scope = selection]
       ELSE FinishQuery("failed")
    /\ UNCHANGED <<deleted, doc, file, index, jobs, line, worker, crashes>>

\* The filter on project and documents; what is relevant is for the models to say.
Hits(scope) == {d \in scope : index[d] # "none"}

\* Each hit becomes an evidence row of the task.
QuerySearches(found) ==
    /\ query.pc = "search"
    /\ found \subseteq Hits(query.scope)
    /\ IF found # {}
       THEN query' = [query EXCEPT !.pc = "write", !.evidence = found]
       ELSE FinishQuery("failed")
    /\ UNCHANGED <<deleted, doc, file, index, jobs, line, worker, crashes>>

\* _validate_answer: the marks in the text and the mapped claims must agree.
ValidAnswer(marks, mapped) ==
    marks # {} /\ marks \subseteq query.evidence /\ mapped = marks

QueryWrites(marks, mapped) ==
    /\ query.pc = "write"
    /\ IF ValidAnswer(marks, mapped) THEN FinishQuery("succeeded")
       ELSE IF query.tries < 1 THEN query' = [query EXCEPT !.tries = @ + 1]
       ELSE FinishQuery("failed")
    /\ UNCHANGED <<deleted, doc, file, index, jobs, line, worker, crashes>>

WorkerStep(w) ==
    \/ ClaimJob(w) \/ LoadDocument(w) \/ WipeIndex(w) \/ UnlinkFile(w) \/ DropRow(w)
    \/ Parse(w) \/ Unsearchable(w) \/ Embed(w) \/ ClearIndex(w) \/ Upsert(w) \/ StoreChunks(w) \/ CompleteJob(w)
    \/ Break(w) \/ FailJob(w)

UserStep ==
    \/ \E d \in Docs :
         \/ SaveFile(d) \/ CreateRow(d) \/ RefuseDuplicate(d) \/ AbandonUpload(d)
         \/ Retry(d) \/ Reindex(d) \/ DeleteDocument(d)
    \/ DeleteProject
    \/ QueryStarts
    \/ \E some \in SUBSET Docs :
         \/ QueryScopes(some) \/ QuerySearches(some)
         \/ \E mapped \in SUBSET some : QueryWrites(some, mapped)

TimePasses == \E j \in JobIds : BackoffEnds(j) \/ LeaseEnds(j)

Next ==
    \/ UserStep
    \/ TimePasses
    \/ \E w \in Workers : WorkerStep(w) \/ Crash(w)

\* The worker process is restarted when it ends; leases and back-offs run out.
Fairness ==
    /\ \A w \in Workers : WF_vars(WorkerStep(w))
    /\ WF_vars(TimePasses)

SafeSpec == Init /\ [][Next]_vars
Spec == SafeSpec /\ Fairness

(***************************************************************************)
(* Properties                                                              *)
(***************************************************************************)
\* A document shown as ready has all its points and chunk rows, unless its
\* deletion has begun (worker.py:107-113): the index is written before the
\* rows and neither write is undone when the other fails.  One that is gone
\* leaves no points and no file (worker.py:87-91), whatever crashed, failed or ran
\* before: no later job could remove them.  And a deleted project has no work
\* left or coming (repository.py:105-171): jobs and tasks are created under the
\* lock that deletion holds when it counts them.
DocumentsAreTrue ==
    /\ \A d \in Docs : doc[d].status = "ready" =>
        \/ index[d] = "full" /\ doc[d].chunks
        \/ \E j \in JobIds : jobs[j].doc = d /\ jobs[j].kind = "delete" /\ Busy(j)
    /\ \A d \in Docs : doc[d].status = "gone" => index[d] = "none" /\ d \notin file
    /\ deleted => (\A j \in JobIds : ~Busy(j)) /\ query.status # "running"

\* No document stays between two states (repository.py:321-454): whatever fails,
\* crashes or overwrites its status, it ends ready, failed or gone.
DocumentsSettle ==
    \A d \in Docs : doc[d].status \in {"queued", "processing", "deleting"}
        ~> doc[d].status \in {"ready", "failed", "gone"}
============================================================================
