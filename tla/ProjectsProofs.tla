-------------------------- MODULE ProjectsProofs --------------------------
(***************************************************************************)
(* What a project keeps of its documents and of its runs, for every number *)
(* of them.                                                                *)
(***************************************************************************)
EXTENDS DocumentIngestion, ProjectTasks, ProjectMemory, SequenceTheorems, TLAPS

-----------------------------------------------------------------------------
(* Documents: as long as there is one document worker, as the deployment     *)
(* has it, a document is what its status says.  With a second worker a job   *)
(* can be run by two at once, and the theorem is false.  The invariant says  *)
(* what the worker may rely on at each step of the job that it has in hand.  *)

OneWorker == \A v, w \in Workers : v = w

DocStates ==
    {"absent", "saving", "refused", "gone", "queued", "processing", "ready", "failed", "deleting"}
JobStates == {"queued", "processing", "succeeded", "failed", "gone"}
Kinds == {"ingest", "reindex", "delete"}

DocRow == [status : DocStates, chunks : BOOLEAN]
JobRow == [doc : Docs, kind : Kinds, status : JobStates, attempts : Nat, leased : BOOLEAN]

Queries == [status : {"none", "running", "succeeded", "failed"},
            pc : {"idle", "scope", "search", "write", "over"},
            scope : SUBSET Docs, evidence : SUBSET Docs, tries : Nat]

Deletes == {"wipe", "unlink", "drop"}
Writes == {"parse", "embed", "clear", "upsert", "store"}
Places == {"idle", "load", "finish", "fail"} \cup Deletes \cup Writes

Types ==
    /\ deleted \in BOOLEAN
    /\ doc \in [Docs -> DocRow]
    /\ index \in [Docs -> {"none", "part", "full"}]
    /\ jobs \in Seq(JobRow)
    /\ worker \in [Workers -> [pc : Places, job : Nat, attempts : Nat, retry : BOOLEAN]]
    /\ query \in Queries

\* A job that is on record has a document.
Rowed == \A j \in JobIds : jobs[j].status # "gone" => HasRow(jobs[j].doc)

\* What the worker knows of its job: nobody else has it, and what it has done
\* so far is still so.
Knows(w) ==
    worker[w].pc # "idle" =>
        /\ InHand(w) \in JobIds /\ jobs[InHand(w)].status = "processing"
        /\ worker[w].pc \in Deletes => jobs[InHand(w)].kind = "delete"
        /\ worker[w].pc \in Writes \cup {"finish"} => jobs[InHand(w)].kind # "delete"
        /\ worker[w].pc \in {"unlink", "drop"} => index[Target(w)] = "none"
        /\ worker[w].pc = "drop" => Target(w) \notin file
        /\ worker[w].pc = "store" => index[Target(w)] = "full"
        /\ worker[w].pc \in Writes => doc[Target(w)].status # "ready"
        /\ worker[w].pc = "load" /\ jobs[InHand(w)].kind # "delete" => doc[Target(w)].status # "ready"

\* The three parts of the promise.
Deleting(d) == \E j \in JobIds : jobs[j].doc = d /\ jobs[j].kind = "delete" /\ Busy(j)
Searchable(d) == doc[d].status = "ready" => (index[d] = "full" /\ doc[d].chunks) \/ Deleting(d)
Traceless(d) == doc[d].status = "gone" => index[d] = "none" /\ d \notin file
AtRest == deleted => (\A j \in JobIds : ~Busy(j)) /\ query.status # "running"

IInv ==
    /\ Types /\ Rowed /\ AtRest
    /\ \A w \in Workers : Knows(w)
    /\ \A d \in Docs : Searchable(d) /\ Traceless(d)

LEMMA Initial == ASSUME IngestionAssumption, Init PROVE IInv
<1>1. Len(jobs) = 0 /\ jobs \in Seq(JobRow)
  BY EmptySeq DEF Init
<1>2. Types
  <2>1. query \in Queries
    BY DEF Init, NoQuery, Queries
  <2>2. doc \in [Docs -> DocRow]
    BY DEF Init, DocRow, DocStates
  <2>3. worker \in [Workers -> [pc : Places, job : Nat, attempts : Nat, retry : BOOLEAN]]
    BY DEF Init, Idle, Places
  <2> QED  BY <1>1, <2>1, <2>2, <2>3 DEF Init, Types
<1>3. Rowed /\ AtRest
  <2>1. JobIds = {}
    BY <1>1 DEF JobIds
  <2>2. deleted = FALSE
    BY DEF Init
  <2> QED  BY <2>1, <2>2 DEF Rowed, AtRest
<1>4. \A w \in Workers : Knows(w)
  BY DEF Init, Knows, Idle
<1>5. \A d \in Docs : Searchable(d) /\ Traceless(d)
  BY DEF Init, Searchable, Traceless
<1> QED  BY <1>2, <1>3, <1>4, <1>5 DEF IInv

LEMMA Sound == ASSUME IInv PROVE DocumentsAreTrue
  BY DEF IInv, Searchable, Deleting, Traceless, AtRest, DocumentsAreTrue

-----------------------------------------------------------------------------
(* The job table.                                                          *)

LEMMA SameLength ==
  ASSUME jobs \in Seq(JobRow), jobs' \in [1 .. Len(jobs) -> JobRow]
  PROVE  jobs' \in Seq(JobRow) /\ Len(jobs') = Len(jobs) /\ JobIds' = JobIds
<1>1. Len(jobs) \in Nat
  BY LenProperties
<1>2. jobs' \in Seq(JobRow)
  BY <1>1, SeqDef
<1>3. Len(jobs') \in Nat /\ 1 .. Len(jobs') = 1 .. Len(jobs)
  BY <1>2, LenProperties
<1>4. Len(jobs') = Len(jobs)
  <2>1. \A n \in Nat : n \in 1 .. Len(jobs') <=> n \in 1 .. Len(jobs)
    BY <1>3
  <2>2. CASE Len(jobs') = 0
    BY <1>1, <2>1, <2>2
  <2>3. CASE Len(jobs') # 0
    <3>1. Len(jobs') <= Len(jobs)
      BY <1>1, <1>3, <2>1, <2>3
    <3>2. Len(jobs) <= Len(jobs')
      BY <1>1, <1>3, <2>1, <2>3
    <3> QED  BY <1>1, <1>3, <3>1, <3>2
  <2> QED  BY <2>2, <2>3
<1> QED  BY <1>2, <1>4 DEF JobIds

LEMMA JobsAreRows ==
  ASSUME Types
  PROVE  /\ Len(jobs) \in Nat /\ jobs \in [JobIds -> JobRow]
         /\ \A j \in JobIds : /\ j \in Nat /\ jobs[j].doc \in Docs /\ jobs[j].kind \in Kinds
                              /\ jobs[j].status \in JobStates /\ jobs[j].attempts \in Nat
                              /\ jobs[j].leased \in BOOLEAN
<1>1. Len(jobs) \in Nat /\ jobs \in [JobIds -> JobRow]
  BY LenProperties DEF Types, JobIds
<1> QED  BY <1>1 DEF JobIds, JobRow

LEMMA EnqueueAdds ==
  ASSUME Types, NEW d \in Docs, NEW kind \in Kinds, Enqueue(d, kind)
  PROVE  /\ jobs' \in Seq(JobRow) /\ JobIds' = JobIds \cup {Len(jobs')}
         /\ Len(jobs') \notin JobIds
         /\ \A j \in JobIds : jobs'[j] = jobs[j]
         /\ jobs'[Len(jobs')].doc = d /\ jobs'[Len(jobs')].kind = kind
         /\ jobs'[Len(jobs')].status = "queued"
<1> DEFINE row == [doc |-> d, kind |-> kind, status |-> "queued", attempts |-> 0, leased |-> FALSE]
<1>1. jobs' = Append(jobs, row) /\ row \in JobRow /\ jobs \in Seq(JobRow)
  BY DEF Enqueue, JobRow, JobStates, Types
<1>2. row.doc = d /\ row.kind = kind /\ row.status = "queued"
  OBVIOUS
<1> HIDE DEF row
<1>3. /\ jobs' \in Seq(JobRow) /\ Len(jobs') = Len(jobs) + 1 /\ Len(jobs) \in Nat
      /\ \A j \in 1 .. Len(jobs) : jobs'[j] = jobs[j]
      /\ jobs'[Len(jobs) + 1] = row
  BY <1>1, AppendProperties, LenProperties
<1> QED  BY <1>2, <1>3 DEF JobIds
\* What a status of a job becomes leaves the rest of the table alone.
Changed(j, value) ==
    /\ jobs' \in Seq(JobRow) /\ JobIds' = JobIds
    /\ \A k \in JobIds \ {j} : jobs'[k] = jobs[k]
    /\ jobs'[j].doc = jobs[j].doc /\ jobs'[j].kind = jobs[j].kind /\ jobs'[j].status = value

LEMMA JobChanges ==
  ASSUME Types, NEW j \in JobIds, NEW value \in JobStates, NEW row \in JobRow,
         row.doc = jobs[j].doc, row.kind = jobs[j].kind, row.status = value,
         jobs' = [jobs EXCEPT ![j] = row]
  PROVE  Changed(j, value)
<1>1. jobs' \in [1 .. Len(jobs) -> JobRow]
  BY JobsAreRows DEF JobIds
<1>2. jobs' \in Seq(JobRow) /\ JobIds' = JobIds
  BY <1>1, SameLength DEF Types
<1>3. (\A k \in JobIds \ {j} : jobs'[k] = jobs[k]) /\ jobs'[j] = row
  BY JobsAreRows
<1> QED  BY <1>2, <1>3 DEF Changed

\* And the row of a document.
RowBecomes(d, value) ==
    /\ doc' \in [Docs -> DocRow]
    /\ \A e \in Docs \ {d} : doc'[e] = doc[e]
    /\ doc'[d].status = value /\ doc'[d].chunks = doc[d].chunks

LEMMA DocChanges ==
  ASSUME Types, NEW d \in Docs, NEW value \in DocStates, doc' = [doc EXCEPT ![d].status = value]
  PROVE  RowBecomes(d, value)
<1>1. doc[d] \in DocRow /\ doc'[d] = [doc[d] EXCEPT !.status = value]
  BY DEF Types
<1>2. doc'[d] \in DocRow /\ doc'[d].status = value /\ doc'[d].chunks = doc[d].chunks
  BY <1>1 DEF DocRow
<1> QED  BY <1>2 DEF Types, RowBecomes

-----------------------------------------------------------------------------
(* Steps that leave the job table alone.                                   *)

LEMMA Unchanged == ASSUME IInv, UNCHANGED vars PROVE IInv'
<1>1. UNCHANGED <<deleted, doc, file, index, jobs, worker, query>>
  BY DEF vars
<1>2. Types' /\ Rowed' /\ AtRest'
  BY <1>1 DEF IInv, Types, Rowed, AtRest, JobIds, HasRow, Busy
<1>3. \A w \in Workers : Knows(w)'
  BY <1>1 DEF IInv, Knows, InHand, Target, JobIds
<1>4. \A d \in Docs : Searchable(d)' /\ Traceless(d)'
  BY <1>1 DEF IInv, Searchable, Deleting, Traceless, JobIds, Busy
<1> QED  BY <1>2, <1>3, <1>4 DEF IInv

\* A worker that has a job in hand has a document with it, of a project that is there.
LEMMA InHandFacts ==
  ASSUME IInv, NEW w \in Workers, worker[w].pc # "idle"
  PROVE  /\ Knows(w) /\ InHand(w) \in JobIds /\ jobs[InHand(w)].status = "processing"
         /\ Target(w) \in Docs /\ HasRow(Target(w)) /\ deleted = FALSE
<1>1. Knows(w) /\ InHand(w) \in JobIds /\ jobs[InHand(w)].status = "processing"
  BY DEF IInv, Knows
<1>2. Target(w) \in Docs
  BY <1>1, JobsAreRows DEF IInv, Target
<1>3. HasRow(Target(w))
  BY <1>1 DEF IInv, Rowed, Target
<1>4. deleted = FALSE
  BY <1>1 DEF IInv, Types, AtRest, Busy
<1> QED  BY <1>1, <1>2, <1>3, <1>4

\* Uploads: a document without a row is no worker's.
LEMMA UploadKeeps ==
  ASSUME IInv, NEW d \in Docs, SaveFile(d) \/ RefuseDuplicate(d) \/ AbandonUpload(d)
  PROVE  IInv'
<1>1. /\ UNCHANGED <<deleted, index, jobs, worker, query>>
      /\ \A e \in Docs \ {d} : doc'[e] = doc[e] /\ (e \in file' <=> e \in file)
      /\ doc[d].status \in {"absent", "saving"} /\ doc'[d].status \in {"saving", "refused"}
      /\ doc' \in [Docs -> DocRow]
  <2>1. \E value \in {"saving", "refused"} : doc' = [doc EXCEPT ![d].status = value]
    BY DEF SaveFile, RefuseDuplicate, AbandonUpload
  <2>2. PICK value \in {"saving", "refused"} : doc' = [doc EXCEPT ![d].status = value]
    BY <2>1
  <2>3. RowBecomes(d, value)
    BY <2>2, DocChanges DEF IInv, DocStates
  <2> QED  BY <2>3 DEF RowBecomes, SaveFile, RefuseDuplicate, AbandonUpload
<1>2. Types' /\ AtRest'
  BY <1>1 DEF IInv, Types, AtRest, JobIds, Busy
<1>3. Rowed'
  BY <1>1, JobsAreRows DEF IInv, Rowed, JobIds, HasRow
<1>4. ASSUME NEW w \in Workers PROVE Knows(w)'
  <2>1. CASE worker[w].pc = "idle"
    BY <1>1, <2>1 DEF Knows
  <2>2. CASE worker[w].pc # "idle"
    <3>1. Knows(w) /\ Target(w) \in Docs /\ Target(w) # d
      BY <1>1, <2>2, InHandFacts DEF HasRow
    <3> QED  BY <1>1, <3>1 DEF Knows, InHand, Target, JobIds
  <2> QED  BY <2>1, <2>2
<1>5. \A e \in Docs : Searchable(e)' /\ Traceless(e)'
  BY <1>1 DEF IInv, Searchable, Deleting, Traceless, JobIds, Busy
<1> QED  BY <1>2, <1>3, <1>4, <1>5 DEF IInv

\* The project is deleted, a question is asked, or a job becomes due again.
LEMMA AroundKeeps ==
  ASSUME IInv,
         \/ DeleteProject \/ QueryStarts
         \/ \E some \in SUBSET Docs :
              \/ QueryScopes(some) \/ QuerySearches(some)
              \/ \E mapped \in SUBSET some : QueryWrites(some, mapped)
         \/ \E j \in JobIds : BackoffEnds(j)
  PROVE  IInv'
<1>1. UNCHANGED <<doc, file, index, jobs, worker>>
  BY DEF DeleteProject, QueryStarts, QueryScopes, QuerySearches, QueryWrites, BackoffEnds
<1>2. Rowed' /\ (\A w \in Workers : Knows(w)') /\ \A d \in Docs : Searchable(d)' /\ Traceless(d)'
  BY <1>1 DEF IInv, Rowed, Knows, InHand, Target, Searchable, Deleting, Traceless, JobIds, HasRow, Busy
<1>3. Types' /\ AtRest'
  <2>1. CASE DeleteProject
    BY <1>1, <2>1 DEF IInv, Types, AtRest, DeleteProject, NothingBusy, JobIds, Busy
  <2>2. CASE QueryStarts
    <3>1. query' = [query EXCEPT !.status = "running", !.pc = "scope"] /\ ~deleted /\ ~deleted'
      BY <2>2 DEF QueryStarts
    <3>2. query' \in Queries
      BY <3>1 DEF IInv, Types, Queries
    <3> QED  BY <1>1, <2>2, <3>1, <3>2 DEF IInv, Types, AtRest, QueryStarts
  <2>3. ASSUME NEW some \in SUBSET Docs,
               QueryScopes(some) \/ QuerySearches(some)
               \/ \E mapped \in SUBSET some : QueryWrites(some, mapped)
        PROVE  Types' /\ AtRest'
    <3>1. /\ UNCHANGED deleted
          /\ query' \in Queries
          /\ query'.status = query.status \/ query'.status # "running"
      <4>1. UNCHANGED deleted
        BY <2>3 DEF QueryScopes, QuerySearches, QueryWrites
      <4>2. query \in Queries
        BY DEF IInv, Types
      <4>3. CASE FinishQuery("failed") \/ FinishQuery("succeeded")
        <5>1. NoQuery \in Queries
          BY DEF NoQuery, Queries
        <5>2. \/ query' = [NoQuery EXCEPT !.status = "failed", !.pc = "over"]
              \/ query' = [NoQuery EXCEPT !.status = "succeeded", !.pc = "over"]
          BY <4>3 DEF FinishQuery
        <5> QED  BY <4>1, <5>1, <5>2 DEF Queries
      <4>4. CASE query' = [query EXCEPT !.pc = "search", !.scope = some]
        BY <4>1, <4>2, <4>4 DEF Queries
      <4>5. CASE query' = [query EXCEPT !.pc = "write", !.evidence = some]
        BY <4>1, <4>2, <4>5 DEF Queries
      <4>6. CASE query' = [query EXCEPT !.tries = query.tries + 1]
        <5>1. query.tries + 1 \in Nat
          BY <4>2 DEF Queries
        <5> QED  BY <4>1, <4>2, <4>6, <5>1 DEF Queries
      <4> QED  BY <2>3, <4>3, <4>4, <4>5, <4>6 DEF QueryScopes, QuerySearches, QueryWrites
    <3> QED  BY <1>1, <3>1 DEF IInv, Types, AtRest, JobIds, Busy
  <2>4. ASSUME NEW j \in JobIds, BackoffEnds(j) PROVE Types' /\ AtRest'
    BY <1>1, <2>4 DEF IInv, Types, AtRest, BackoffEnds, JobIds, Busy
  <2> QED  BY <2>1, <2>2, <2>3, <2>4
<1> QED  BY <1>2, <1>3 DEF IInv
-----------------------------------------------------------------------------
(* Steps of the worker at a document.                                      *)

\* The worker goes on with its job.
GoesTo(w, pc) ==
    /\ worker' \in [Workers -> [pc : Places, job : Nat, attempts : Nat, retry : BOOLEAN]]
    /\ worker'[w].pc = pc /\ InHand(w)' = InHand(w)

LEMMA WorkerGoes ==
  ASSUME Types, NEW w \in Workers, NEW pc \in Places, NEW retry \in BOOLEAN,
         worker' = [worker EXCEPT ![w].pc = pc] \/ worker' = [worker EXCEPT ![w].pc = pc, ![w].retry = retry]
  PROVE  GoesTo(w, pc)
<1> DEFINE Hand == [pc : Places, job : Nat, attempts : Nat, retry : BOOLEAN]
<1>1. worker[w] \in Hand /\ worker \in [Workers -> Hand]
  BY DEF Types
<1>2. \/ worker' = [worker EXCEPT ![w] = [worker[w] EXCEPT !.pc = pc]]
      \/ worker' = [worker EXCEPT ![w] = [worker[w] EXCEPT !.pc = pc, !.retry = retry]]
  BY <1>1
<1>3. /\ [worker[w] EXCEPT !.pc = pc] \in Hand
      /\ [worker[w] EXCEPT !.pc = pc].pc = pc /\ [worker[w] EXCEPT !.pc = pc].job = worker[w].job
  BY <1>1
<1>4. /\ [worker[w] EXCEPT !.pc = pc, !.retry = retry] \in Hand
      /\ [worker[w] EXCEPT !.pc = pc, !.retry = retry].pc = pc
      /\ [worker[w] EXCEPT !.pc = pc, !.retry = retry].job = worker[w].job
  BY <1>1
<1>5. worker' \in [Workers -> Hand] /\ worker'[w].pc = pc /\ worker'[w].job = worker[w].job
  <2> HIDE DEF Hand
  <2> QED  BY <1>1, <1>2, <1>3, <1>4
<1> QED  BY <1>5 DEF GoesTo, InHand

LEMMA WorkerRests ==
  ASSUME Types, NEW w \in Workers, worker' = [worker EXCEPT ![w] = Idle]
  PROVE  /\ worker' \in [Workers -> [pc : Places, job : Nat, attempts : Nat, retry : BOOLEAN]]
         /\ worker'[w].pc = "idle"
  BY DEF Types, Idle, Places

\* What a step of the worker has to show that touches its own document only.
Inside(w, pc) ==
    /\ GoesTo(w, pc) /\ UNCHANGED <<deleted, jobs, query>>
    /\ doc' \in [Docs -> DocRow] /\ index' \in [Docs -> {"none", "part", "full"}]
    /\ \A d \in Docs \ {Target(w)} :
         doc'[d] = doc[d] /\ index'[d] = index[d] /\ (d \in file' => d \in file)
    /\ doc'[Target(w)].status \notin {"absent", "saving", "refused", "gone"}

LEMMA InsideKeeps ==
  ASSUME IInv, OneWorker, NEW w \in Workers, worker[w].pc # "idle", NEW pc \in Places, Inside(w, pc),
         Knows(w)', \A d \in Docs : d = Target(w) => Searchable(d)'
  PROVE  IInv'
<1>1. /\ Knows(w) /\ InHand(w) \in JobIds /\ jobs[InHand(w)].status = "processing"
      /\ Target(w) \in Docs /\ HasRow(Target(w)) /\ deleted = FALSE
  BY InHandFacts
<1>2. Types' /\ AtRest'
  BY <1>1 DEF IInv, Types, AtRest, Inside, GoesTo
<1>3. \A d \in Docs : HasRow(d) => HasRow(d)'
  BY <1>1 DEF Inside, HasRow
<1>4. Rowed'
  BY <1>3, JobsAreRows DEF IInv, Rowed, Inside, JobIds
<1>5. \A v \in Workers : Knows(v)'
  BY DEF OneWorker
<1>6. ASSUME NEW d \in Docs, d # Target(w) PROVE Searchable(d)' /\ Traceless(d)'
  BY <1>6 DEF IInv, Searchable, Traceless, Deleting, Inside, JobIds, Busy
<1>7. ASSUME NEW d \in Docs, d = Target(w) PROVE Traceless(d)'
  BY <1>1, <1>7 DEF Inside, HasRow, Traceless
<1> QED  BY <1>2, <1>4, <1>5, <1>6, <1>7 DEF IInv
\* Steps that only read, and a failure.
LEMMA ReadingKeeps ==
  ASSUME IInv, OneWorker, NEW w \in Workers,
         LoadDocument(w) \/ Parse(w) \/ Unsearchable(w) \/ Embed(w) \/ Break(w)
  PROVE  IInv'
<1>1. worker[w].pc # "idle" /\ UNCHANGED <<deleted, doc, file, index, jobs, query>>
  BY DEF LoadDocument, Parse, Unsearchable, Embed, Break
<1>2. /\ Knows(w) /\ InHand(w) \in JobIds /\ jobs[InHand(w)].status = "processing"
      /\ Target(w) \in Docs /\ HasRow(Target(w))
  BY <1>1, InHandFacts
<1>3. \E pc \in {"wipe", "parse", "embed", "clear", "fail"} :
        /\ GoesTo(w, pc)
        /\ pc = "wipe" => jobs[InHand(w)].kind = "delete"
        /\ pc = "parse" => worker[w].pc = "load" /\ jobs[InHand(w)].kind # "delete"
        /\ pc \in {"embed", "clear"} => worker[w].pc \in {"parse", "embed"}
  <2>1. CASE LoadDocument(w)
    <3> DEFINE pc == IF jobs[InHand(w)].kind = "delete" THEN "wipe" ELSE "parse"
    <3>1. worker[w].pc = "load" /\ worker' = [worker EXCEPT ![w].pc = pc]
      BY <1>2, <2>1 DEF LoadDocument, Goto
    <3>2. GoesTo(w, pc)
      BY <3>1, WorkerGoes DEF IInv, Places, Deletes, Writes
    <3> QED  BY <3>1, <3>2
  <2>2. CASE Parse(w) \/ Embed(w)
    <3>1. PICK pc \in {"embed", "clear"} : worker' = [worker EXCEPT ![w].pc = pc]
      BY <2>2 DEF Parse, Embed, Goto, AfterEmbedding
    <3>2. GoesTo(w, pc)
      BY <3>1, WorkerGoes DEF IInv, Places, Deletes, Writes
    <3> QED  BY <2>2, <3>2 DEF Parse, Embed
  <2>3. CASE Unsearchable(w) \/ Break(w)
    <3>1. RetryLeft(worker[w].attempts) \in BOOLEAN
      BY DEF RetryLeft
    <3>2. PICK retry \in BOOLEAN : worker' = [worker EXCEPT ![w].pc = "fail", ![w].retry = retry]
      BY <2>3, <3>1 DEF Unsearchable, Break
    <3>3. GoesTo(w, "fail")
      BY <3>2, WorkerGoes DEF IInv, Places
    <3> QED  BY <3>3
  <2> QED  BY <2>1, <2>2, <2>3
<1>4. PICK pc \in {"wipe", "parse", "embed", "clear", "fail"} :
        /\ GoesTo(w, pc)
        /\ pc = "wipe" => jobs[InHand(w)].kind = "delete"
        /\ pc = "parse" => worker[w].pc = "load" /\ jobs[InHand(w)].kind # "delete"
        /\ pc \in {"embed", "clear"} => worker[w].pc \in {"parse", "embed"}
  BY <1>3
<1>5. Inside(w, pc)
  BY <1>1, <1>2, <1>4 DEF Inside, IInv, Types, HasRow
<1>6. Knows(w)'
  <2>1. /\ worker'[w].pc = pc /\ InHand(w)' = InHand(w) /\ Target(w)' = Target(w)
        /\ JobIds' = JobIds
    BY <1>1, <1>4 DEF GoesTo, Target, JobIds
  <2> QED  BY <1>1, <1>2, <1>4, <2>1 DEF Knows, Deletes, Writes
<1>7. \A d \in Docs : Searchable(d)'
  BY <1>1 DEF IInv, Searchable, Deleting, JobIds, Busy
<1>8. pc \in Places
  BY DEF Places, Deletes, Writes
<1> QED  BY <1>1, <1>5, <1>6, <1>7, <1>8, InsideKeeps

\* The deletion of a document goes from the outside in, under a job that is
\* still on record.
LEMMA DeletionKeeps ==
  ASSUME IInv, OneWorker, NEW w \in Workers, WipeIndex(w) \/ UnlinkFile(w)
  PROVE  IInv'
<1>1. worker[w].pc \in Deletes /\ UNCHANGED <<deleted, doc, jobs, query>>
  BY DEF WipeIndex, UnlinkFile, Deletes
<1>2. /\ Knows(w) /\ InHand(w) \in JobIds /\ jobs[InHand(w)].status = "processing"
      /\ Target(w) \in Docs /\ HasRow(Target(w)) /\ jobs[InHand(w)].kind = "delete"
  BY <1>1, InHandFacts DEF Deletes, Knows
<1>3. PICK pc \in {"unlink", "drop"} :
        /\ GoesTo(w, pc) /\ index'[Target(w)] = "none"
        /\ pc = "drop" => Target(w) \notin file'
        /\ index' \in [Docs -> {"none", "part", "full"}]
        /\ \A d \in Docs \ {Target(w)} : index'[d] = index[d] /\ (d \in file' => d \in file)
  <2>1. CASE WipeIndex(w)
    <3>1. worker' = [worker EXCEPT ![w].pc = "unlink"]
      BY <2>1 DEF WipeIndex, Goto, AfterWipe
    <3>2. GoesTo(w, "unlink")
      BY <3>1, WorkerGoes DEF IInv, Places, Deletes
    <3> QED  BY <1>2, <2>1, <3>2 DEF WipeIndex, IInv, Types
  <2>2. CASE UnlinkFile(w)
    <3>1. worker' = [worker EXCEPT ![w].pc = "drop"] /\ worker[w].pc = "unlink"
      BY <2>2 DEF UnlinkFile, Goto
    <3>2. GoesTo(w, "drop")
      BY <3>1, WorkerGoes DEF IInv, Places, Deletes
    <3>3. index[Target(w)] = "none"
      BY <1>2, <3>1 DEF Knows
    <3> QED  BY <1>2, <2>2, <3>2, <3>3 DEF UnlinkFile, IInv, Types
  <2> QED  BY <2>1, <2>2
<1>4. Inside(w, pc)
  BY <1>1, <1>2, <1>3 DEF Inside, IInv, Types, HasRow
<1>5. Knows(w)'
  <2>1. /\ worker'[w].pc = pc /\ InHand(w)' = InHand(w) /\ Target(w)' = Target(w)
        /\ JobIds' = JobIds
    BY <1>1, <1>3 DEF GoesTo, Target, JobIds
  <2> QED  BY <1>1, <1>2, <1>3, <2>1 DEF Knows, Deletes, Writes
<1>7. ASSUME NEW d \in Docs, d = Target(w) PROVE Searchable(d)'
  <2>1. Deleting(d)'
    BY <1>1, <1>2, <1>7 DEF Deleting, Busy, JobIds, Target
  <2> QED  BY <2>1 DEF Searchable
<1>8. pc \in Places /\ worker[w].pc # "idle"
  BY <1>1 DEF Places, Deletes
<1> QED  BY <1>4, <1>5, <1>7, <1>8, InsideKeeps

\* The points are replaced while the document is not shown as ready, and the
\* rows come last.
LEMMA WritingKeeps ==
  ASSUME IInv, OneWorker, NEW w \in Workers, ClearIndex(w) \/ Upsert(w) \/ StoreChunks(w)
  PROVE  IInv'
<1>1. worker[w].pc \in Writes /\ UNCHANGED <<deleted, file, jobs, query>>
  BY DEF ClearIndex, Upsert, StoreChunks, Writes
<1>2. /\ Knows(w) /\ InHand(w) \in JobIds /\ jobs[InHand(w)].status = "processing"
      /\ Target(w) \in Docs /\ HasRow(Target(w)) /\ jobs[InHand(w)].kind # "delete"
      /\ doc[Target(w)].status # "ready"
  BY <1>1, InHandFacts DEF Writes, Knows
<1>3. PICK pc \in {"upsert", "store", "finish"} :
        /\ GoesTo(w, pc)
        /\ pc \in {"upsert", "store"} => UNCHANGED doc
        /\ pc \in {"store", "finish"} => index'[Target(w)] = "full"
        /\ pc = "finish" => doc'[Target(w)] = [status |-> "ready", chunks |-> TRUE]
        /\ index' \in [Docs -> {"none", "part", "full"}] /\ doc' \in [Docs -> DocRow]
        /\ \A d \in Docs \ {Target(w)} : index'[d] = index[d] /\ doc'[d] = doc[d]
  <2>1. CASE ClearIndex(w) \/ Upsert(w)
    <3>1. PICK pc \in {"upsert", "store"} :
            /\ worker' = [worker EXCEPT ![w].pc = pc]
            /\ pc = "store" => index' = [index EXCEPT ![Target(w)] = "full"]
      BY <2>1 DEF ClearIndex, Upsert, Goto
    <3>2. GoesTo(w, pc)
      BY <3>1, WorkerGoes DEF IInv, Places, Writes
    <3>3. UNCHANGED doc /\ \E points \in {"none", "part", "full"} : index' = [index EXCEPT ![Target(w)] = points]
      BY <2>1 DEF ClearIndex, Upsert
    <3> QED  BY <1>2, <3>1, <3>2, <3>3 DEF IInv, Types
  <2>2. CASE StoreChunks(w)
    <3>1. worker' = [worker EXCEPT ![w].pc = "finish"] /\ worker[w].pc = "store" /\ UNCHANGED index
      BY <2>2 DEF StoreChunks, Goto
    <3>2. GoesTo(w, "finish")
      BY <3>1, WorkerGoes DEF IInv, Places
    <3>3. index[Target(w)] = "full"
      BY <1>2, <3>1 DEF Knows
    <3>4. doc' = [doc EXCEPT ![Target(w)] = [status |-> "ready", chunks |-> TRUE]]
      BY <2>2 DEF StoreChunks
    <3>5. [status |-> "ready", chunks |-> TRUE] \in DocRow
      BY DEF DocRow, DocStates
    <3> QED  BY <1>2, <3>1, <3>2, <3>3, <3>4, <3>5 DEF IInv, Types
  <2> QED  BY <2>1, <2>2
<1>4. Inside(w, pc)
  BY <1>1, <1>2, <1>3 DEF Inside, HasRow
<1>5. Knows(w)'
  <2>1. /\ worker'[w].pc = pc /\ InHand(w)' = InHand(w) /\ Target(w)' = Target(w)
        /\ JobIds' = JobIds
    BY <1>1, <1>3 DEF GoesTo, Target, JobIds
  <2> QED  BY <1>1, <1>2, <1>3, <2>1 DEF Knows, Deletes, Writes
<1>6. \A d \in Docs : d = Target(w) => Searchable(d)'
  <2>1. CASE pc = "finish"
    BY <1>3, <2>1 DEF Searchable
  <2>2. CASE pc # "finish"
    BY <1>2, <1>3, <2>2 DEF Searchable
  <2> QED  BY <2>1, <2>2
<1>7. pc \in Places /\ worker[w].pc # "idle"
  BY <1>1 DEF Places, Writes
<1> QED  BY <1>4, <1>5, <1>6, <1>7, InsideKeeps
-----------------------------------------------------------------------------
(* Steps that change the job table.                                        *)

\* A new job, for a document that has a row now.
LEMMA EnqueueKeeps ==
  ASSUME IInv, NEW d \in Docs, CreateRow(d) \/ Retry(d) \/ Reindex(d) \/ DeleteDocument(d)
  PROVE  IInv'
<1>1. PICK kind \in Kinds, value \in {"queued", "deleting"} :
        /\ Enqueue(d, kind) /\ doc' = [doc EXCEPT ![d].status = value]
  BY DEF CreateRow, Retry, Reindex, DeleteDocument, RequestJob, Kinds
<1>2. ~deleted /\ doc[d].status # "gone" /\ UNCHANGED <<deleted, file, index, worker, query>>
  BY DEF CreateRow, Retry, Reindex, DeleteDocument, RequestJob
<1>3. RowBecomes(d, value)
  BY <1>1, DocChanges DEF IInv, DocStates
<1>4. /\ jobs' \in Seq(JobRow) /\ JobIds' = JobIds \cup {Len(jobs')}
      /\ \A j \in JobIds : jobs'[j] = jobs[j]
      /\ jobs'[Len(jobs')].doc = d
  BY <1>1, EnqueueAdds DEF IInv
<1>5. Types' /\ AtRest'
  BY <1>2, <1>3, <1>4 DEF IInv, Types, AtRest, RowBecomes
<1>6. Rowed'
  <2> DEFINE Without == {"absent", "saving", "refused", "gone"}
  <2>1. \A e \in Docs : doc[e].status \notin Without \/ e = d => doc'[e].status \notin Without
    BY <1>3 DEF RowBecomes
  <2> SUFFICES ASSUME NEW j \in JobIds', jobs'[j].status # "gone"
               PROVE  doc'[jobs'[j].doc].status \notin Without
    BY DEF Rowed, HasRow
  <2>2. CASE j = Len(jobs')
    BY <1>4, <2>1, <2>2
  <2>3. CASE j \in JobIds
    <3>1. doc[jobs[j].doc].status \notin Without /\ jobs[j].doc \in Docs
      BY <1>4, <2>3, JobsAreRows DEF IInv, Rowed, HasRow
    <3> QED  BY <1>4, <2>1, <2>3, <3>1
  <2> QED  BY <1>4, <2>2, <2>3
<1>7. \A w \in Workers : Knows(w)'
  <2> SUFFICES ASSUME NEW w \in Workers, worker[w].pc # "idle" PROVE Knows(w)'
    BY <1>2 DEF Knows
  <2>1. Knows(w) /\ InHand(w) \in JobIds /\ Target(w) \in Docs
    BY InHandFacts
  <2>2. InHand(w)' = InHand(w) /\ InHand(w) \in JobIds' /\ jobs'[InHand(w)] = jobs[InHand(w)] /\ Target(w)' = Target(w)
    BY <1>2, <1>4, <2>1 DEF InHand, Target
  <2>3. doc[Target(w)].status # "ready" => doc'[Target(w)].status # "ready"
    BY <1>3, <2>1 DEF RowBecomes
  <2> QED  BY <1>2, <2>1, <2>2, <2>3 DEF Knows
<1>8. ASSUME NEW e \in Docs PROVE Searchable(e)' /\ Traceless(e)'
  <2>1. CASE e = d
    BY <1>3, <2>1 DEF RowBecomes, Searchable, Traceless
  <2>2. CASE e # d
    <3>1. Deleting(e) => Deleting(e)'
      BY <1>4 DEF Deleting, Busy
    <3> QED  BY <1>2, <1>3, <2>2, <3>1 DEF IInv, RowBecomes, Searchable, Traceless
  <2> QED  BY <2>1, <2>2
<1> QED  BY <1>5, <1>6, <1>7, <1>8 DEF IInv

\* The lease of a job runs out, or its worker dies.
LEMMA LeaseEndsKeeps == ASSUME IInv, NEW j \in JobIds, LeaseEnds(j) PROVE IInv'
<1>1. jobs' = [jobs EXCEPT ![j].leased = FALSE] /\ UNCHANGED <<deleted, doc, file, index, worker, query>>
  BY DEF LeaseEnds
<1>2. jobs[j] \in JobRow /\ jobs \in [JobIds -> JobRow]
  BY JobsAreRows DEF IInv
<1>3. Changed(j, jobs[j].status)
  <2> DEFINE row == [jobs[j] EXCEPT !.leased = FALSE]
  <2>1. /\ row \in JobRow /\ row.doc = jobs[j].doc /\ row.kind = jobs[j].kind
        /\ row.status = jobs[j].status /\ jobs[j].status \in JobStates
    BY <1>2 DEF JobRow
  <2>2. jobs' = [jobs EXCEPT ![j] = row]
    BY <1>1, <1>2
  <2> HIDE DEF row
  <2> QED  BY <2>1, <2>2, JobChanges DEF IInv
<1>4. /\ JobIds' = JobIds /\ jobs' \in Seq(JobRow)
      /\ \A k \in JobIds : /\ jobs'[k].doc = jobs[k].doc /\ jobs'[k].kind = jobs[k].kind
                           /\ jobs'[k].status = jobs[k].status
  BY <1>3 DEF Changed
<1>5. Types' /\ Rowed' /\ AtRest'
  BY <1>1, <1>4 DEF IInv, Types, Rowed, HasRow, AtRest, Busy
<1>6. \A w \in Workers : Knows(w)'
  BY <1>1, <1>4 DEF IInv, Knows, InHand, Target
<1>7. \A d \in Docs : Searchable(d)' /\ Traceless(d)'
  BY <1>1, <1>4 DEF IInv, Searchable, Deleting, Traceless, Busy
<1> QED  BY <1>5, <1>6, <1>7 DEF IInv

LEMMA CrashKeeps == ASSUME IInv, OneWorker, NEW w \in Workers, Crash(w) PROVE IInv'
<1>1. worker' = [worker EXCEPT ![w] = Idle] /\ UNCHANGED <<deleted, doc, file, index, jobs, query>>
  BY DEF Crash
<1>2. /\ worker' \in [Workers -> [pc : Places, job : Nat, attempts : Nat, retry : BOOLEAN]]
      /\ worker'[w].pc = "idle"
  BY <1>1, WorkerRests DEF IInv
<1>3. Types' /\ Rowed' /\ AtRest'
  BY <1>1, <1>2 DEF IInv, Types, Rowed, HasRow, AtRest, JobIds, Busy
<1>4. \A v \in Workers : Knows(v)'
  BY <1>2 DEF OneWorker, Knows
<1>5. \A d \in Docs : Searchable(d)' /\ Traceless(d)'
  BY <1>1 DEF IInv, Searchable, Deleting, Traceless, JobIds, Busy
<1> QED  BY <1>3, <1>4, <1>5 DEF IInv

LEMMA ClaimKeeps == ASSUME IInv, OneWorker, NEW w \in Workers, ClaimJob(w) PROVE IInv'
<1>1. PICK j \in JobIds :
        /\ Claimable(j)
        /\ jobs' = [jobs EXCEPT ![j].status = "processing", ![j].attempts = @ + 1, ![j].leased = TRUE]
        /\ doc' = IF jobs[j].kind = "delete" THEN doc
                  ELSE [doc EXCEPT ![jobs[j].doc].status = "processing"]
        /\ worker' = [worker EXCEPT ![w] =
             [pc |-> "load", job |-> j, attempts |-> jobs[j].attempts + 1, retry |-> FALSE]]
  BY DEF ClaimJob
<1>2. UNCHANGED <<deleted, file, index, query>>
  BY DEF ClaimJob
<1>3. /\ jobs[j] \in JobRow /\ j \in Nat /\ jobs[j].doc \in Docs /\ jobs[j].attempts + 1 \in Nat
      /\ jobs \in [JobIds -> JobRow]
  BY JobsAreRows DEF IInv
<1>4. Changed(j, "processing")
  <2> DEFINE row == [jobs[j] EXCEPT !.status = "processing", !.attempts = @ + 1, !.leased = TRUE]
  <2>1. row \in JobRow /\ row.doc = jobs[j].doc /\ row.kind = jobs[j].kind /\ row.status = "processing"
    BY <1>3 DEF JobRow, JobStates
  <2>2. jobs' = [jobs EXCEPT ![j] = row]
    BY <1>1, <1>3
  <2> HIDE DEF row
  <2> QED  BY <2>1, <2>2, JobChanges DEF IInv, JobStates
<1>5. jobs[j].status \in {"queued", "processing"} /\ Busy(j) /\ HasRow(jobs[j].doc) /\ deleted = FALSE
  <2>1. jobs[j].status \in {"queued", "processing"}
    BY <1>1 DEF Claimable
  <2> QED  BY <2>1 DEF IInv, Types, Rowed, AtRest, Busy
<1>6. /\ worker' \in [Workers -> [pc : Places, job : Nat, attempts : Nat, retry : BOOLEAN]]
      /\ worker'[w].pc = "load" /\ InHand(w)' = j
  BY <1>1, <1>3 DEF IInv, Types, Places, InHand
<1>7. CASE jobs[j].kind = "delete"
  <2>1. UNCHANGED doc
    BY <1>1, <1>7
  <2>2. Types' /\ AtRest'
    BY <1>2, <1>4, <1>5, <1>6, <2>1 DEF IInv, Types, AtRest, Changed
  <2>3. Rowed'
    BY <1>4, <1>5, <2>1 DEF IInv, Rowed, Changed, HasRow
  <2>4. Knows(w)'
    BY <1>4, <1>6, <1>7 DEF Changed, Knows, Deletes, Writes
  <2>5. \A d \in Docs : Searchable(d)' /\ Traceless(d)'
    BY <1>2, <1>4, <2>1 DEF IInv, Searchable, Deleting, Traceless, Changed, Busy
  <2> QED  BY <2>2, <2>3, <2>4, <2>5 DEF IInv, OneWorker
<1>8. CASE jobs[j].kind # "delete"
  <2>1. RowBecomes(jobs[j].doc, "processing")
    BY <1>1, <1>3, <1>8, DocChanges DEF IInv, DocStates
  <2>2. Types' /\ AtRest'
    BY <1>2, <1>4, <1>5, <1>6, <2>1 DEF IInv, Types, AtRest, Changed, RowBecomes
  <2>3. Rowed'
    BY <1>4, <1>5, <2>1, JobsAreRows DEF IInv, Rowed, Changed, HasRow, RowBecomes
  <2>4. Knows(w)'
    <3>1. Target(w)' = jobs[j].doc
      BY <1>4, <1>6 DEF Changed, Target
    <3> QED  BY <1>4, <1>6, <1>8, <2>1, <3>1 DEF Changed, Knows, Deletes, Writes, RowBecomes
  <2>5. ASSUME NEW d \in Docs PROVE Searchable(d)' /\ Traceless(d)'
    <3>1. Deleting(d) => Deleting(d)'
      BY <1>4 DEF Deleting, Changed, Busy
    <3>2. CASE d = jobs[j].doc
      BY <2>1, <3>2 DEF RowBecomes, Searchable, Traceless
    <3>3. CASE d # jobs[j].doc
      BY <1>2, <2>1, <3>1, <3>3 DEF IInv, RowBecomes, Searchable, Traceless
    <3> QED  BY <3>2, <3>3
  <2> QED  BY <2>2, <2>3, <2>4, <2>5 DEF IInv, OneWorker
<1> QED  BY <1>7, <1>8
\* A job is closed when the document is written, or with the status it got.
LEMMA CloseKeeps ==
  ASSUME IInv, OneWorker, NEW w \in Workers, CompleteJob(w) \/ FailJob(w)
  PROVE  IInv'
<1> DEFINE j == InHand(w)
<1>1. /\ Knows(w) /\ j \in JobIds /\ jobs[j].status = "processing"
      /\ Target(w) \in Docs /\ HasRow(Target(w)) /\ deleted = FALSE
  BY InHandFacts DEF CompleteJob, FailJob
<1>2. UNCHANGED <<deleted, file, index, query>>
  BY DEF CompleteJob, FailJob
<1>3. PICK value \in {"succeeded", "queued", "failed"} :
        /\ CloseJob(w, value)
        /\ \/ UNCHANGED doc /\ jobs[j].kind # "delete"
           \/ value # "succeeded" /\ doc' = [doc EXCEPT ![Target(w)].status = value]
  <2>1. CASE CompleteJob(w)
    BY <1>1, <2>1 DEF CompleteJob, Knows
  <2>2. CASE FailJob(w)
    BY <1>1, <2>2 DEF FailJob
  <2> QED  BY <2>1, <2>2
<1>4. Changed(j, value)
  <2>1. jobs' = [jobs EXCEPT ![j].status = value, ![j].leased = FALSE]
    BY <1>1, <1>3 DEF CloseJob
  <2>2. jobs \in [JobIds -> JobRow] /\ jobs[j] \in JobRow /\ jobs[j].attempts \in Nat
    BY <1>1, JobsAreRows DEF IInv
  <2> HIDE DEF j
  <2> DEFINE row == [jobs[j] EXCEPT !.status = value, !.leased = FALSE]
  <2>3. row \in JobRow /\ row.doc = jobs[j].doc /\ row.kind = jobs[j].kind /\ row.status = value
    BY <2>2 DEF JobRow, JobStates
  <2>4. jobs' = [jobs EXCEPT ![j] = row]
    BY <2>1, <2>2
  <2> HIDE DEF row
  <2> QED  BY <1>1, <2>3, <2>4, JobChanges DEF IInv, JobStates
<1>5. /\ worker' \in [Workers -> [pc : Places, job : Nat, attempts : Nat, retry : BOOLEAN]]
      /\ worker'[w].pc = "idle"
  BY <1>3, WorkerRests DEF IInv, CloseJob
<1>6. Knows(w)'
  BY <1>5 DEF Knows
<1>7. Target(w) = jobs[j].doc
  BY DEF Target
<1> HIDE DEF j
<1>8. CASE UNCHANGED doc /\ jobs[j].kind # "delete"
  <2>1. Types' /\ AtRest'
    BY <1>1, <1>2, <1>4, <1>5, <1>8 DEF IInv, Types, AtRest, Changed
  <2>2. Rowed'
    BY <1>1, <1>4, <1>7, <1>8 DEF IInv, Rowed, Changed, HasRow
  <2>3. ASSUME NEW d \in Docs PROVE Searchable(d)' /\ Traceless(d)'
    <3>1. Deleting(d) => Deleting(d)'
      BY <1>4, <1>8 DEF Deleting, Changed, Busy
    <3> QED  BY <1>2, <1>8, <3>1 DEF IInv, Searchable, Traceless
  <2> QED  BY <1>6, <2>1, <2>2, <2>3 DEF IInv, OneWorker
<1>9. CASE value # "succeeded" /\ doc' = [doc EXCEPT ![Target(w)].status = value]
  <2>1. RowBecomes(Target(w), value)
    BY <1>1, <1>9, DocChanges DEF IInv, DocStates
  <2>2. Types' /\ AtRest'
    BY <1>1, <1>2, <1>4, <1>5, <2>1 DEF IInv, Types, AtRest, Changed, RowBecomes
  <2>3. Rowed'
    BY <1>1, <1>4, <1>7, <1>9, <2>1, JobsAreRows DEF IInv, Rowed, Changed, HasRow, RowBecomes
  <2>4. ASSUME NEW d \in Docs PROVE Searchable(d)' /\ Traceless(d)'
    <3>1. CASE d = Target(w)
      BY <1>9, <2>1, <3>1 DEF RowBecomes, Searchable, Traceless
    <3>2. CASE d # Target(w)
      <4>1. Deleting(d) => Deleting(d)'
        BY <1>4, <1>7, <3>2 DEF Deleting, Changed, Busy
      <4> QED  BY <1>2, <2>1, <3>2, <4>1 DEF IInv, RowBecomes, Searchable, Traceless
    <3> QED  BY <3>1, <3>2
  <2> QED  BY <1>6, <2>2, <2>3, <2>4 DEF IInv, OneWorker
<1> QED  BY <1>3, <1>8, <1>9

\* The row goes last, with all its jobs, when neither points nor file are left.
LEMMA DropKeeps == ASSUME IInv, OneWorker, NEW w \in Workers, DropRow(w) PROVE IInv'
<1> DEFINE d == Target(w)
           dropped == {j \in JobIds : jobs[j].doc = d}
<1>1. worker[w].pc = "drop" /\ worker' = [worker EXCEPT ![w] = Idle] /\ UNCHANGED <<deleted, file, index, query>>
  BY DEF DropRow
<1>2. Knows(w) /\ d \in Docs /\ HasRow(d) /\ deleted = FALSE
  BY <1>1, InHandFacts
<1>3. index[d] = "none" /\ d \notin file
  BY <1>1, <1>2 DEF Knows
<1>4. /\ doc' = [doc EXCEPT ![d] = [status |-> "gone", chunks |-> FALSE]]
      /\ jobs' = [j \in JobIds |-> IF j \in dropped THEN [jobs[j] EXCEPT !.status = "gone"] ELSE jobs[j]]
  BY <1>2 DEF DropRow
<1> HIDE DEF d
<1>5. /\ jobs \in [JobIds -> JobRow]
      /\ \A j \in JobIds : /\ [jobs[j] EXCEPT !.status = "gone"] \in JobRow
                           /\ [jobs[j] EXCEPT !.status = "gone"].status = "gone"
                           /\ [jobs[j] EXCEPT !.status = "gone"].doc = jobs[j].doc
  <2>1. jobs \in [JobIds -> JobRow]
    BY JobsAreRows DEF IInv
  <2>2. ASSUME NEW j \in JobIds
        PROVE  /\ [jobs[j] EXCEPT !.status = "gone"] \in JobRow
               /\ [jobs[j] EXCEPT !.status = "gone"].status = "gone"
               /\ [jobs[j] EXCEPT !.status = "gone"].doc = jobs[j].doc
    <3>1. jobs[j] \in JobRow
      BY <2>1
    <3> QED  BY <3>1 DEF JobRow, JobStates
  <2> QED  BY <2>1, <2>2
<1>6. /\ jobs' \in Seq(JobRow) /\ JobIds' = JobIds
  <2>1. jobs' \in [1 .. Len(jobs) -> JobRow]
    BY <1>4, <1>5 DEF JobIds
  <2> QED  BY <2>1, SameLength DEF IInv, Types
<1>7. /\ \A j \in JobIds : jobs[j].doc = d => jobs'[j].status = "gone" /\ jobs'[j].doc = d
      /\ \A j \in JobIds : jobs[j].doc # d => jobs'[j] = jobs[j]
  BY <1>4, <1>5
<1>8. /\ doc' \in [Docs -> DocRow] /\ doc'[d].status = "gone"
      /\ \A e \in Docs \ {d} : doc'[e] = doc[e]
  <2>1. [status |-> "gone", chunks |-> FALSE] \in DocRow
    BY DEF DocRow, DocStates
  <2> QED  BY <1>2, <1>4, <2>1 DEF IInv, Types
<1>9. /\ worker' \in [Workers -> [pc : Places, job : Nat, attempts : Nat, retry : BOOLEAN]]
      /\ worker'[w].pc = "idle"
  BY <1>1, WorkerRests DEF IInv
<1>10. Types' /\ AtRest'
  BY <1>1, <1>2, <1>6, <1>8, <1>9 DEF IInv, Types, AtRest
<1>11. Rowed'
  BY <1>6, <1>7, <1>8, JobsAreRows DEF IInv, Rowed, HasRow
<1>12. Knows(w)'
  BY <1>9 DEF Knows
<1>13. ASSUME NEW e \in Docs PROVE Searchable(e)' /\ Traceless(e)'
  <2>1. CASE e = d
    BY <1>1, <1>3, <1>8, <2>1 DEF Searchable, Traceless
  <2>2. CASE e # d
    <3>1. Deleting(e) => Deleting(e)'
      BY <1>6, <1>7, <2>2 DEF Deleting, Busy
    <3> QED  BY <1>1, <1>8, <2>2, <3>1 DEF IInv, Searchable, Traceless
  <2> QED  BY <2>1, <2>2
<1> QED  BY <1>10, <1>11, <1>12, <1>13 DEF IInv, OneWorker

-----------------------------------------------------------------------------
LEMMA Inductive == ASSUME IInv, OneWorker, [Next]_vars PROVE IInv'
<1>1. CASE UNCHANGED vars
  BY <1>1, Unchanged
<1>2. CASE UserStep
  BY <1>2, UploadKeeps, EnqueueKeeps, AroundKeeps DEF UserStep
<1>3. CASE TimePasses
  BY <1>3, AroundKeeps, LeaseEndsKeeps DEF TimePasses
<1>4. ASSUME NEW w \in Workers, WorkerStep(w) \/ Crash(w) PROVE IInv'
  BY <1>4, ReadingKeeps, DeletionKeeps, WritingKeeps, ClaimKeeps, CloseKeeps, DropKeeps, CrashKeeps
     DEF WorkerStep
<1> QED  BY <1>1, <1>2, <1>3, <1>4 DEF Next

\* With one worker, whatever fails, crashes or is asked for: a document shown as
\* ready can be searched, one that is gone left no trace, and a deleted project
\* has no work left.
THEOREM DocumentsAreWhatTheySay ==
  ASSUME IngestionAssumption, OneWorker PROVE SafeSpec => []DocumentsAreTrue
<1>1. Init => IInv
  BY Initial
<1>2. IInv /\ [Next]_vars => IInv'
  BY Inductive
<1>3. IInv => DocumentsAreTrue
  BY Sound
<1> QED  BY <1>1, <1>2, <1>3, PTL DEF SafeSpec

-----------------------------------------------------------------------------
(* Memory: every lesson on record was verified by a run that succeeded.  The *)
(* invariant says what a run knows of its own plans, which a lesson copies   *)
(* when the run has ended.                                                   *)

MemoryTypes ==
    /\ ended \in [Run -> Live \cup {"succeeded", "cancelled", "failed"}]
    /\ plan \in [Run -> Nat] /\ done \in [Run -> Nat]
    /\ faults \in [Run -> SUBSET Nat]
    /\ shown \in [Run -> SUBSET lessons]
    /\ passed \subseteq Run /\ learning \subseteq Run

\* What the newest plan says of the run: its result is that of the newest plan,
\* and a review that passed was of that result, which nobody blamed.
RunReviewed(r) ==
    /\ done[r] # 0 => done[r] = plan[r]
    /\ r \in passed => done[r] > 0 /\ plan[r] \notin faults[r]
    /\ r \in learning => r \in passed /\ ended[r] \notin Live
    /\ ended[r] = "succeeded" => r \in passed

\* A lesson on record, and one that is shown.
LessonVerified(l) ==
    /\ l.run \in Run /\ ended[l.run] = "succeeded"
    /\ l.failed \in faults[l.run]
    /\ l.cured = done[l.run] /\ l.cured > l.failed

MemoryInv ==
    /\ MemoryTypes
    /\ \A r \in Run : RunReviewed(r)
    /\ \A l \in lessons : LessonVerified(l)
    /\ \A r \in Run : \A l \in shown[r] : l.run # r

LEMMA MemoryInitial == MemoryInit => MemoryInv
  BY DEF MemoryInit, MemoryInv, MemoryTypes, RunReviewed, Live

\* The invariant implies the promise.
LEMMA MemorySound == MemoryInv => LessonsAreVerified
<1> SUFFICES ASSUME MemoryInv, NEW l \in lessons
             PROVE  /\ ended[l.run] = "succeeded" /\ l.run \in passed
                    /\ l.failed \in faults[l.run]
                    /\ l.cured = done[l.run] /\ l.cured > l.failed
                    /\ \A r \in Run : l \in shown[r] => l.run # r
  BY DEF LessonsAreVerified
<1>1. LessonVerified(l) /\ RunReviewed(l.run)
  BY DEF MemoryInv, LessonVerified
<1>2. \A r \in Run : l \in shown[r] => l.run # r
  BY DEF MemoryInv
<1> QED  BY <1>1, <1>2 DEF LessonVerified, RunReviewed

LEMMA MemoryUnchanged == MemoryInv /\ UNCHANGED memoryVars => MemoryInv'
  BY DEF MemoryInv, memoryVars, runVars, MemoryTypes, RunReviewed, LessonVerified

\* A lesson is of a run that has ended, so whatever a live run does leaves it alone.
LEMMA LiveRunKeeps ==
  ASSUME MemoryInv, NEW r \in Run, ended[r] \in Live,
         UNCHANGED lessons,
         \A s \in Run \ {r} : ended'[s] = ended[s] /\ faults'[s] = faults[s] /\ done'[s] = done[s]
  PROVE  \A l \in lessons' : LessonVerified(l)'
  BY DEF MemoryInv, LessonVerified, Live

LEMMA PlanKeeps == ASSUME MemoryInv, NEW r \in Run, Plan(r) PROVE MemoryInv'
<1>1. MemoryTypes'
  BY DEF MemoryInv, MemoryTypes, Plan, Offered
<1>2. \A s \in Run : RunReviewed(s)'
  BY DEF MemoryInv, MemoryTypes, RunReviewed, Plan
<1>3. \A l \in lessons' : LessonVerified(l)'
  BY LiveRunKeeps DEF MemoryInv, MemoryTypes, Plan
<1>4. \A l \in lessons : l.run # r
  BY DEF MemoryInv, LessonVerified, Plan, Live
<1>5. \A s \in Run : \A l \in shown'[s] : l.run # s
  BY <1>4 DEF MemoryInv, MemoryTypes, Plan, Offered
<1> QED  BY <1>1, <1>2, <1>3, <1>5 DEF MemoryInv

LEMMA RunStepKeeps == ASSUME MemoryInv, NEW r \in Run, RunStep(r) PROVE MemoryInv'
<1>1. MemoryTypes'
  BY DEF MemoryInv, MemoryTypes, RunStep
<1>2. \A s \in Run : RunReviewed(s)'
  BY DEF MemoryInv, MemoryTypes, RunReviewed, RunStep
<1>3. \A l \in lessons' : LessonVerified(l)'
  BY LiveRunKeeps DEF MemoryInv, MemoryTypes, RunStep
<1> QED  BY <1>1, <1>2, <1>3 DEF MemoryInv, RunStep

LEMMA ReviewKeeps == ASSUME MemoryInv, NEW r \in Run, Review(r) PROVE MemoryInv'
<1>1. MemoryTypes'
  BY DEF MemoryInv, MemoryTypes, Review
<1>2. \A s \in Run : RunReviewed(s)'
  BY DEF MemoryInv, MemoryTypes, RunReviewed, Review, Live
<1>3. \A l \in lessons' : LessonVerified(l)'
  BY LiveRunKeeps DEF MemoryInv, MemoryTypes, Review
<1> QED  BY <1>1, <1>2, <1>3 DEF MemoryInv, Review

LEMMA CancelRunKeeps == ASSUME MemoryInv, NEW r \in Run, CancelRun(r) PROVE MemoryInv'
<1>1. MemoryTypes'
  BY DEF MemoryInv, MemoryTypes, CancelRun, Live
<1>2. \A s \in Run : RunReviewed(s)'
  BY DEF MemoryInv, MemoryTypes, RunReviewed, CancelRun, Live
<1>3. \A l \in lessons' : LessonVerified(l)'
  BY LiveRunKeeps DEF MemoryInv, MemoryTypes, CancelRun, Live
<1> QED  BY <1>1, <1>2, <1>3 DEF MemoryInv, CancelRun

LEMMA EndKeeps == ASSUME MemoryInv, NEW r \in Run, Finish(r) \/ Abandon(r) PROVE MemoryInv'
<1>1. MemoryTypes'
  BY DEF MemoryInv, MemoryTypes, Finish, Abandon, Live
<1>2. \A s \in Run : RunReviewed(s)'
  BY DEF MemoryInv, MemoryTypes, RunReviewed, Finish, Abandon, Live
<1>3. \A l \in lessons' : LessonVerified(l)'
  BY LiveRunKeeps DEF MemoryInv, MemoryTypes, Finish, Abandon
<1> QED  BY <1>1, <1>2, <1>3 DEF MemoryInv, Finish, Abandon

\* Only learning adds a lesson, and the task's row, not the worker, says whether.
LEMMA LearnKeeps == ASSUME MemoryInv, NEW r \in Run, Learn(r) PROVE MemoryInv'
<1> DEFINE new == {[run |-> r, failed |-> p, cured |-> done[r]] : p \in Cured(r)}
<1>1. MemoryTypes'
  BY DEF MemoryInv, MemoryTypes, Learn
<1>2. \A s \in Run : RunReviewed(s)'
  BY DEF MemoryInv, MemoryTypes, RunReviewed, Learn
<1>3. ASSUME ended[r] = "succeeded", NEW l \in new PROVE LessonVerified(l)
  <2>1. PICK p \in Cured(r) : l = [run |-> r, failed |-> p, cured |-> done[r]]
    OBVIOUS
  <2>2. p \in faults[r] /\ done[r] > p
    BY <2>1 DEF Cured
  <2> QED  BY <1>3, <2>1, <2>2 DEF LessonVerified
<1>4. \A l \in lessons' : LessonVerified(l)
  <2>1. \A l \in lessons : LessonVerified(l)
    BY DEF MemoryInv
  <2>2. lessons' = lessons \/ (ended[r] = "succeeded" /\ lessons' = lessons \cup new)
    BY DEF Learn, HasSucceeded
  <2> HIDE DEF new
  <2> QED  BY <2>1, <2>2, <1>3
<1>5. \A l \in lessons' : LessonVerified(l)'
  BY <1>4 DEF LessonVerified, Learn
<1> QED  BY <1>1, <1>2, <1>5 DEF MemoryInv, Learn

LEMMA MemoryInductive == MemoryInv /\ [MemoryNext]_memoryVars => MemoryInv'
<1> SUFFICES ASSUME MemoryInv, [MemoryNext]_memoryVars PROVE MemoryInv'
  OBVIOUS
<1>1. ASSUME NEW l \in lessons, Switch(l) PROVE MemoryInv'
  BY <1>1 DEF MemoryInv, MemoryTypes, RunReviewed, LessonVerified, Switch, runVars
<1>2. CASE UNCHANGED memoryVars
  BY <1>2, MemoryUnchanged
<1> QED
  BY <1>1, <1>2, PlanKeeps, RunStepKeeps, ReviewKeeps, CancelRunKeeps, EndKeeps, LearnKeeps DEF MemoryNext

\* Every lesson that a planner is ever shown was left by another run, which
\* succeeded, whose last review passed, and in which the recommended plan
\* replaced the one that was blamed.
THEOREM LessonsHold == MemorySpec => []LessonsAreVerified
<1>1. MemoryInit => MemoryInv
  BY MemoryInitial
<1>2. MemoryInv /\ [MemoryNext]_memoryVars => MemoryInv'
  BY MemoryInductive
<1>3. MemoryInv => LessonsAreVerified
  BY MemorySound
<1> QED  BY <1>1, <1>2, <1>3, PTL DEF MemorySpec

-----------------------------------------------------------------------------
(* Tasks: a key has one job, and what is owned is neither hidden nor at an   *)
(* end.                                                                      *)

Statuses == {"queued", "running", "cancel_requested", "recovery_required"} \cup Terminal
JobKey == [key : Key, body : Body]
Answers == [key : Key, body : Body, task : Task]

TaskTypes ==
  /\ status \in [Task -> Statuses \cup {"none"}]
  /\ parent \in [Task -> Task \cup {None}]
  /\ keyed \in [Task -> JobKey \cup {NoJob}]
  /\ owned \subseteq Task /\ open \subseteq Task /\ strays \subseteq Task /\ hidden \subseteq Task
  /\ request \in [Client -> JobKey \cup {NoJob}]
  /\ told \subseteq Answers

\* A job is a task without parent, and a key has one.
OneJob ==
  /\ \A t \in Task : keyed[t] # NoJob => status[t] # "none" /\ parent[t] = None
  /\ \A t, u \in Task : keyed[t] # NoJob /\ keyed[u] # NoJob /\ keyed[t].key = keyed[u].key => t = u
  /\ \A a \in told : keyed[a.task] # NoJob /\ keyed[a.task] = [key |-> a.key, body |-> a.body]

\* Who works does so for a task there is; an owner has a job under way.
WorkIsOnRows ==
  /\ \A t \in owned : keyed[t] # NoJob /\ status[t] \in {"running", "cancel_requested"}
  /\ \A t \in strays : status[t] # "none"

Rest ==
  /\ gone => open = {} /\ owned = {} /\ \A t \in Task : status[t] \in Terminal \cup {"none"}
  /\ \A t \in hidden : t \notin owned /\ status[t] \in Terminal

TasksInv == TaskTypes /\ OneJob /\ WorkIsOnRows /\ Rest

LEMMA TasksSound == ASSUME TasksInv PROVE SubmittedOnce /\ RemovedIsAtRest
<1>1. RemovedIsAtRest
  BY DEF TasksInv, TaskTypes, Rest, RemovedIsAtRest, TaskRows
<1>2. ASSUME NEW a \in told PROVE Holders(a.key) = {a.task} /\ keyed[a.task].body = a.body
  <2>1. a.task \in Task /\ keyed[a.task] # NoJob /\ keyed[a.task].key = a.key /\ keyed[a.task].body = a.body
    <3>1. a \in Answers
      BY DEF TasksInv, TaskTypes
    <3>2. keyed[a.task] # NoJob /\ keyed[a.task] = [key |-> a.key, body |-> a.body]
      BY DEF TasksInv, OneJob
    <3> QED  BY <3>1, <3>2 DEF Answers
  <2>2. a.task \in Holders(a.key)
    BY <2>1 DEF TasksInv, OneJob, Holders, Jobs, TaskRows
  <2>3. \A t \in Holders(a.key) : t = a.task
    BY <2>1 DEF TasksInv, OneJob, Holders, Jobs, TaskRows
  <2> QED  BY <2>1, <2>2, <2>3
<1> QED  BY <1>1, <1>2 DEF SubmittedOnce

LEMMA TasksInitial == ASSUME TasksInit PROVE TasksInv
  BY DEF TasksInit, TasksInv, TaskTypes, OneJob, WorkIsOnRows, Rest

\* A step of work changes one row, and whose it is.
LEMMA WorkKeeps ==
  ASSUME TasksInv, NEW t \in Task, NEW s \in Statuses, status[t] # "none", Work(t, s),
         owned' \subseteq owned \cup {t}, open' \subseteq open \cup {t}, strays' \subseteq strays \cup {t},
         t \in owned' => keyed[t] # NoJob /\ s \in {"running", "cancel_requested"},
         t \in hidden => s \in Terminal /\ t \notin owned',
         gone => open' = {} /\ owned' = {} /\ s \in Terminal
  PROVE  TasksInv'
<1> USE DEF TasksInv
<1>1. /\ status' = [status EXCEPT ![t] = s]
      /\ UNCHANGED <<parent, keyed, gone, hidden, request, told>>
  BY DEF Work, NoNewRow
<1>2. /\ status' \in [Task -> Statuses \cup {"none"}] /\ status'[t] = s /\ s # "none"
      /\ \A u \in Task \ {t} : status'[u] = status[u]
  BY <1>1 DEF TaskTypes, Statuses, Terminal
<1>3. TaskTypes'
  BY <1>1, <1>2 DEF TaskTypes
<1>4. OneJob'
  BY <1>1, <1>2 DEF OneJob
<1>5. WorkIsOnRows'
  BY <1>1, <1>2 DEF WorkIsOnRows, TaskTypes
<1>6. Rest'
  BY <1>1, <1>2 DEF Rest, TaskTypes
<1> QED  BY <1>3, <1>4, <1>5, <1>6

LEMMA WorkerOfTaskKeeps ==
  ASSUME TasksInv, NEW t \in Task,
         \/ ClaimTask(t) \/ TakeOver(t) \/ StartCall(t) \/ EndCall(t) \/ Save(t) \/ CancelTask(t)
         \/ EndSync(t) \/ EndStray(t) \/ EndChild(t)
  PROVE  TasksInv'
<1> USE DEF TasksInv
<1>1. /\ t \in owned => keyed[t] # NoJob /\ status[t] \in {"running", "cancel_requested"}
      /\ t \in strays => status[t] # "none"
      /\ status[t] \in Statuses \cup {"none"}
      /\ t \in Jobs => keyed[t] # NoJob /\ status[t] # "none"
      /\ gone => open = {} /\ owned = {} /\ status[t] \in Terminal \cup {"none"}
      /\ t \in hidden => t \notin owned /\ status[t] \in Terminal
  BY DEF WorkIsOnRows, TaskTypes, Jobs, TaskRows, Rest
<1>2. CASE ClaimTask(t)
  BY <1>1, <1>2, WorkKeeps DEF ClaimTask, Statuses, Terminal
<1>3. CASE TakeOver(t)
  BY <1>1, <1>3, WorkKeeps DEF TakeOver, Statuses, Terminal
<1>4. CASE StartCall(t)
  BY <1>1, <1>4, WorkKeeps DEF StartCall, Statuses, Terminal
<1>5. CASE EndCall(t)
  BY <1>1, <1>5, WorkKeeps DEF EndCall, Statuses, Terminal
<1>6. CASE Save(t)
  <2>1. PICK s \in Statuses : Work(t, s)
    BY <1>6 DEF Save, Statuses, Terminal
  <2>2. t \in owned /\ owned' = owned \ {t} /\ open' = open /\ strays' = strays
    BY <1>6 DEF Save
  <2>3. status[t] # "none" /\ t \notin hidden /\ ~gone /\ t \notin owned'
    BY <1>1, <2>2
  <2>4. owned' \subseteq owned \cup {t} /\ open' \subseteq open \cup {t} /\ strays' \subseteq strays \cup {t}
    BY <2>2
  <2> QED  BY <2>1, <2>3, <2>4, WorkKeeps
<1>7. CASE CancelTask(t)
  BY <1>1, <1>7, WorkKeeps DEF CancelTask, workVars, Statuses, Terminal
<1>8. CASE EndSync(t)
  <2>1. t \notin owned
    BY <1>1, <1>8 DEF EndSync, Jobs, TaskRows
  <2> QED  BY <1>1, <1>8, <2>1, WorkKeeps DEF EndSync, Statuses, Terminal
<1>9. CASE EndStray(t)
  BY <1>1, <1>9, WorkKeeps DEF EndStray, Statuses, Terminal
<1>10. CASE EndChild(t)
  <2>1. parent[t] \in Task /\ status[t] = "running"
    BY <1>10 DEF EndChild, Actors, TaskTypes
  <2>2. t \notin owned
    BY <1>1, <2>1, TasksAssumption DEF OneJob, None
  <2> QED  BY <1>1, <1>10, <2>1, <2>2, WorkKeeps DEF EndChild, workVars, Statuses, Terminal
<1> QED  BY <1>2, <1>3, <1>4, <1>5, <1>6, <1>7, <1>8, <1>9, <1>10

\* The place of a row is taken for good, and a key with it.
LEMMA AddKeeps ==
  ASSUME TasksInv, ~gone, TaskRows # Task,
         NEW s \in {"queued", "running"}, NEW p \in Task \cup {None}, NEW j \in JobKey \cup {NoJob},
         j # NoJob => Holders(j.key) = {} /\ p = None,
         AddRow(NewTask, s, p, j),
         UNCHANGED <<gone, owned, open, hidden>>, strays' \subseteq strays \cup {NewTask},
         request' \in [Client -> JobKey \cup {NoJob}],
         told' = told \/ (j # NoJob /\ told' = told \cup {[key |-> j.key, body |-> j.body, task |-> NewTask]})
  PROVE  TasksInv'
<1> USE DEF TasksInv
<1>1. PICK n \in Task : n = NewTask /\ status[n] = "none"
  BY DEF NewTask, TaskRows
<1>2. keyed[n] = NoJob /\ n \notin owned /\ n \notin strays /\ n \notin hidden
  BY <1>1 DEF OneJob, WorkIsOnRows, Rest, Terminal
<1>3. /\ status' = [status EXCEPT ![n] = s] /\ parent' = [parent EXCEPT ![n] = p]
      /\ keyed' = [keyed EXCEPT ![n] = j]
  BY <1>1 DEF AddRow
<1>4. /\ status' \in [Task -> Statuses \cup {"none"}] /\ parent' \in [Task -> Task \cup {None}]
      /\ keyed' \in [Task -> JobKey \cup {NoJob}]
      /\ status'[n] = s /\ parent'[n] = p /\ keyed'[n] = j
      /\ \A u \in Task \ {n} : status'[u] = status[u] /\ parent'[u] = parent[u] /\ keyed'[u] = keyed[u]
  BY <1>3 DEF TaskTypes, Statuses
<1>5. ASSUME j # NoJob PROVE /\ j = [key |-> j.key, body |-> j.body]
                             /\ [key |-> j.key, body |-> j.body, task |-> n] \in Answers
  <2>1. j \in JobKey
    BY <1>5
  <2> QED  BY <2>1 DEF JobKey, Answers
<1>6. TaskTypes'
  <2>1. told' \subseteq Answers
    BY <1>1, <1>5 DEF TaskTypes
  <2> QED  BY <1>1, <1>4, <2>1 DEF TaskTypes
<1>7. OneJob'
  <2>1. \A t \in Task : keyed'[t] # NoJob => status'[t] # "none" /\ parent'[t] = None
    BY <1>4 DEF OneJob
  <2>2. ASSUME j # NoJob, NEW t \in Task \ {n}, keyed[t] # NoJob PROVE keyed[t].key # j.key
    BY <2>2 DEF Holders, Jobs, TaskRows, OneJob
  <2>3. \A t, u \in Task : keyed'[t] # NoJob /\ keyed'[u] # NoJob /\ keyed'[t].key = keyed'[u].key => t = u
    BY <1>4, <2>2 DEF OneJob
  <2>4. ASSUME NEW a \in told' PROVE keyed'[a.task] # NoJob /\ keyed'[a.task] = [key |-> a.key, body |-> a.body]
    <3>1. CASE a \in told
      <4>1. a.task \in Task /\ keyed[a.task] # NoJob /\ keyed[a.task] = [key |-> a.key, body |-> a.body]
        BY <3>1 DEF TaskTypes, OneJob, Answers
      <4> QED  BY <1>2, <1>4, <4>1
    <3>2. CASE j # NoJob /\ a = [key |-> j.key, body |-> j.body, task |-> n]
      BY <1>4, <1>5, <3>2
    <3> QED  BY <1>1, <2>4, <3>1, <3>2
  <2> QED  BY <2>1, <2>3, <2>4 DEF OneJob
<1>8. WorkIsOnRows'
  BY <1>1, <1>2, <1>4 DEF WorkIsOnRows, TaskTypes
<1>9. Rest'
  BY <1>2, <1>4 DEF Rest, TaskTypes
<1> QED  BY <1>6, <1>7, <1>8, <1>9

\* Who is told of a row there is, is told the one that has the key.
LEMMA TellKeeps ==
  ASSUME TasksInv, NEW c \in Client, NEW j \in JobKey, NEW t \in Holders(j.key), Tell(c, j, t),
         UNCHANGED <<gone, enabled, status, parent, keyed, workVars, hidden>>
  PROVE  TasksInv'
<1> USE DEF TasksInv
<1>1. t \in Task /\ keyed[t] # NoJob
  BY DEF Holders, Jobs, TaskRows
<1>2. request' \in [Client -> JobKey \cup {NoJob}]
  BY DEF Tell, TaskTypes
<1>3. ASSUME NEW a \in told' PROVE a \in Answers /\ keyed[a.task] # NoJob /\ keyed[a.task] = [key |-> a.key, body |-> a.body]
  <2>1. CASE a \in told
    BY <2>1 DEF TaskTypes, OneJob
  <2>2. CASE a \notin told
    <3>1. keyed[t] = j /\ a = [key |-> j.key, body |-> j.body, task |-> t]
      BY <1>1, <1>3, <2>2 DEF Tell
    <3> QED  BY <1>1, <3>1 DEF JobKey, Answers
  <2> QED  BY <2>1, <2>2
<1>4. TaskTypes'
  BY <1>2, <1>3 DEF TaskTypes, workVars
<1>5. OneJob' /\ WorkIsOnRows' /\ Rest'
  BY <1>3 DEF OneJob, WorkIsOnRows, Rest, workVars
<1> QED  BY <1>4, <1>5

LEMMA AskKeeps ==
  ASSUME TasksInv, request' \in [Client -> JobKey \cup {NoJob}],
         UNCHANGED <<status, parent, keyed, workVars, hidden, told>>,
         gone' = gone \/ (gone' /\ RemoveProject)
  PROVE  TasksInv'
<1> USE DEF TasksInv
<1>1. TaskTypes' /\ OneJob' /\ WorkIsOnRows'
  BY DEF TaskTypes, OneJob, WorkIsOnRows, workVars
<1>2. CASE gone' = gone
  BY <1>1, <1>2 DEF Rest, workVars
<1>3. CASE RemoveProject
  <2>1. open = {} /\ \A t \in Task : status[t] \in Terminal \cup {"none"}
    BY <1>3 DEF RemoveProject, TaskRows
  <2>2. owned = {}
    BY <2>1 DEF WorkIsOnRows, TaskTypes, Terminal
  <2> QED  BY <1>1, <2>1, <2>2 DEF Rest, workVars
<1> QED  BY <1>1, <1>2, <1>3

LEMMA SubmitKeeps == ASSUME TasksInv, NEW c \in Client, Submit(c) PROVE TasksInv'
<1>1. PICK j \in JobKey :
        \/ \E t \in Holders(j.key) : Tell(c, j, t)
        \/ request' = [request EXCEPT ![c] = j] /\ UNCHANGED told
  BY DEF Submit, JobKey
<1>2. UNCHANGED <<gone, enabled, status, parent, keyed, workVars, hidden>>
  BY DEF Submit
<1>3. CASE request' = [request EXCEPT ![c] = j] /\ UNCHANGED told
  <2>1. request' \in [Client -> JobKey \cup {NoJob}]
    BY <1>3 DEF TasksInv, TaskTypes
  <2> QED  BY <1>2, <1>3, <2>1, AskKeeps
<1> QED  BY <1>1, <1>2, <1>3, TellKeeps

LEMMA EnqueueJobKeeps == ASSUME TasksInv, NEW c \in Client, EnqueueJob(c) PROVE TasksInv'
<1>1. PICK j \in JobKey : j = request[c]
  BY DEF EnqueueJob, TasksInv, TaskTypes
<1>2. UNCHANGED <<gone, enabled, workVars, hidden>> /\ j # NoJob
  BY <1>1 DEF EnqueueJob
<1>3. request' \in [Client -> JobKey \cup {NoJob}]
  BY DEF EnqueueJob, Tell, TasksInv, TaskTypes
<1>4. CASE UNCHANGED <<status, parent, keyed, told>>
  BY <1>2, <1>3, <1>4, AskKeeps
<1>5. CASE UNCHANGED <<status, parent, keyed>> /\ \E t \in Holders(j.key) : Tell(c, j, t)
  BY <1>2, <1>5, TellKeeps
<1>6. CASE ~gone /\ Holders(j.key) = {} /\ TaskRows # Task /\ AddRow(NewTask, "queued", None, j) /\ Tell(c, j, NewTask)
  <2>1. told' = told \/ told' = told \cup {[key |-> j.key, body |-> j.body, task |-> NewTask]}
    BY <1>6 DEF Tell
  <2>2. UNCHANGED <<gone, owned, open, hidden>> /\ strays' = strays
    BY <1>2 DEF workVars
  <2> QED  BY <1>2, <1>3, <1>6, <2>1, <2>2, AddKeeps
<1> QED  BY <1>1, <1>4, <1>5, <1>6 DEF EnqueueJob

LEMMA RowKeeps ==
  ASSUME TasksInv, RunSync \/ \E t \in Task : StartChild(t)
  PROVE  TasksInv'
<1>1. request' = request /\ request \in [Client -> JobKey \cup {NoJob}] /\ told' = told /\ ~gone /\ TaskRows # Task
      /\ UNCHANGED <<gone, owned, open, hidden>> /\ strays' \subseteq strays \cup {NewTask}
  BY DEF RunSync, StartChild, ProjectIsThere, workVars, TasksInv, TaskTypes
<1>2. PICK p \in Task \cup {None} : AddRow(NewTask, "running", p, NoJob)
  BY DEF RunSync, StartChild
<1> QED  BY <1>1, <1>2, AddKeeps

LEMMA DeleteKeeps == ASSUME TasksInv, NEW t \in Task, DeleteTask(t) PROVE TasksInv'
<1> USE DEF TasksInv
<1>1. /\ hidden' = hidden \cup {t} /\ t \notin owned /\ status[t] \in Terminal
      /\ UNCHANGED <<gone, enabled, status, parent, keyed, workVars, request, told>>
  BY DEF DeleteTask, Family
<1> QED  BY <1>1 DEF TaskTypes, OneJob, WorkIsOnRows, Rest, workVars

LEMMA TasksInductive == ASSUME TasksInv, [TasksNext]_taskVars PROVE TasksInv'
<1>1. request \in [Client -> JobKey \cup {NoJob}]
  BY DEF TasksInv, TaskTypes
<1>2. CASE UNCHANGED taskVars
  BY <1>1, <1>2, AskKeeps DEF taskVars
<1>3. CASE SetEnabled
  BY <1>1, <1>3, AskKeeps DEF SetEnabled
<1>4. CASE RemoveProject
  BY <1>1, <1>4, AskKeeps DEF RemoveProject
<1>5. ASSUME NEW c \in Client, Submit(c) \/ EnqueueJob(c) PROVE TasksInv'
  BY <1>5, SubmitKeeps, EnqueueJobKeeps
<1>6. ASSUME NEW t \in Task, StartChild(t) PROVE TasksInv'
  BY <1>6, RowKeeps
<1> QED  BY <1>2, <1>3, <1>4, <1>5, <1>6, RowKeeps, WorkerOfTaskKeeps, DeleteKeeps DEF TasksNext

\* However submissions of one key cross each other, whoever is told a task is
\* told the one that was queued for this key and this request.
THEOREM SubmissionsAreOne == TasksSpec => []SubmittedOnce
  BY TasksInitial, TasksInductive, TasksSound, PTL DEF TasksSpec

\* Whatever was on its way when a project or a task was removed, nothing of it
\* runs, owns a lease or has an open call from then on.
THEOREM RemovalIsFinal == TasksSpec => []RemovedIsAtRest
  BY TasksInitial, TasksInductive, TasksSound, PTL DEF TasksSpec
=============================================================================
