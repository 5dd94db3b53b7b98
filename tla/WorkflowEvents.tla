--------------------------- MODULE WorkflowEvents ---------------------------
(***************************************************************************)
(* The event log of one task: the transactions that append to it and the   *)
(* browser view that follows it.                                           *)
(*                                                                         *)
(* Writers are database transactions at READ COMMITTED, one step per       *)
(* statement that waits for or reads something.  Most lock the job row and *)
(* then write the task row; those of the memory module lock only the task  *)
(* row, so two transactions may be open at once.                           *)
(*                                                                         *)
(* The view is web/src/events.tsx: one page of recent events, then a       *)
(* stream resumed with Last-Event-ID.  A page takes two statements, the    *)
(* task row and then the event rows, and the stream may be cut anywhere.   *)
(* Views share nothing, so the module has one.                             *)
(*                                                                         *)
(* Left out: the payload of an event, the pages of older history, and the  *)
(* unique index on (task_id, sequence), a second barrier behind the one    *)
(* stated here.                                                            *)
(***************************************************************************)
EXTENDS Integers, Sequences, FiniteSets

CONSTANTS
  Writer,       \* transactions that may be open at once
  NoWriter,     \* a lock nobody holds
  Limit,        \* rows in a page of the stream
  MaxFailures,  \* failures in a row after which the view gives up
  MaxSequence   \* bound on the events of the task

ASSUME WriterAssumption == NoWriter \notin Writer
ASSUME LimitAssumption == Limit \in Nat \ {0}
ASSUME BoundAssumption == MaxFailures \in Nat /\ MaxSequence \in Nat \ {0}

VARIABLES
  sequence,    \* AgentTaskRow.event_sequence, as committed
  rows,        \* how many committed event rows carry a number
  status,      \* the status in job row and task row, as committed
  checkpoint,  \* WorkflowJobRow.checkpoint_sequence, as committed
  deleted,     \* the log holds a "task_deleted" event
  jobLock,     \* the transaction that locks the job row
  taskLock,    \* the transaction that has written, so locks, the task row
  txn,         \* the open transactions, by writer
  srv,         \* the server's side of the view's request
  frames,      \* frames sent and not yet received
  view,        \* the browser's side
  finalAt      \* history: the number of the event that ended the task

log == <<sequence, rows, status, checkpoint, deleted, jobLock, taskLock,
         txn, finalAt>>
feed == <<srv, frames, view>>
eventVars == <<sequence, rows, status, checkpoint, deleted, jobLock, taskLock,
          txn, srv, frames, view, finalAt>>

(* Two live statuses are enough to tell a stale one from a current one. *)
Live == {"running", "paused"}
Status == Live \cup {"succeeded"}
Over(s) == s = "succeeded"

Sequence == 0..MaxSequence

Observation == [status : Status, checkpoint : Sequence, sequence : Sequence]

(* kind: what the transaction is for.  at: where it stands.  base, staged:  *)
(* it has numbered base + 1 .. base + staged.  status, checkpoint: the      *)
(* values it will leave.  expected: what the person was shown.              *)
Txn ==
  [kind : {"none", "job", "event", "delete", "decision"},
   at : {"idle", "looked", "begun", "ready"},
   base : Sequence, staged : Sequence, status : Status, checkpoint : Sequence,
   expected : Observation]

Frame == [kind : {"workflow"}, sequence : 1..MaxSequence]
           \cup [kind : {"terminal", "rotate"}, over : BOOLEAN]

Blank == [status |-> "running", checkpoint |-> 0, sequence |-> 0]
Idle == [kind |-> "none", at |-> "idle", base |-> 0, staged |-> 0,
         status |-> "running", checkpoint |-> 0, expected |-> Blank]
Off == [at |-> "off", cursor |-> 0, latest |-> 0, over |-> FALSE,
        items |-> {}, more |-> FALSE]

TypeOK ==
  /\ sequence \in Sequence
  /\ rows \in [1..MaxSequence -> 0..Cardinality(Writer)]
  /\ status \in Status
  /\ checkpoint \in Sequence
  /\ deleted \in BOOLEAN
  /\ jobLock \in Writer \cup {NoWriter}
  /\ taskLock \in Writer \cup {NoWriter}
  /\ txn \in [Writer -> Txn]
  /\ srv \in [at : {"off", "counted", "page"}, cursor : Sequence,
              latest : Sequence, over : BOOLEAN,
              items : SUBSET (1..MaxSequence), more : BOOLEAN]
  /\ frames \in Seq(Frame)
  /\ view \in [at : {"loading", "waiting", "connected", "complete", "error"},
               cursor : Sequence, failures : 0..MaxFailures,
               why : {"none", "gap", "ending", "gave_up", "missing"}]
  /\ finalAt \in Sequence

(* A submitted task: its "submitted" event and its first checkpoint. *)
EventsInit ==
  /\ sequence = 1
  /\ rows = [n \in 1..MaxSequence |-> IF n = 1 THEN 1 ELSE 0]
  /\ status = "running"
  /\ checkpoint = 1
  /\ deleted = FALSE
  /\ jobLock = NoWriter
  /\ taskLock = NoWriter
  /\ txn = [w \in Writer |-> Idle]
  /\ srv = Off
  /\ frames = <<>>
  /\ view = [at |-> "loading", cursor |-> 0, failures |-> 0, why |-> "none"]
  /\ finalAt = 0

-----------------------------------------------------------------------------
(* Writers *)

Free(lock, w) == lock \in {NoWriter, w}

Begun(w, kind) ==
  [txn EXCEPT ![w] = [@ EXCEPT !.kind = kind, !.at = "begun",
                      !.status = status, !.checkpoint = checkpoint]]

\* DurableRepository.locked: begin, save, control, ... of a live job.
BeginJob(w) ==
  /\ txn[w].at = "idle"
  /\ Free(jobLock, w)
  /\ status \in Live
  /\ jobLock' = w
  /\ txn' = [Begun(w, "job") EXCEPT ![w].at = "ready"]
  /\ UNCHANGED <<sequence, rows, status, checkpoint, deleted, taskLock,
                 finalAt, feed>>

\* MemoryService and DurableService._unit append without the job lock.
BeginEvent(w) ==
  /\ txn[w].at = "idle"
  /\ txn' = [Begun(w, "event") EXCEPT ![w].at = "ready"]
  /\ UNCHANGED <<sequence, rows, status, checkpoint, deleted, jobLock,
                 taskLock, finalAt, feed>>

\* WorkbenchRepository.delete_task: the job lock, then the task lock.
BeginDelete(w) ==
  /\ txn[w].at = "idle"
  /\ Free(jobLock, w)
  /\ Over(status) /\ ~deleted
  /\ jobLock' = w
  /\ txn' = Begun(w, "delete")
  /\ UNCHANGED <<sequence, rows, status, checkpoint, deleted, taskLock,
                 finalAt, feed>>

LockTask(w) ==
  /\ txn[w].kind = "delete" /\ txn[w].at = "begun"
  /\ Free(taskLock, w)
  /\ taskLock' = w
  /\ txn' = [txn EXCEPT ![w].at = "ready"]
  /\ UNCHANGED <<sequence, rows, status, checkpoint, deleted, jobLock,
                 finalAt, feed>>

\* WorkbenchRepository.controls: one statement reads both rows.
Look(w) ==
  /\ txn[w].at = "idle"
  /\ ~deleted
  /\ txn' = [txn EXCEPT ![w] =
       [Idle EXCEPT !.kind = "decision", !.at = "looked",
          !.expected = [status |-> status, checkpoint |-> checkpoint,
                        sequence |-> sequence]]]
  /\ UNCHANGED <<sequence, rows, status, checkpoint, deleted, jobLock,
                 taskLock, finalAt, feed>>

\* The person confirms: control or decide with the state they were shown.
BeginDecision(w) ==
  /\ txn[w].at = "looked"
  /\ Free(jobLock, w)
  /\ jobLock' = w
  /\ txn' = Begun(w, "decision")
  /\ UNCHANGED <<sequence, rows, status, checkpoint, deleted, taskLock,
                 finalAt, feed>>

\* The conditional UPDATE waits for the task row and then sees its newest
\* committed version.
Matches(e) ==
  /\ e.status = status /\ e.checkpoint = checkpoint
  /\ e.sequence = sequence

\* Fault: the task row is compared by a plain SELECT.
ExpectUnlocked(w) ==
  /\ txn[w].kind = "decision" /\ txn[w].at = "begun"
  /\ Matches(txn[w].expected) /\ status \in Live
  /\ txn' = [txn EXCEPT ![w].at = "ready"]
  /\ UNCHANGED <<sequence, rows, status, checkpoint, deleted, jobLock,
                 taskLock, finalAt, feed>>

Expect(w) ==
  /\ txn[w].kind = "decision" /\ txn[w].at = "begun"
  /\ Free(taskLock, w)
  /\ Matches(txn[w].expected) /\ status \in Live
  /\ taskLock' = w
  /\ txn' = [txn EXCEPT ![w].at = "ready"]
  /\ UNCHANGED <<sequence, rows, status, checkpoint, deleted, jobLock,
                 finalAt, feed>>

\* What DurableRepository.event allocates: the number after the newest one
\* visible to the transaction, which holds the task row from here on.
Allocates(w) == Free(taskLock, w) /\ taskLock' = w

\* Only a transaction that locks the job row changes what it says.
Outcome(w) ==
  IF txn[w].kind \in {"job", "decision"}
  THEN {o \in Status \X Sequence :
          o[2] \in {txn[w].checkpoint, txn[w].checkpoint + 1}}
  ELSE {<<txn[w].status, txn[w].checkpoint>>}

Event(w) ==
  /\ txn[w].at = "ready"
  /\ Allocates(w)
  /\ sequence + txn[w].staged < MaxSequence
  /\ txn[w].kind = "delete" => txn[w].staged = 0
  /\ Over(txn[w].status) => txn[w].kind \in {"event", "delete"}
  /\ \E o \in Outcome(w) :
       txn' = [txn EXCEPT ![w].staged = @ + 1,
                          ![w].base = IF txn[w].staged = 0 THEN sequence ELSE @,
                          ![w].status = o[1], ![w].checkpoint = o[2]]
  /\ UNCHANGED <<sequence, rows, status, checkpoint, deleted, jobLock,
                 finalAt, feed>>

Released(lock, w) == IF lock = w THEN NoWriter ELSE lock

Commit(w) ==
  LET t == txn[w]
      decides == t.kind \in {"job", "decision"}
  IN
  /\ t.staged > 0
  /\ sequence' = t.base + t.staged
  /\ rows' = [n \in 1..MaxSequence |->
                IF n \in t.base + 1 .. t.base + t.staged
                THEN rows[n] + 1 ELSE rows[n]]
  /\ status' = IF decides THEN t.status ELSE status
  /\ checkpoint' = IF decides THEN t.checkpoint ELSE checkpoint
  /\ deleted' = (deleted \/ t.kind = "delete")
  /\ finalAt' = IF decides /\ Over(t.status) THEN sequence' ELSE finalAt
  /\ jobLock' = Released(jobLock, w)
  /\ taskLock' = Released(taskLock, w)
  /\ txn' = [txn EXCEPT ![w] = Idle]
  /\ UNCHANGED feed

\* An error, a conflict, or a connection that went away.
Rollback(w) ==
  /\ txn[w].at # "idle"
  /\ jobLock' = Released(jobLock, w)
  /\ taskLock' = Released(taskLock, w)
  /\ txn' = [txn EXCEPT ![w] = Idle]
  /\ UNCHANGED <<sequence, rows, status, checkpoint, deleted, finalAt, feed>>

Write(w) ==
  \/ BeginJob(w) \/ BeginEvent(w) \/ BeginDelete(w) \/ LockTask(w)
  \/ Look(w) \/ BeginDecision(w) \/ Expect(w)
  \/ Event(w) \/ Commit(w) \/ Rollback(w)

-----------------------------------------------------------------------------
(* Reader: the view and the request that serves it *)

\* Fault: a view that reconnects forgets what it has shown.
ReconnectsAfresh(v) ==
  IF v.failures = MaxFailures
  THEN [v EXCEPT !.at = "error", !.why = "gave_up"]
  ELSE [v EXCEPT !.at = "waiting", !.failures = @ + 1, !.cursor = 0]

Reconnects(v) ==
  IF v.failures = MaxFailures
  THEN [v EXCEPT !.at = "error", !.why = "gave_up"]
  ELSE [v EXCEPT !.at = "waiting", !.failures = @ + 1]

StopsView(v, why) == [v EXCEPT !.at = "error", !.why = why]

\* The first statement of WorkbenchRepository.events: one read of the task
\* row gives the newest number together with the status.
ReadTask(after) ==
  srv' = [Off EXCEPT !.at = "counted", !.cursor = after,
                     !.latest = sequence, !.over = Over(status)]

\* The first page of the view, or a (re)connection with Last-Event-ID.
RequestPage ==
  /\ view.at \in {"loading", "waiting"} /\ srv.at = "off" /\ ~deleted
  /\ ReadTask(view.cursor)
  /\ UNCHANGED <<log, frames, view>>

\* Task not found: the view does not retry a 404.
RequestDeleted ==
  /\ view.at \in {"loading", "waiting"} /\ srv.at = "off" /\ deleted
  /\ view' = StopsView(view, "missing")
  /\ UNCHANGED <<log, srv, frames>>

Stored(after, upto) == {n \in after + 1 .. upto : rows[n] > 0}
Oldest(S) == {n \in S : Cardinality({k \in S : k < n}) < Limit}
Newest(S) == {n \in S : Cardinality({k \in S : k > n}) < Limit}

\* The second statement, for the first page: the newest rows; the stream
\* will go on from the last of them.
Load ==
  /\ view.at = "loading" /\ srv.at = "counted"
  /\ LET page == Newest(Stored(0, srv.latest)) IN
     view' = [view EXCEPT !.at = "waiting",
                !.cursor = IF page = {} THEN 0
                           ELSE CHOOSE n \in page : \A k \in page : k <= n]
  /\ srv' = Off
  /\ UNCHANGED <<log, frames>>

\* The second statement, for the stream: the oldest rows after the cursor.
ReadRows ==
  /\ view.at \in {"waiting", "connected"} /\ srv.at = "counted"
  /\ LET found == Stored(srv.cursor, srv.latest) IN
     srv' = [srv EXCEPT !.at = "page", !.items = Oldest(found),
                        !.more = Oldest(found) # found]
  /\ view' = [view EXCEPT !.at = "connected"]
  /\ UNCHANGED <<log, frames>>

\* event_stream: one frame for each item of the page.
Send ==
  /\ srv.at = "page"
  /\ \E n \in srv.items :
       /\ \A k \in srv.items : n <= k
       /\ frames' = Append(frames, [kind |-> "workflow", sequence |-> n])
       /\ srv' = [srv EXCEPT !.items = @ \ {n}, !.cursor = n]
  /\ UNCHANGED <<log, view>>

AtEnd == ~srv.more /\ srv.over

SendTerminal ==
  /\ srv.at = "page" /\ srv.items = {}
  /\ AtEnd
  /\ frames' = Append(frames, [kind |-> "terminal", over |-> srv.over])
  /\ srv' = Off
  /\ UNCHANGED <<log, view>>

\* The stream has lasted duration_seconds.
SendRotate ==
  /\ srv.at = "page" /\ srv.items = {}
  /\ ~AtEnd
  /\ frames' = Append(frames, [kind |-> "rotate", over |-> srv.over])
  /\ srv' = Off
  /\ UNCHANGED <<log, view>>

\* Fault: the status is the one of the first page.
PollKeepingStatus ==
  /\ srv.at = "page" /\ srv.items = {}
  /\ ~AtEnd
  /\ ~deleted
  /\ srv' = [srv EXCEPT !.at = "counted", !.latest = sequence]
  /\ UNCHANGED <<log, frames, view>>

Poll ==
  /\ srv.at = "page" /\ srv.items = {}
  /\ ~AtEnd
  /\ ~deleted
  /\ ReadTask(srv.cursor)
  /\ UNCHANGED <<log, frames, view>>

\* The view's task is gone, storage failed, a timer ran out, a proxy cut the
\* connection: what was on the wire is lost and the view starts again.
Cut ==
  /\ \/ view.at = "connected"
     \/ view.at = "waiting" /\ srv.at # "off"
  /\ view' = Reconnects(view)
  /\ srv' = Off
  /\ frames' = <<>>
  /\ UNCHANGED log

PollDeleted ==
  /\ srv.at = "page" /\ srv.items = {} /\ ~AtEnd /\ deleted
  /\ Cut

\* A frame reaches the view.
Shows(n) ==
  CASE n <= view.cursor -> view
    [] n = view.cursor + 1 -> [view EXCEPT !.cursor = n, !.failures = 0]
    [] OTHER -> StopsView(view, "gap")

Ends(f) ==
  CASE f.kind = "terminal" /\ f.over -> [view EXCEPT !.at = "complete"]
    [] f.kind = "rotate" /\ ~f.over ->
         [view EXCEPT !.at = "waiting", !.failures = 0]
    [] OTHER -> StopsView(view, "ending")

Receive ==
  /\ view.at = "connected" /\ frames # <<>>
  /\ LET f == Head(frames) IN
     view' = IF f.kind = "workflow" THEN Shows(f.sequence) ELSE Ends(f)
  /\ frames' = IF view'.at = "connected" THEN Tail(frames) ELSE <<>>
  /\ srv' = IF view'.at = "connected" THEN srv ELSE Off
  /\ UNCHANGED log

Serve == ReadRows \/ Send \/ SendTerminal \/ SendRotate \/ Poll
           \/ PollDeleted
Watch == RequestPage \/ RequestDeleted \/ Load \/ Receive

-----------------------------------------------------------------------------
EventsNext == (\E w \in Writer : Write(w)) \/ Serve \/ Watch \/ Cut

EventsSpec == EventsInit /\ [][EventsNext]_eventVars

\* The server's loop and the browser's loop go on; nothing makes a person
\* act, a transaction begin, or a connection break.
Fairness == WF_eventVars(Serve) /\ WF_eventVars(Watch)

-----------------------------------------------------------------------------
(* Properties *)

\* DurableRepository.event: however transactions overlap, commit in another
\* order or roll back, the committed log holds every number up to
\* event_sequence exactly once.  And DurableRepository.expect: a guarded decision
\* that still can commit is made on what the person was shown, and no event at
\* all, not even one of a transaction without the job lock, has been published
\* since.
DecisionsAreCurrent ==
  /\ \A n \in 1..MaxSequence : rows[n] = IF n <= sequence THEN 1 ELSE 0
  /\ \A w \in Writer :
       txn[w].kind = "decision" /\ txn[w].at = "ready" =>
         txn[w].expected = [status |-> status, checkpoint |-> checkpoint,
                            sequence |-> sequence]

\* A view resumes after what it has shown: across pages, rotations, cuts and
\* reconnections it shows every event once and in order, and says that the
\* task is over only then.  This is the promise of module EventFeed.
Feed == INSTANCE EventFeed WITH
  length <- sequence, closedAt <- finalAt, opened <- view.at # "loading",
  shown <- view.cursor, done <- view.at = "complete"

FeedIsImplemented == Feed!Spec

\* A view of a finished task comes to an end by itself: it says that the task
\* is over, or that it gave up.
ViewsSettle == Over(status) ~> view.at \in {"complete", "error"}

\* web/src/events.test.ts:71 lists the rotation of a finished task among the
\* frames that stop a view for good, so a server must never send one.
EndingsAreValid == view.why # "ending"
=============================================================================
