---------------------------- MODULE LeaseTiming ----------------------------
(***************************************************************************)
(* The clocks of one leased workflow job.  A worker that claimed the job   *)
(* executes it and renews the lease: it waits a third of the lease, sends  *)
(* a heartbeat, waits at most another third for the answer, and stops the  *)
(* execution when none came.  A lease is written with the time at which    *)
(* its transaction read the clock, not the time of its commit.  Time is    *)
(* counted down in ticks; the workers' clocks agree.                       *)
(***************************************************************************)
EXTENDS Integers

CONSTANTS
    Worker,
    Nobody,      \* no owner, no lock
    Third,       \* lease_seconds / 3, in ticks
    ClaimWait    \* the longest time from a claim's clock to its answer

ASSUME LeaseAssumption ==
    /\ Nobody \notin Worker
    /\ Third \in Nat \ {0} /\ ClaimWait \in Nat /\ ClaimWait <= Third

VARIABLES
    owner,    \* WorkflowJobRow.owner
    left,     \* ticks until lease_until is in the past
    lock,     \* who holds the row's lock
    pc,       \* of each worker: idle, claims, runs, beats, stops
    timer,    \* time the worker has waited
    stamp,    \* the lease its open transaction is about to write
    call,     \* its transaction: none, sent, read (locked), written
    works     \* is the job's execution under way here?

vars == <<owner, left, lock, pc, timer, stamp, call, works>>
row == <<owner, left, lock>>
Lease == 3 * Third + 1

Init ==
    /\ owner = Nobody /\ left = 0 /\ lock = Nobody
    /\ pc = [w \in Worker |-> "idle"]
    /\ timer = [w \in Worker |-> 0]
    /\ stamp = [w \in Worker |-> 0]
    /\ call = [w \in Worker |-> "none"]
    /\ works = [w \in Worker |-> FALSE]

\* A queued job, or one whose lease ended: lease_until < now.
Claimable == owner = Nobody \/ left = 0
\* DurableRepository.fence: still the owner, and lease_until > now.
Fenced(w) == owner = w /\ left > 1

Goto(w, p, c) == pc' = [pc EXCEPT ![w] = p] /\ call' = [call EXCEPT ![w] = c]
Restart(w) == timer' = [timer EXCEPT ![w] = 0]
ReadClock(w) == lock' = w /\ stamp' = [stamp EXCEPT ![w] = Lease]

(***************************************************************************)
(* Claiming.  The row is locked while the clock is read and until commit.  *)
(***************************************************************************)
ClaimReads(w) ==
    /\ pc[w] = "idle" /\ lock = Nobody /\ Claimable
    /\ ReadClock(w) /\ Goto(w, "claims", "read") /\ Restart(w)
    /\ UNCHANGED <<owner, left, works>>

ClaimWrites(w) ==
    /\ pc[w] = "claims" /\ call[w] = "read"
    /\ owner' = w /\ left' = stamp[w] /\ lock' = Nobody
    /\ Goto(w, "claims", "written")
    /\ UNCHANGED <<timer, stamp, works>>

ClaimAnswered(w) ==
    /\ pc[w] = "claims" /\ call[w] = "written"
    /\ Goto(w, "runs", "none") /\ Restart(w)
    /\ works' = [works EXCEPT ![w] = TRUE]
    /\ UNCHANGED <<row, stamp>>

(***************************************************************************)
(* DurableService.tick                                                     *)
(***************************************************************************)
\* Fault: two thirds of the lease between two heartbeats.
TwoThirds(w) == timer[w] = 2 * Third
\* The wait for the execution ends after a third of the lease.
BeatDue(w) == timer[w] = Third

\* The wait for the heartbeat ends after another third.
GivesUp(w) == timer[w] = Third

BeatSent(w) ==
    /\ pc[w] = "runs" /\ BeatDue(w)
    /\ Goto(w, "beats", "sent") /\ Restart(w)
    /\ UNCHANGED <<row, stamp, works>>

BeatReads(w) ==
    /\ call[w] = "sent" /\ lock = Nobody /\ Fenced(w)
    /\ ReadClock(w) /\ Goto(w, pc[w], "read")
    /\ UNCHANGED <<owner, left, timer, works>>

BeatWrites(w) ==
    /\ pc[w] \in {"beats", "stops"} /\ call[w] = "read"
    /\ left' = stamp[w] /\ lock' = Nobody
    /\ Goto(w, pc[w], "written")
    /\ UNCHANGED <<owner, timer, stamp, works>>

BeatAnswered(w) ==
    /\ pc[w] = "beats" /\ call[w] = "written"
    /\ Goto(w, IF works[w] THEN "runs" ELSE "stops", "none") /\ Restart(w)
    /\ UNCHANGED <<row, stamp, works>>

\* The heartbeat's fence failed, or its answer did not come in time: the
\* execution is cancelled, before the heartbeat's own cancellation is done.
Stops(w) ==
    /\ pc[w] = "beats"
    /\ \/ GivesUp(w)
       \/ call[w] = "sent" /\ lock = Nobody /\ ~Fenced(w)
    /\ Goto(w, "stops", call[w])
    /\ works' = [works EXCEPT ![w] = FALSE]
    /\ UNCHANGED <<row, timer, stamp>>

\* A cancelled heartbeat that has not committed is rolled back.
BeatDropped(w) ==
    /\ pc[w] = "stops" /\ call[w] \in {"sent", "read"}
    /\ lock' = IF lock = w THEN Nobody ELSE lock
    /\ Goto(w, "stops", "none")
    /\ UNCHANGED <<owner, left, timer, stamp, works>>

\* Both tasks were gathered: the tick returns.
Returns(w) ==
    /\ pc[w] = "stops" /\ call[w] \in {"none", "written"}
    /\ Goto(w, "idle", "none") /\ Restart(w)
    /\ UNCHANGED <<row, stamp, works>>

\* The execution ends by itself; its last write gives the job back.  A
\* heartbeat under way is awaited first.
ExecutionEnds(w) ==
    /\ works[w] /\ lock = Nobody
    /\ works' = [works EXCEPT ![w] = FALSE]
    /\ IF Fenced(w) THEN owner' = Nobody /\ left' = 0 ELSE UNCHANGED <<owner, left>>
    /\ Goto(w, IF pc[w] = "runs" THEN "stops" ELSE pc[w], call[w])
    /\ UNCHANGED <<lock, timer, stamp>>

\* The process dies; the database rolls its open transaction back.
Crash(w) ==
    /\ pc[w] # "idle"
    /\ works' = [works EXCEPT ![w] = FALSE]
    /\ lock' = IF lock = w THEN Nobody ELSE lock
    /\ Goto(w, "idle", "none") /\ Restart(w)
    /\ UNCHANGED <<owner, left, stamp>>

(***************************************************************************)
(* A worker that is due to act does so before more time passes.            *)
(***************************************************************************)
Timely(w) ==
    /\ pc[w] = "claims" => timer[w] < ClaimWait
    /\ pc[w] = "runs" => ~BeatDue(w)
    /\ pc[w] = "beats" => ~GivesUp(w)

Less(n) == IF n = 0 THEN 0 ELSE n - 1

Tick ==
    /\ \A w \in Worker : Timely(w)
    /\ timer' = [w \in Worker |-> IF pc[w] \in {"claims", "runs", "beats"} THEN timer[w] + 1
                                                                          ELSE timer[w]]
    /\ left' = Less(left)
    /\ stamp' = [w \in Worker |-> Less(stamp[w])]
    /\ UNCHANGED <<owner, lock, pc, call, works>>

Next ==
    \/ \E w \in Worker :
          \/ ClaimReads(w) \/ ClaimWrites(w) \/ ClaimAnswered(w)
          \/ BeatSent(w) \/ BeatReads(w) \/ BeatWrites(w) \/ BeatAnswered(w)
          \/ Stops(w) \/ BeatDropped(w) \/ Returns(w) \/ ExecutionEnds(w) \/ Crash(w)
    \/ Tick

Spec == Init /\ [][Next]_vars

(***************************************************************************)
(* Properties                                                              *)
(***************************************************************************)
\* Wherever a job is executed, its lease has not ended: no worker can have
\* claimed it since, and what the execution does outside the database, which
\* no fence guards, is done by one worker at a time (durable.py:84-104).
LeaseOutlivesWork == \A w \in Worker : works[w] => owner = w /\ left > 0
OneExecution == \A v, w \in Worker : works[v] /\ works[w] => v = w
=============================================================================
