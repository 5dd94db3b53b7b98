-------------------------- MODULE RequestAdmission --------------------------
(***************************************************************************)
(* Admission of the requests of one category, from the API process that    *)
(* receives a request to the Redis server that counts.  A request runs     *)
(* while it holds a slot; a slot is a lease that its keeper renews, so the *)
(* slots of dead processes come back.  What runs is written to the audit   *)
(* log before, and what was done before it is told.                        *)
(*                                                                         *)
(* Time is counted in ticks, and every timer counts down.  A process acts  *)
(* before time passes whenever one of its timers has run out.              *)
(***************************************************************************)
EXTENDS Integers, FiniteSets

CONSTANTS
    Request,        \* requests of one category
    Critical,       \* those that are not GET, HEAD or OPTIONS
    Concurrent,     \* RequestLimit.concurrent
    PerMinute,      \* RequestLimit.per_minute
    Window,         \* the minute of the rate limit
    SlotLease,      \* api_lease_seconds
    Sleep,          \* how long the keeper sleeps: min(Lease / 3, 1 s)
    RenewWait,      \* how long it waits for an answer: min(ControlWait, Lease / 6)
    ControlWait,    \* api_control_timeout_seconds
    StopWait        \* how long a cancelled handler may go on

ASSUME AdmissionAssumption ==
    /\ IsFiniteSet(Request) /\ Critical \subseteq Request
    /\ Concurrent \in Nat \ {0} /\ PerMinute \in Nat \ {0} /\ Window \in Nat \ {0}
    /\ SlotLease \in Nat /\ Sleep \in Nat /\ RenewWait \in Nat
    /\ ControlWait \in Nat /\ StopWait \in Nat
    \* the first renewal and every later one is answered, or given up, in time
    /\ ControlWait + Sleep + RenewWait + StopWait < SlotLease
    /\ RenewWait + Sleep + RenewWait + StopWait < SlotLease

VARIABLES
    slot,           \* what is left of the lease of each request in Redis, 0: none
    rate,           \* what is left of the minute each admission counts for
    wire,           \* commands on their way to Redis
    apc,            \* where __call__ is
    due,            \* the timer of what it waits for, where that matters
    answer,         \* the answer of Redis to acquire
    keeper,         \* keep_lease: off, asleep, renewing or ended by an exception
    wake,           \* the timer of the keeper
    renewal,        \* the answer of Redis to the last renew
    audit,          \* audit[r]: phases written to security_audit
    told            \* what the client was told

redis == <<slot, rate>>
waiting == <<due, answer>>
keeping == <<keeper, wake, renewal>>
admissionVars == <<slot, rate, wire, apc, due, answer, keeper, wake, renewal, audit, told>>

PC == {"new", "ask", "admit", "body", "run", "stop", "seal", "close", "over"}

AdmissionTypeOK ==
    /\ slot \in [Request -> 0 .. SlotLease]
    /\ rate \in [Request -> 0 .. Window]
    /\ wire \subseteq {"acquire", "renew"} \X Request
    /\ apc \in [Request -> PC]
    /\ due \in [Request -> Nat]
    /\ answer \in [Request -> {"none", "yes", "no"}]
    /\ keeper \in [Request -> {"off", "sleep", "renew", "lost"}]
    /\ wake \in [Request -> Nat]
    /\ renewal \in [Request -> {"none", "yes", "no"}]
    /\ audit \in [Request -> SUBSET {"admitted", "completed"}]
    /\ told \in [Request -> {"nothing", "result", "error"}]

AdmissionInit ==
    /\ slot = [r \in Request |-> 0]
    /\ rate = [r \in Request |-> 0]
    /\ wire = {}
    /\ apc = [r \in Request |-> "new"]
    /\ due = [r \in Request |-> 0]
    /\ answer = [r \in Request |-> "none"]
    /\ keeper = [r \in Request |-> "off"]
    /\ wake = [r \in Request |-> 0]
    /\ renewal = [r \in Request |-> "none"]
    /\ audit = [r \in Request |-> {}]
    /\ told = [r \in Request |-> "nothing"]

RequestGoes(r, there) == apc' = [apc EXCEPT ![r] = there]
LiveSlots == {r \in Request : slot[r] > 0}
Recent == {r \in Request : rate[r] > 0}

(***************************************************************************)
(* Redis: each command is one Lua script.                                  *)
(***************************************************************************)
BelowLimits == Cardinality(Recent) < PerMinute /\ Cardinality(LiveSlots) < Concurrent

RedisAcquire(r) ==
    /\ <<"acquire", r>> \in wire
    /\ wire' = wire \ {<<"acquire", r>>}
    /\ IF BelowLimits
       THEN /\ slot' = [slot EXCEPT ![r] = SlotLease]
            /\ rate' = [rate EXCEPT ![r] = Window]
            /\ answer' = [answer EXCEPT ![r] = "yes"]
       ELSE /\ UNCHANGED redis
            /\ answer' = [answer EXCEPT ![r] = "no"]
    /\ UNCHANGED <<apc, due, keeping, audit, told>>

\* A lease that has run out, or was released, is not brought back.
RedisRenew(r) ==
    /\ <<"renew", r>> \in wire
    /\ wire' = wire \ {<<"renew", r>>}
    /\ IF r \in LiveSlots
       THEN /\ slot' = [slot EXCEPT ![r] = SlotLease]
            /\ renewal' = [renewal EXCEPT ![r] = "yes"]
       ELSE /\ UNCHANGED slot
            /\ renewal' = [renewal EXCEPT ![r] = "no"]
    /\ UNCHANGED <<rate, apc, waiting, keeper, wake, audit, told>>

\* A connection breaks and the command on it is never carried out.
CommandIsLost ==
    /\ \E command \in wire : wire' = wire \ {command}
    /\ UNCHANGED <<redis, apc, waiting, keeping, audit, told>>

(***************************************************************************)
(* The request: __call__.                                                  *)
(***************************************************************************)
AskSlot(r) ==
    /\ apc[r] = "new"
    /\ RequestGoes(r, "ask")
    /\ due' = [due EXCEPT ![r] = ControlWait]
    /\ wire' = wire \cup {<<"acquire", r>>}
    /\ UNCHANGED <<redis, answer, keeping, audit, told>>

Admitted(r) ==
    /\ apc[r] = "ask" /\ answer[r] = "yes"
    /\ RequestGoes(r, "admit")
    /\ keeper' = [keeper EXCEPT ![r] = "sleep"]
    /\ wake' = [wake EXCEPT ![r] = Sleep]
    /\ UNCHANGED <<redis, wire, waiting, renewal, audit, told>>

\* Refused with 429; or 503 when Redis cannot be reached or answers too late.
Denied(r) ==
    /\ apc[r] = "ask"
    /\ RequestGoes(r, "close")
    /\ UNCHANGED <<redis, wire, waiting, keeping, audit, told>>

\* The database may have stored the event although the answer did not arrive.
AuditsAdmission(r) ==
    /\ apc[r] = "admit"
    /\ \/ audit' = [audit EXCEPT ![r] = @ \cup {"admitted"}] /\ RequestGoes(r, "body")
       \/ /\ audit' \in {audit, [audit EXCEPT ![r] = @ \cup {"admitted"}]}
          /\ RequestGoes(r, "close")
    /\ UNCHANGED <<redis, wire, waiting, keeping, told>>

\* The body is stored before anything is dispatched.
BodyArrives(r) ==
    /\ apc[r] = "body"
    /\ RequestGoes(r, IF keeper[r] = "lost" THEN "close" ELSE "run")
    /\ UNCHANGED <<redis, wire, waiting, keeping, audit, told>>

\* Too large, too slow, or cut off.
BodyFails(r) ==
    /\ apc[r] = "body"
    /\ RequestGoes(r, "close")
    /\ UNCHANGED <<redis, wire, waiting, keeping, audit, told>>

\* The handler returns; the response of a critical request is held back.
HandlerEnds(r) ==
    /\ apc[r] = "run" /\ keeper[r] # "lost"
    /\ RequestGoes(r, "seal")
    /\ told' = [told EXCEPT ![r] = IF r \in Critical THEN @ ELSE "result"]
    /\ UNCHANGED <<redis, wire, waiting, keeping, audit>>

\* The deadline, the caps on the response and errors of the handler end it.
HandlerFails(r) ==
    /\ apc[r] = "run"
    /\ RequestGoes(r, "close")
    /\ UNCHANGED <<redis, wire, waiting, keeping, audit, told>>

\* The keeper has ended, or the request is cancelled: the handler is cancelled
\* and awaited.
StopHandler(r) ==
    /\ apc[r] = "run"
    /\ RequestGoes(r, "stop")
    /\ due' = [due EXCEPT ![r] = StopWait]
    /\ UNCHANGED <<redis, wire, answer, keeping, audit, told>>

Stopped(r) ==
    /\ apc[r] = "stop"
    /\ RequestGoes(r, "close")
    /\ UNCHANGED <<redis, wire, waiting, keeping, audit, told>>

\* The held back response is sent once its completion is on record.
Seals(r) ==
    /\ apc[r] = "seal"
    /\ RequestGoes(r, "close")
    /\ \/ /\ audit' = [audit EXCEPT ![r] = @ \cup {"completed"}]
          /\ told' = [told EXCEPT ![r] = "result"]
       \/ /\ audit' \in {audit, [audit EXCEPT ![r] = @ \cup {"completed"}]}
          /\ UNCHANGED told
    /\ UNCHANGED <<redis, wire, waiting, keeping>>

\* Fault: the keeper is left running.
KeeperAfterClose(r) == keeper[r]
KeeperStops(r) == "off"

\* The error is told, unless a response was begun or the client is gone; the
\* keeper is cancelled; the slot is given back, if Redis can be reached, by a
\* request that knows it was admitted.
CloseRequest(r) ==
    /\ apc[r] = "close"
    /\ RequestGoes(r, "over")
    /\ told' = [told EXCEPT ![r] = IF @ = "nothing" THEN "error" ELSE @]
    /\ keeper' = [keeper EXCEPT ![r] = KeeperStops(r)]
    /\ \/ UNCHANGED slot
       \/ keeper[r] # "off" /\ slot[r] > 0 /\ slot' = [slot EXCEPT ![r] = 0]
    /\ UNCHANGED <<rate, wire, waiting, wake, renewal, audit>>

\* The API process dies; what it sent may still arrive.
ApiDies(r) ==
    /\ apc[r] \notin {"new", "over"}
    /\ RequestGoes(r, "over")
    /\ keeper' = [keeper EXCEPT ![r] = "off"]
    /\ UNCHANGED <<redis, wire, waiting, wake, renewal, audit, told>>

(***************************************************************************)
(* The keeper: keep_lease.                                                 *)
(***************************************************************************)
KeeperWakes(r) ==
    /\ keeper[r] = "sleep" /\ wake[r] = 0
    /\ keeper' = [keeper EXCEPT ![r] = "renew"]
    /\ wake' = [wake EXCEPT ![r] = RenewWait]
    /\ renewal' = [renewal EXCEPT ![r] = "none"]
    /\ wire' = wire \cup {<<"renew", r>>}
    /\ UNCHANGED <<redis, apc, waiting, audit, told>>

KeeperSleeps(r) ==
    /\ keeper[r] = "renew" /\ renewal[r] = "yes"
    /\ keeper' = [keeper EXCEPT ![r] = "sleep"]
    /\ wake' = [wake EXCEPT ![r] = Sleep]
    /\ UNCHANGED <<redis, wire, apc, waiting, renewal, audit, told>>

\* Fault: a renewal that is not answered is tried again.
KeeperTriesAgain(r) ==
    /\ keeper[r] = "renew"
    /\ keeper' = [keeper EXCEPT ![r] = "sleep"]
    /\ wake' = [wake EXCEPT ![r] = Sleep]
    /\ UNCHANGED <<redis, wire, apc, waiting, renewal, audit, told>>

\* No answer in time, an error, or the lease is gone: the request must end.
KeeperLoses(r) ==
    /\ keeper[r] = "renew"
    /\ keeper' = [keeper EXCEPT ![r] = "lost"]
    /\ UNCHANGED <<redis, wire, apc, waiting, wake, renewal, audit, told>>

(***************************************************************************)
(* Time                                                                    *)
(***************************************************************************)
\* Somebody must act now: a timer has run out, or the keeper has ended.
Urgent(r) ==
    \/ apc[r] \in {"ask", "stop"} /\ due[r] = 0
    \/ apc[r] = "run" /\ keeper[r] = "lost"
    \/ keeper[r] \in {"sleep", "renew"} /\ wake[r] = 0

Down(timer) == [r \in Request |-> IF timer[r] > 0 THEN timer[r] - 1 ELSE 0]

TimePasses ==
    /\ \A r \in Request : ~Urgent(r)
    /\ \E r \in Request : slot[r] > 0 \/ rate[r] > 0 \/ due[r] > 0 \/ wake[r] > 0
    /\ slot' = Down(slot) /\ rate' = Down(rate)
    /\ due' = Down(due) /\ wake' = Down(wake)
    /\ UNCHANGED <<wire, apc, answer, keeper, renewal, audit, told>>

RequestStep(r) ==
    \/ Admitted(r) \/ Denied(r) \/ AuditsAdmission(r) \/ BodyArrives(r) \/ BodyFails(r)
    \/ HandlerEnds(r) \/ HandlerFails(r) \/ StopHandler(r) \/ Stopped(r) \/ Seals(r) \/ CloseRequest(r)

KeeperStep(r) == KeeperWakes(r) \/ KeeperSleeps(r) \/ KeeperLoses(r)

AdmissionNext ==
    \/ \E r \in Request :
         \/ RedisAcquire(r) \/ RedisRenew(r)
         \/ AskSlot(r) \/ ApiDies(r) \/ RequestStep(r) \/ KeeperStep(r)
    \/ CommandIsLost
    \/ TimePasses

\* Every handler has a deadline, event loops run, and time passes.
AdmissionFairness ==
    /\ \A r \in Request : WF_admissionVars(RequestStep(r)) /\ WF_admissionVars(KeeperStep(r))
    /\ WF_admissionVars(TimePasses)

AdmissionSpec == AdmissionInit /\ [][AdmissionNext]_admissionVars /\ AdmissionFairness

(***************************************************************************)
(* Properties                                                              *)
(***************************************************************************)
\* No more handlers of a category run at once than its limit says, in all API
\* processes together (governance.py:156-174, admission.py:10-41): whatever is
\* lost or late, a request ends before its slot can be given to another one.  What
\* was dispatched is on record as admitted, and a critical request is told its
\* result only if its completion is on record (governance.py:248-316).
Running == {r \in Request : apc[r] \in {"run", "stop"}}
RunningIsBounded ==
    /\ \A r \in Running : slot[r] > 0
    /\ Cardinality(Running) <= Concurrent
    /\ \A r \in Request :
        /\ apc[r] \in {"run", "stop", "seal"} => "admitted" \in audit[r]
        /\ r \in Critical /\ told[r] = "result" => audit[r] = {"admitted", "completed"}

\* Every slot is free again: given back, or run out when nobody renews it, even
\* one whose request gave up asking before Redis carried the command out.
SlotsReturn == (\E r \in Request : slot[r] > 0) ~> \A r \in Request : slot[r] = 0
=============================================================================
