---------------------------- MODULE ToolOperations ----------------------------
(***************************************************************************)
(* A tool call from end to end: ToolGateway.invoke and InvocationRegistry  *)
(* in Core, a request that may be delivered twice or late, and             *)
(* OperationStore.execute (or reserve and finish) in the service, while    *)
(* the workflow is paused, cancelled or taken over.                        *)
(*                                                                         *)
(* OperationStore.authorize locks the job row, so a transaction that acts  *)
(* keeps every other one waiting; the lease may still end meanwhile.  Each *)
(* transaction that only reads and writes rows is one action.              *)
(*                                                                         *)
(* Left out: contract and schema checks, which happen before anything is   *)
(* sent, and clocks that disagree between Core and service.                *)
(***************************************************************************)
EXTENDS ToolAuthority

CONSTANTS
  Call,      \* operation ids
  Stored,    \* calls of services with an OperationStore: filesystem, git
  Rooted,    \* calls in the scope of the root task: searches of the quality
             \* stage; every other call is in the scope of a child task
  Delivery,  \* how often a request may reach the service
  NoHandler  \* nobody holds the job row (a model value)

ASSUME CallAssumption ==
  /\ Stored \subseteq Call
  /\ Rooted \subseteq Call \ Stored
  /\ NoHandler \notin Call \X Delivery

VARIABLES
  core,      \* where the gateway is with a call
  origin,    \* the generation in the call's context
  closed,    \* calls whose deadline has passed, or whose child task is over
  pending,   \* WorkflowJobRow.pending_calls
  registry,  \* CoreToolCallRow: its status, or the result it completed with
  row,       \* ToolOperationRow: likewise
  handler,   \* where the service is with a delivery
  lock,      \* the delivery whose transaction holds the job row
  replies,   \* answers on their way to Core
  answer,    \* the answer Core has received
  effects    \* how often the call was carried out

callVars == <<core, origin, registry, answer>>
serviceVars == <<row, handler, lock, replies, effects>>
vars == <<authority, callVars, closed, pending, serviceVars>>

Handler == Call \X Delivery
Outcome == {"done", "undone"}
Reply == Outcome \cup {"denied", "uncertain"}

TypeOK ==
  /\ AuthorityTypeOK
  /\ core \in [Call -> {"new", "prepared", "sent", "answered", "recorded",
                        "finished", "denied", "failed", "lost"}]
  /\ origin \in [Call -> 0..MaxGeneration]
  /\ closed \subseteq Call
  /\ pending \subseteq Call
  /\ registry \in [Call -> {"absent", "prepared", "denied"} \cup Outcome]
  /\ row \in [Call -> {"absent", "running"} \cup Outcome]
  /\ handler \in [Handler -> {"none", "arrived", "reserved", "checked", "gone"}
                               \cup Outcome]
  /\ lock \in Handler \cup {NoHandler}
  /\ replies \subseteq Call \X Reply
  /\ answer \in [Call -> Reply \cup {"none"}]
  /\ effects \in [Call -> Nat]

Init ==
  /\ AuthorityInit
  /\ core = [k \in Call |-> "new"]
  /\ origin = [k \in Call |-> 0]
  /\ closed = {} /\ pending = {}
  /\ registry = [k \in Call |-> "absent"]
  /\ row = [k \in Call |-> "absent"]
  /\ handler = [h \in Handler |-> "none"]
  /\ lock = NoHandler
  /\ replies = {}
  /\ answer = [k \in Call |-> "none"]
  /\ effects = [k \in Call |-> 0]

-----------------------------------------------------------------------------
(* Authority *)

Unlocked == lock = NoHandler

\* OperationStore.authorize, for a call that is not read-only.  The root task
\* carries the status of its workflow; a child task is "running".
Authorized(k, g) ==
  /\ Fenced(g)
  /\ mode \in {"running", "pause_requested"}
  /\ k \in Rooted => mode = "running"
  /\ k \notin closed

\* Claims and requests wait for the job row; the clock does not.
Authority ==
  /\ \/ Unlocked /\ (TakeOver \/ RequestPause \/ RequestCancel)
     \/ Shut
  /\ UNCHANGED <<callVars, closed, pending, serviceVars>>

Close(k) ==
  /\ closed' = closed \cup {k}
  /\ UNCHANGED <<authority, callVars, pending, serviceVars>>

-----------------------------------------------------------------------------
(* Core *)

Goto(k, at) == core' = [core EXCEPT ![k] = at]

\* InvocationRegistry.prepare, under any claim ever handed out.
Prepare(k) ==
  /\ core[k] = "new" /\ Unlocked
  /\ \E g \in 1..generation :
       /\ origin' = [origin EXCEPT ![k] = g]
       /\ \/ /\ Authorized(k, g)
             /\ registry' = [registry EXCEPT ![k] = "prepared"]
             /\ Goto(k, "prepared")
          \/ ~Authorized(k, g) /\ Goto(k, "denied") /\ UNCHANGED registry
  /\ UNCHANGED <<authority, closed, pending, answer, serviceVars>>

\* The call is journalled and dispatched.
Start(k) ==
  /\ core[k] = "prepared" /\ Unlocked
  /\ \/ /\ Fenced(origin[k]) /\ mode # "cancel_requested" /\ pending = {}
        /\ pending' = {k}
        /\ Goto(k, "sent")
     \/ /\ ~Fenced(origin[k]) \/ mode = "cancel_requested" \/ pending # {}
        /\ Goto(k, "failed")
        /\ UNCHANGED pending
  /\ UNCHANGED <<authority, origin, registry, answer, closed, serviceVars>>

\* An answer that is known is kept; any other leaves the call in doubt.
Receive(k) ==
  /\ core[k] = "sent"
  /\ \E r \in Reply :
       /\ <<k, r>> \in replies
       /\ answer' = [answer EXCEPT ![k] = r]
       /\ Goto(k, IF r = "uncertain" THEN "lost" ELSE "answered")
  /\ UNCHANGED <<authority, origin, registry, closed, pending, serviceVars>>

\* InvocationRegistry.complete.
Complete(k) ==
  /\ core[k] = "answered" /\ Unlocked
  /\ \/ /\ Authorized(k, origin[k])
        /\ registry' = [registry EXCEPT ![k] = answer[k]]
        /\ Goto(k, "recorded")
     \/ ~Authorized(k, origin[k]) /\ Goto(k, "denied") /\ UNCHANGED registry
  /\ UNCHANGED <<authority, origin, answer, closed, pending, serviceVars>>

\* external_operation takes the call out of the journal.
Finish(k) ==
  /\ core[k] = "recorded" /\ Unlocked
  /\ \/ Fenced(origin[k]) /\ pending' = pending \ {k} /\ Goto(k, "finished")
     \/ ~Fenced(origin[k]) /\ Goto(k, "lost") /\ UNCHANGED pending
  /\ UNCHANGED <<authority, origin, registry, answer, closed, serviceVars>>

\* A timeout, a broken connection, a cancelled execution or a crash of Core.
GiveUp(k) ==
  /\ core[k] \in {"prepared", "sent", "answered", "recorded"}
  /\ Goto(k, IF core[k] = "prepared" THEN "failed" ELSE "lost")
  /\ UNCHANGED <<authority, origin, registry, answer, closed, pending,
                 serviceVars>>

\* receipt_status "completed"; reconcile_calls passes over root-scoped calls.
Resolved(k) ==
  /\ k \notin Rooted
  /\ \/ registry[k] \in Outcome \cup {"denied"}
     \/ registry[k] = "prepared" /\ row[k] \in Outcome

\* reconcile_calls: by the next claim, or by the operator of a parked row.
Reconcile ==
  /\ Unlocked
  /\ mode = "shut" \/ \A k \in pending : origin[k] < generation
  /\ pending' = {k \in pending : ~Resolved(k)}
  /\ UNCHANGED <<authority, callVars, closed, serviceVars>>

Core(k) == Prepare(k) \/ Start(k) \/ Receive(k) \/ Complete(k) \/ Finish(k)
             \/ GiveUp(k)

-----------------------------------------------------------------------------
(* Service *)

Sent(k) ==
  \/ core[k] \in {"sent", "answered", "recorded", "finished", "lost"}
  \/ core[k] = "denied" /\ answer[k] # "none"

\* The request arrives, perhaps again, perhaps long after Core gave up.
Deliver(h) ==
  /\ Sent(h[1]) /\ handler[h] = "none"
  /\ handler' = [handler EXCEPT ![h] = "arrived"]
  /\ UNCHANGED <<authority, callVars, closed, pending, row, lock, replies,
                 effects>>

Allowed(h) == Authorized(h[1], origin[h[1]])

Answer(h, r) ==
  /\ handler' = [handler EXCEPT ![h] = "gone"]
  /\ replies' = replies \cup {<<h[1], r>>}

\* A search has no row and asks for no authority.
Search(h) ==
  /\ h[1] \notin Stored /\ handler[h] = "arrived"
  /\ \E r \in Outcome \cup {"uncertain"} : Answer(h, r)
  /\ UNCHANGED <<authority, callVars, closed, pending, row, lock, effects>>

\* Fault: a row without a result is answered like a refusal.
ReceiptOptimistic(k) == IF row[k] = "running" THEN "undone" ELSE row[k]

Receipt(k) == IF row[k] = "running" THEN "uncertain" ELSE row[k]

\* The first transaction: a row before the effect, or the receipt of it.
Reserve(h) ==
  LET k == h[1] IN
  /\ k \in Stored /\ handler[h] = "arrived" /\ Unlocked
  /\ \/ /\ Allowed(h) /\ row[k] = "absent"
        /\ row' = [row EXCEPT ![k] = "running"]
        /\ handler' = [handler EXCEPT ![h] = "reserved"]
        /\ UNCHANGED replies
     \/ /\ Allowed(h) /\ row[k] # "absent"
        /\ Answer(h, Receipt(k))
        /\ UNCHANGED row
     \/ ~Allowed(h) /\ Answer(h, "denied") /\ UNCHANGED row
  /\ UNCHANGED <<authority, callVars, closed, pending, lock, effects>>

\* Fault: what was allowed at the reservation is taken for allowed.
RecheckBlind(h) ==
  /\ handler[h] = "reserved" /\ Unlocked
  /\ lock' = h
  /\ handler' = [handler EXCEPT ![h] = "checked"]
  /\ UNCHANGED <<authority, callVars, closed, pending, row, replies, effects>>

\* The second transaction authorizes again and keeps the job row.
Recheck(h) ==
  /\ handler[h] = "reserved" /\ Unlocked
  /\ \/ /\ Allowed(h)
        /\ lock' = h
        /\ handler' = [handler EXCEPT ![h] = "checked"]
        /\ UNCHANGED replies
     \/ ~Allowed(h) /\ Answer(h, "denied") /\ UNCHANGED lock
  /\ UNCHANGED <<authority, callVars, closed, pending, row, effects>>

\* The action: it is carried out, or refused by the tool itself.
Act(h) ==
  /\ handler[h] = "checked"
  /\ \E o \in Outcome :
       /\ handler' = [handler EXCEPT ![h] = o]
       /\ effects' = [effects EXCEPT ![h[1]] = IF o = "done" THEN @ + 1 ELSE @]
  /\ UNCHANGED <<authority, callVars, closed, pending, row, lock, replies>>

Commit(h) ==
  /\ handler[h] \in Outcome
  /\ row' = [row EXCEPT ![h[1]] = handler[h]]
  /\ Answer(h, handler[h])
  /\ lock' = NoHandler
  /\ UNCHANGED <<authority, callVars, closed, pending, effects>>

\* The service dies, runs out of time or loses its database: no answer, and
\* the effect, if there was one, stays.
Die(h) ==
  /\ handler[h] \notin {"none", "gone"}
  /\ handler' = [handler EXCEPT ![h] = "gone"]
  /\ lock' = IF lock = h THEN NoHandler ELSE lock
  /\ UNCHANGED <<authority, callVars, closed, pending, row, replies, effects>>

Service(h) == Deliver(h) \/ Search(h) \/ Reserve(h) \/ Recheck(h) \/ Act(h)
                \/ Commit(h) \/ Die(h)

-----------------------------------------------------------------------------
Next ==
  \/ Authority \/ Reconcile
  \/ \E k \in Call : Core(k) \/ Close(k)
  \/ \E h \in Handler : Service(h)

Spec == Init /\ [][Next]_vars

-----------------------------------------------------------------------------
(* Properties *)

\* OperationStore.execute: however often a request is delivered, and wherever
\* the service dies, a call is carried out at most once.
CarriedOutOnce == \A k \in Call : effects[k] <= 1

\* A call is carried out only while its own claim is still the newest one and
\* before its cancellation was requested: the second authorize and the lock it
\* keeps close the gap between reservation and effect.
EffectsAreAuthorized ==
  [][\A k \in Call : effects'[k] # effects[k] =>
       /\ generation = origin[k] /\ generation' = generation
       /\ mode # "cancel_requested"]_vars

\* A call leaves the journal only with a result on record, and what is on
\* record is what happened: a resolved call has been carried out exactly once
\* if it says so, and never if it says it has not (execute, complete,
\* reconcile_calls, receipt_status).
SettledCallsAreTrue ==
  \A k \in Call :
    /\ k \notin pending /\ Sent(k) =>
         \/ registry[k] \in Outcome \cup {"denied"}
         \/ row[k] \in Outcome
    /\ k \in Stored /\ "done" \in {registry[k], row[k]} => effects[k] = 1
    /\ k \in Stored /\ {registry[k], row[k]} \cap {"undone", "denied"} # {}
         => effects[k] = 0

\* operations.py:73 promises that a pause lets the current unit finish: while
\* only a pause is requested, no call of a live claim is denied.
PauseLetsUnitFinish ==
  [][\A k \in Call : core[k] # "denied" /\ core'[k] = "denied" =>
       ~(Fenced(origin'[k]) /\ mode = "pause_requested" /\ k \notin closed)]_vars
=============================================================================
