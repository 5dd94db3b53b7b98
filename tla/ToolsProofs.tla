---------------------------- MODULE ToolsProofs ----------------------------
(***************************************************************************)
(* Proofs about the effects a workflow has through tool services: the      *)
(* operations of ToolOperations and the training runs of                   *)
(* ExperimentExecution, for every set of calls and deliveries and every    *)
(* number of claims.                                                       *)
(***************************************************************************)
EXTENDS ToolOperations, ExperimentExecution, TLAPS

-----------------------------------------------------------------------------
(* Tool calls.                                                               *)

\* A delivery that has reserved its call and is not through with it.
Busy == {"reserved", "checked"} \cup Outcome

Final == Outcome \cup {"denied"}

(***************************************************************************)
(* The inductive invariant, in parts.                                      *)
(***************************************************************************)

\* The lock is held from the second authorize to the commit, under a claim
\* that was good when it was taken and has not been replaced since.
LockIsGood ==
  /\ \A k \in Call : origin[k] <= generation
  /\ \A h \in Handler : handler[h] \in {"checked"} \cup Outcome => lock = h
  /\ lock # NoHandler =>
       generation = origin[lock[1]] /\ mode # "cancel_requested"

\* The row in "running" belongs to one delivery at most.
OneReservation ==
  /\ \A h \in Handler :
       handler[h] \in Busy => h[1] \in Stored /\ row[h[1]] = "running"
  /\ \A g, h \in Handler :
       /\ g[1] = h[1]
       /\ handler[g] \in Busy /\ handler[h] \in Busy
       => g = h

\* What rows and deliveries say of a call is what happened.
RowsAreTrue ==
  /\ \A k \in Call : /\ effects[k] <= 1
                     /\ row[k] \in {"absent", "undone"} => effects[k] = 0
                     /\ row[k] = "done" => effects[k] = 1
  /\ \A h \in Handler :
       /\ handler[h] \in {"reserved", "checked", "undone"}
            => effects[h[1]] = 0
       /\ handler[h] = "done" => effects[h[1]] = 1

\* A denial outlives the authority it was based on: once denied, the call can
\* not be authorized again.
AnswersAreTrue ==
  /\ \A h \in Handler : handler[h] # "none" => Sent(h[1])
  /\ \A m \in replies : Sent(m[1])
  /\ \A k \in Stored :
       /\ \A o \in Outcome : <<k, o>> \in replies => row[k] = o
       /\ <<k, "denied">> \in replies => ~Authorized(k, origin[k])
       /\ registry[k] # "denied"
       /\ registry[k] \in Outcome => row[k] = registry[k]
  /\ \A k \in Call :
       /\ answer[k] # "none" => <<k, answer[k]>> \in replies
       /\ core[k] \in {"new", "prepared", "sent"} => answer[k] = "none"
       /\ core[k] = "answered" => answer[k] \in Final
       /\ core[k] = "recorded" => registry[k] \in Final

DoubtIsPending ==
  \A k \in Call : k \notin pending /\ Sent(k) =>
    registry[k] \in Final \/ row[k] \in Outcome

IInv ==
  /\ TypeOK
  /\ LockIsGood
  /\ OneReservation
  /\ RowsAreTrue
  /\ AnswersAreTrue
  /\ DoubtIsPending

-----------------------------------------------------------------------------

(***************************************************************************)
(* Before anything has happened every part of the invariant holds.         *)
(***************************************************************************)
LEMMA InvariantStart == Init => IInv
BY GenerationAssumption, CallAssumption
   DEF Init, AuthorityInit, IInv, TypeOK, AuthorityTypeOK, Mode, LockIsGood,
       OneReservation, RowsAreTrue, AnswersAreTrue, DoubtIsPending, Handler,
       Outcome, Reply, Final, Busy, Sent

(***************************************************************************)
(* Every step leaves values of the declared types.                         *)
(***************************************************************************)
LEMMA TypeStep == IInv /\ [Next]_vars => TypeOK'
<1> SUFFICES ASSUME IInv, [Next]_vars PROVE TypeOK'
  OBVIOUS
<1> USE GenerationAssumption, CallAssumption
<1> USE DEF TypeOK, AuthorityTypeOK, authority, callVars, serviceVars
<1>1. TypeOK
  BY DEF IInv
<1>2. CASE Authority
  BY <1>1, <1>2 DEF Authority, TakeOver, RequestPause, RequestCancel, Shut, Mode
<1>3. CASE Reconcile
  BY <1>1, <1>3 DEF Reconcile
<1>4. ASSUME NEW k \in Call, Close(k) PROVE TypeOK'
  BY <1>1, <1>4 DEF Close
<1>5. ASSUME NEW k \in Call, Core(k) PROVE TypeOK'
  <2> USE DEF Goto
  <2>1. CASE Prepare(k)
    BY <1>1, <2>1 DEF Prepare
  <2>2. CASE Start(k)
    BY <1>1, <2>2 DEF Start
  <2>3. CASE Receive(k)
    BY <1>1, <2>3 DEF Receive
  <2>4. CASE Complete(k)
    <3>1. answer[k] \in Final
      BY <2>4 DEF Complete, IInv, AnswersAreTrue
    <3>2. QED
      BY <1>1, <2>4, <3>1 DEF Complete, Final
  <2>5. CASE Finish(k)
    BY <1>1, <2>5 DEF Finish
  <2>6. CASE GiveUp(k)
    BY <1>1, <2>6 DEF GiveUp
  <2>7. QED
    BY <1>5, <2>1, <2>2, <2>3, <2>4, <2>5, <2>6 DEF Core
<1>6. ASSUME NEW h \in Handler, Service(h) PROVE TypeOK'
  <2> USE DEF Handler, Answer, Reply, Outcome
  <2>1. CASE Deliver(h)
    BY <1>1, <2>1 DEF Deliver
  <2>2. CASE Search(h)
    BY <1>1, <2>2 DEF Search
  <2>3. CASE Reserve(h)
    BY <1>1, <2>3 DEF Reserve, Receipt
  <2>4. CASE Recheck(h)
    BY <1>1, <2>4 DEF Recheck
  <2>5. CASE Act(h)
    BY <1>1, <2>5 DEF Act
  <2>6. CASE Commit(h)
    BY <1>1, <2>6 DEF Commit
  <2>7. CASE Die(h)
    BY <1>1, <2>7 DEF Die
  <2>8. QED
    BY <1>6, <2>1, <2>2, <2>3, <2>4, <2>5, <2>6, <2>7 DEF Service
<1>7. CASE UNCHANGED vars
  BY <1>1, <1>7 DEF vars
<1>8. QED
  BY <1>2, <1>3, <1>4, <1>5, <1>6, <1>7 DEF Next

(***************************************************************************)
(* Nobody else acts on the job row while it is locked, and the clock can   *)
(* only shut what the lock was taken under.                                *)
(***************************************************************************)
LEMMA LockStep == IInv /\ [Next]_vars => LockIsGood'
<1> SUFFICES ASSUME IInv, [Next]_vars PROVE LockIsGood'
  OBVIOUS
<1> USE GenerationAssumption, CallAssumption
<1> USE DEF LockIsGood, authority, callVars, serviceVars
<1>1. TypeOK /\ LockIsGood
  BY DEF IInv
<1>2. /\ generation \in Nat /\ origin \in [Call -> Nat]
      /\ lock # NoHandler => lock[1] \in Call
  BY <1>1 DEF TypeOK, AuthorityTypeOK, Handler
<1>3. ASSUME UNCHANGED <<generation, mode, origin, handler, lock>>
      PROVE  LockIsGood'
  BY <1>1, <1>3
<1>4. CASE Authority
  BY <1>1, <1>2, <1>4
     DEF Authority, TakeOver, RequestPause, RequestCancel, Shut, Unlocked,
         TypeOK, Handler, Outcome
<1>5. CASE Reconcile \/ \E k \in Call : Close(k)
  BY <1>3, <1>5 DEF Reconcile, Close
<1>6. ASSUME NEW k \in Call, Core(k) PROVE LockIsGood'
  <2>1. CASE Prepare(k)
    BY <1>1, <1>2, <2>1 DEF Prepare, Unlocked
  <2>2. CASE Start(k) \/ Receive(k) \/ Complete(k) \/ Finish(k) \/ GiveUp(k)
    BY <1>3, <2>2 DEF Start, Receive, Complete, Finish, GiveUp
  <2>3. QED
    BY <1>6, <2>1, <2>2 DEF Core
<1>7. ASSUME NEW h \in Handler, Service(h) PROVE LockIsGood'
  <2> USE DEF Answer, Outcome, TypeOK
  <2>1. CASE Deliver(h) \/ Search(h) \/ Reserve(h)
    BY <1>1, <2>1 DEF Deliver, Search, Reserve
  <2>2. CASE Recheck(h)
    <3>1. \A g \in Handler : handler[g] \notin {"checked"} \cup Outcome
      BY <1>1, <2>2 DEF Recheck, Unlocked, Handler
    <3>2. CASE /\ Allowed(h) /\ lock' = h
               /\ handler' = [handler EXCEPT ![h] = "checked"]
      <4>1. generation = origin[h[1]] /\ mode # "cancel_requested"
        BY <3>2 DEF Allowed, Authorized, Fenced
      <4>2. QED
        BY <1>1, <2>2, <3>1, <3>2, <4>1 DEF Recheck
    <3>3. CASE ~Allowed(h) /\ Answer(h, "denied") /\ UNCHANGED lock
      BY <1>1, <2>2, <3>1, <3>3 DEF Recheck
    <3>4. QED
      BY <2>2, <3>2, <3>3 DEF Recheck
  <2>3. CASE Act(h)
    BY <1>1, <2>3 DEF Act
  <2>4. CASE Commit(h)
    BY <1>1, <2>4 DEF Commit
  <2>5. CASE Die(h)
    BY <1>1, <2>5 DEF Die
  <2>6. QED
    BY <1>7, <2>1, <2>2, <2>3, <2>4, <2>5 DEF Service
<1>8. CASE UNCHANGED vars
  BY <1>3, <1>8 DEF vars
<1>9. QED
  BY <1>4, <1>5, <1>6, <1>7, <1>8 DEF Next

(***************************************************************************)
(* Only a reservation makes a delivery busy, and it needs a call without a *)
(* row; only the busy delivery ends the row it made.                       *)
(***************************************************************************)
LEMMA ReservationStep == IInv /\ [Next]_vars => OneReservation' /\ RowsAreTrue'
<1> SUFFICES ASSUME IInv, [Next]_vars PROVE OneReservation' /\ RowsAreTrue'
  OBVIOUS
<1> DEFINE Goal == OneReservation' /\ RowsAreTrue'
<1> USE GenerationAssumption, CallAssumption
<1> USE DEF authority, callVars, serviceVars
<1>1. TypeOK /\ OneReservation /\ RowsAreTrue
  BY DEF IInv
<1>2. ASSUME UNCHANGED <<row, handler, effects>> PROVE Goal
  BY <1>1, <1>2 DEF OneReservation, RowsAreTrue
<1>3. ASSUME NEW h \in Handler, NEW at \in {"arrived", "gone"},
             handler' = [handler EXCEPT ![h] = at],
             UNCHANGED <<row, effects>>
      PROVE  Goal
  BY <1>1, <1>3 DEF OneReservation, RowsAreTrue, Busy, Outcome, TypeOK
<1>4. CASE Authority \/ Reconcile \/ \E k \in Call : Close(k) \/ Core(k)
  BY <1>2, <1>4
     DEF Authority, Reconcile, Close, Core, Prepare, Start, Receive, Complete,
         Finish, GiveUp
<1>5. ASSUME NEW h \in Handler, Service(h) PROVE Goal
  <2> DEFINE k == h[1]
  <2>1. k \in Call
    BY DEF Handler
  <2>2. CASE Deliver(h) \/ Search(h) \/ Die(h)
    BY <1>3, <2>2 DEF Deliver, Search, Answer, Die
  <2>3. CASE Reserve(h)
    <3>1. CASE UNCHANGED <<row, effects>> /\ \E r : Answer(h, r)
      BY <1>3, <3>1 DEF Answer
    <3>2. ASSUME row[k] = "absent",
                 row' = [row EXCEPT ![k] = "running"],
                 handler' = [handler EXCEPT ![h] = "reserved"],
                 effects' = effects, k \in Stored
          PROVE  Goal
      <4>1. \A g \in Handler : g[1] = k => handler[g] \notin Busy
        BY <1>1, <3>2 DEF OneReservation
      <4>2. OneReservation'
        BY <1>1, <2>1, <3>2, <4>1 DEF OneReservation, Busy, Outcome, TypeOK
      <4>3. effects[k] = 0
        BY <1>1, <2>1, <3>2 DEF RowsAreTrue
      <4>4. RowsAreTrue'
        BY <1>1, <2>1, <3>2, <4>1, <4>3
           DEF RowsAreTrue, Busy, Outcome, TypeOK
      <4>5. QED
        BY <4>2, <4>4
    <3>3. QED
      BY <2>3, <3>1, <3>2 DEF Reserve
  <2>4. CASE Recheck(h)
    <3>1. CASE handler' = [handler EXCEPT ![h] = "gone"]
      BY <1>3, <2>4, <3>1 DEF Recheck
    <3>2. CASE handler' = [handler EXCEPT ![h] = "checked"]
      BY <1>1, <2>4, <3>2
         DEF Recheck, OneReservation, RowsAreTrue, Busy, Outcome, TypeOK
    <3>3. QED
      BY <2>4, <3>1, <3>2 DEF Recheck, Answer
  <2>5. CASE Act(h)
    <3>1. PICK o \in Outcome :
            /\ handler' = [handler EXCEPT ![h] = o]
            /\ effects' = [effects EXCEPT ![k] =
                             IF o = "done" THEN @ + 1 ELSE @]
            /\ handler[h] = "checked" /\ row' = row
      BY <2>5 DEF Act
    <3>2. effects[k] = 0 /\ row[k] = "running"
      BY <1>1, <3>1 DEF OneReservation, RowsAreTrue, Busy
    <3>3. \A g \in Handler : g[1] = k /\ g # h => handler[g] \notin Busy
      BY <1>1, <3>1 DEF OneReservation, Busy
    <3>4. OneReservation'
      BY <1>1, <3>1 DEF OneReservation, Busy, Outcome, TypeOK
    <3>5. RowsAreTrue'
      BY <1>1, <2>1, <3>1, <3>2, <3>3 DEF RowsAreTrue, Busy, Outcome, TypeOK
    <3>6. QED
      BY <3>4, <3>5
  <2>6. CASE Commit(h)
    <3>1. /\ handler[h] \in Outcome
          /\ row' = [row EXCEPT ![k] = handler[h]]
          /\ handler' = [handler EXCEPT ![h] = "gone"]
          /\ effects' = effects
      BY <2>6 DEF Commit, Answer
    <3>2. \A g \in Handler : g[1] = k /\ g # h => handler[g] \notin Busy
      BY <1>1, <3>1 DEF OneReservation, Busy
    <3>3. OneReservation'
      BY <1>1, <2>1, <3>1, <3>2 DEF OneReservation, Busy, Outcome, TypeOK
    <3>4. RowsAreTrue'
      BY <1>1, <2>1, <3>1, <3>2 DEF RowsAreTrue, Busy, Outcome, TypeOK
    <3>5. QED
      BY <3>3, <3>4
  <2>7. QED
    BY <1>5, <2>2, <2>3, <2>4, <2>5, <2>6 DEF Service
<1>6. CASE UNCHANGED vars
  BY <1>2, <1>6 DEF vars
<1>7. QED
  BY <1>4, <1>5, <1>6 DEF Next

(***************************************************************************)
(* A call that was dispatched stays dispatched, under its own claim.       *)
(***************************************************************************)
LEMMA SentStays ==
  ASSUME IInv, [Next]_vars, NEW k \in Call, Sent(k)
  PROVE  Sent(k)' /\ origin'[k] = origin[k]
<1> DEFINE Goal == Sent(k)' /\ origin'[k] = origin[k]
<1> USE DEF authority, callVars, serviceVars
<1>1. core \in [Call -> {"new", "prepared", "sent", "answered", "recorded",
                         "finished", "denied", "failed", "lost"}]
      /\ origin \in [Call -> 0..MaxGeneration]
      /\ answer \in [Call -> Reply \cup {"none"}]
  BY DEF IInv, TypeOK
<1>2. ASSUME UNCHANGED <<core, origin, answer>> PROVE Goal
  BY <1>2 DEF Sent
<1>3. CASE Authority \/ Reconcile \/ \E j \in Call : Close(j)
  BY <1>2, <1>3 DEF Authority, Reconcile, Close
<1>4. ASSUME NEW j \in Call, Core(j) PROVE Goal
  <2> USE DEF Sent, Goto
  <2>1. CASE Prepare(j)
    BY <1>1, <2>1 DEF Prepare, IInv, AnswersAreTrue
  <2>2. CASE Start(j)
    BY <1>1, <2>2 DEF Start
  <2>3. CASE Receive(j)
    BY <1>1, <2>3 DEF Receive, Reply, Outcome
  <2>4. CASE Complete(j)
    BY <1>1, <2>4 DEF Complete, IInv, AnswersAreTrue, Final, Outcome
  <2>5. CASE Finish(j) \/ GiveUp(j)
    BY <1>1, <2>5 DEF Finish, GiveUp
  <2>6. QED
    BY <1>4, <2>1, <2>2, <2>3, <2>4, <2>5 DEF Core
<1>5. ASSUME NEW h \in Handler, Service(h) PROVE Goal
  BY <1>2, <1>5
     DEF Service, Deliver, Search, Reserve, Recheck, Act, Commit, Die
<1>6. CASE UNCHANGED vars
  BY <1>2, <1>6 DEF vars
<1>7. QED
  BY <1>3, <1>4, <1>5, <1>6 DEF Next

(***************************************************************************)
(* Authority once lost is never regained: a claim is only replaced by a    *)
(* newer one, a requested cancellation stays requested, and a deadline     *)
(* that has passed stays passed.                                           *)
(***************************************************************************)
LEMMA DenialStays ==
  ASSUME IInv, [Next]_vars, NEW k \in Stored, Sent(k),
         ~Authorized(k, origin[k])
  PROVE  ~Authorized(k, origin[k])'
<1> USE CallAssumption
<1> USE DEF authority, callVars, serviceVars
<1>1. k \in Call /\ k \notin Rooted
  OBVIOUS
<1>2. origin'[k] = origin[k]
  BY <1>1, SentStays
<1>3. origin[k] \in Nat /\ generation \in Nat /\ origin[k] <= generation
  BY <1>1, GenerationAssumption
     DEF IInv, TypeOK, AuthorityTypeOK, LockIsGood
<1>4. ASSUME UNCHANGED authority, closed \subseteq closed'
      PROVE  ~Authorized(k, origin[k])'
  BY <1>1, <1>2, <1>4 DEF Authorized, Fenced
<1>5. CASE Authority
  BY <1>1, <1>2, <1>3, <1>5
     DEF Authority, TakeOver, RequestPause, RequestCancel, Shut, Authorized,
         Fenced
<1>6. CASE \E j \in Call : Close(j) \/ Core(j)
  BY <1>4, <1>6
     DEF Close, Core, Prepare, Start, Receive, Complete, Finish, GiveUp
<1>7. CASE Reconcile \/ \E h \in Handler : Service(h)
  BY <1>4, <1>7
     DEF Reconcile, Service, Deliver, Search, Reserve, Recheck, Act, Commit,
         Die
<1>8. CASE UNCHANGED vars
  BY <1>4, <1>8 DEF vars
<1>9. QED
  BY <1>5, <1>6, <1>7, <1>8 DEF Next

(***************************************************************************)
(* A result, once in the row of the operation, is never changed.           *)
(***************************************************************************)
LEMMA ResultStays ==
  ASSUME IInv, [Next]_vars, NEW k \in Call, row[k] \in Outcome
  PROVE  row'[k] = row[k]
<1> USE DEF authority, callVars, serviceVars
<1>1. row \in [Call -> {"absent", "running"} \cup Outcome]
  BY DEF IInv, TypeOK
<1>2. ASSUME NEW h \in Handler, Reserve(h) PROVE row'[k] = row[k]
  BY <1>1, <1>2 DEF Reserve, Outcome
<1>3. ASSUME NEW h \in Handler, Commit(h) PROVE row'[k] = row[k]
  <2>1. row[h[1]] = "running"
    BY <1>3 DEF Commit, IInv, OneReservation, Busy
  <2>2. QED
    BY <1>1, <1>3, <2>1 DEF Commit, Outcome
<1>4. CASE Authority \/ Reconcile \/ \E j \in Call : Close(j) \/ Core(j)
  BY <1>4 DEF Authority, Reconcile, Close, Core, Prepare, Start, Receive,
              Complete, Finish, GiveUp
<1>5. ASSUME NEW h \in Handler, Service(h) PROVE row'[k] = row[k]
  BY <1>2, <1>3, <1>5 DEF Service, Deliver, Search, Recheck, Act, Die
<1>6. QED
  BY <1>4, <1>5 DEF Next, vars

(***************************************************************************)
(* What is on its way to Core, has arrived there or was recorded there     *)
(* agrees with the row of the operation.                                   *)
(***************************************************************************)
LEMMA AnswerStep == IInv /\ [Next]_vars => AnswersAreTrue'
<1> SUFFICES ASSUME IInv, [Next]_vars PROVE AnswersAreTrue'
  OBVIOUS
<1> USE CallAssumption
<1> USE DEF authority, callVars, serviceVars
<1>1. TypeOK /\ AnswersAreTrue
  BY DEF IInv
<1>2. /\ \A k \in Call : Sent(k) => Sent(k)'
      /\ \A k \in Stored : Sent(k) /\ ~Authorized(k, origin[k])
            => ~Authorized(k, origin[k])'
      /\ \A k \in Call : row[k] \in Outcome => row'[k] = row[k]
  BY SentStays, DenialStays, ResultStays
<1>3. \A m \in replies : m[1] \in Call /\ Sent(m[1])
  BY <1>1 DEF TypeOK, AnswersAreTrue
<1>4. \A h \in Handler : h[1] \in Call
  BY DEF Handler
<1>5. ASSUME UNCHANGED <<replies, handler>>
      PROVE  /\ \A h \in Handler : handler'[h] # "none" => Sent(h[1])'
             /\ \A m \in replies' : Sent(m[1])'
             /\ \A k \in Stored :
                  /\ \A o \in Outcome : <<k, o>> \in replies' => row'[k] = o
                  /\ <<k, "denied">> \in replies'
                       => ~Authorized(k, origin[k])'
  BY <1>1, <1>2, <1>3, <1>4, <1>5 DEF AnswersAreTrue
<1>6. ASSUME UNCHANGED <<core, registry, answer>>, replies \subseteq replies'
      PROVE  /\ \A k \in Stored :
                  /\ registry'[k] # "denied"
                  /\ registry'[k] \in Outcome => row'[k] = registry'[k]
             /\ \A k \in Call :
                  /\ answer'[k] # "none" => <<k, answer'[k]>> \in replies'
                  /\ core'[k] \in {"new", "prepared", "sent"}
                       => answer'[k] = "none"
                  /\ core'[k] = "answered" => answer'[k] \in Final
                  /\ core'[k] = "recorded" => registry'[k] \in Final
  BY <1>1, <1>2, <1>6 DEF AnswersAreTrue
<1>7. ASSUME UNCHANGED <<core, registry, answer, replies, handler>>
      PROVE  AnswersAreTrue'
  BY <1>5, <1>6, <1>7 DEF AnswersAreTrue
<1>8. CASE Authority \/ Reconcile \/ \E k \in Call : Close(k)
  BY <1>7, <1>8 DEF Authority, Reconcile, Close
<1>9. ASSUME NEW k \in Call, Core(k) PROVE AnswersAreTrue'
  <2> DEFINE Stays(j) ==
        /\ j \in Stored =>
             /\ registry'[j] # "denied"
             /\ registry'[j] \in Outcome => row'[j] = registry'[j]
        /\ answer'[j] # "none" => <<j, answer'[j]>> \in replies'
        /\ core'[j] \in {"new", "prepared", "sent"} => answer'[j] = "none"
        /\ core'[j] = "answered" => answer'[j] \in Final
        /\ core'[j] = "recorded" => registry'[j] \in Final
  <2>1. UNCHANGED <<replies, handler, row>>
    BY <1>9 DEF Core, Prepare, Start, Receive, Complete, Finish, GiveUp
  <2>2. ASSUME NEW j \in Call, core'[j] = core[j], answer'[j] = answer[j],
               registry'[j] = registry[j]
        PROVE  Stays(j)
    BY <1>1, <2>1, <2>2 DEF AnswersAreTrue
  <2>3. \A j \in Call : j # k =>
          /\ core'[j] = core[j] /\ answer'[j] = answer[j]
          /\ registry'[j] = registry[j]
    BY <1>1, <1>9
       DEF Core, Prepare, Start, Receive, Complete, Finish, GiveUp, Goto,
           TypeOK
  <2>4. Stays(k)
    <3> USE DEF Goto
    <3>1. /\ core \in [Call -> {"new", "prepared", "sent", "answered",
                                "recorded", "finished", "denied", "failed",
                                "lost"}]
          /\ registry \in [Call -> {"absent", "prepared", "denied"}
                                    \cup Outcome]
          /\ answer \in [Call -> Reply \cup {"none"}]
      BY <1>1 DEF TypeOK
    <3>2. CASE Prepare(k)
      <4>1. answer'[k] = "none" /\ core'[k] \in {"prepared", "denied"}
        BY <1>1, <3>1, <3>2 DEF Prepare, AnswersAreTrue
      <4>2. registry'[k] \in {"prepared", registry[k]}
        BY <3>1, <3>2 DEF Prepare
      <4>3. QED
        BY <1>1, <2>1, <4>1, <4>2 DEF AnswersAreTrue, Outcome
    <3>3. CASE Start(k) \/ Finish(k) \/ GiveUp(k)
      <4>1. /\ UNCHANGED <<answer, registry>>
            /\ core'[k] \in {"sent", "failed", "finished", "lost"}
            /\ core'[k] = "sent" => core[k] = "prepared"
        BY <3>1, <3>3 DEF Start, Finish, GiveUp
      <4>2. QED
        BY <1>1, <2>1, <4>1 DEF AnswersAreTrue
    <3>4. CASE Receive(k)
      <4>1. /\ <<k, answer'[k]>> \in replies /\ registry' = registry
            /\ answer'[k] \in Reply
            /\ core'[k] = IF answer'[k] = "uncertain" THEN "lost"
                          ELSE "answered"
        BY <3>1, <3>4 DEF Receive
      <4>2. QED
        BY <1>1, <2>1, <4>1 DEF AnswersAreTrue, Final, Reply
    <3>5. CASE Complete(k)
      <4>1. answer[k] \in Final /\ <<k, answer[k]>> \in replies
        BY <1>1, <3>5 DEF Complete, AnswersAreTrue, Final, Outcome
      <4>2. k \in Stored /\ Authorized(k, origin[k])
              => answer[k] # "denied" /\ row[k] = answer[k]
        BY <1>1, <4>1 DEF AnswersAreTrue, Final
      <4>3. CASE Authorized(k, origin[k])
        <5>1. registry'[k] = answer[k] /\ core'[k] = "recorded"
              /\ answer' = answer
          BY <3>1, <3>5, <4>3 DEF Complete
        <5>2. QED
          BY <2>1, <4>1, <4>2, <4>3, <5>1 DEF Final
      <4>4. CASE ~Authorized(k, origin[k])
        <5>1. registry' = registry /\ core'[k] = "denied" /\ answer' = answer
          BY <3>1, <3>5, <4>4 DEF Complete
        <5>2. QED
          BY <1>1, <2>1, <5>1 DEF AnswersAreTrue
      <4>5. QED
        BY <4>3, <4>4
    <3>6. QED
      BY <1>9, <3>2, <3>3, <3>4, <3>5 DEF Core
  <2>5. \A j \in Call : Stays(j)
    BY <2>2, <2>3, <2>4
  <2>6. QED
    BY <1>5, <2>1, <2>5 DEF AnswersAreTrue
<1>10. ASSUME NEW h \in Handler, Service(h) PROVE AnswersAreTrue'
  <2>1. UNCHANGED <<core, registry, answer, origin, authority, closed>>
    BY <1>10 DEF Service, Deliver, Search, Reserve, Recheck, Act, Commit, Die
  <2>2. Sent(h[1])
    BY <1>1, <1>10
       DEF Service, Deliver, Search, Reserve, Recheck, Act, Commit, Die,
           AnswersAreTrue, Outcome
  <2>3. \A g \in Handler : handler'[g] # "none" => Sent(g[1])'
    BY <1>1, <1>2, <1>4, <1>10, <2>2
       DEF Service, Deliver, Search, Reserve, Recheck, Act, Commit, Die,
           Answer, AnswersAreTrue, TypeOK
  <2>4. ASSUME NEW r \in Reply, replies' = replies \cup {<<h[1], r>>},
               h[1] \in Stored /\ r \in Outcome => row'[h[1]] = r,
               h[1] \in Stored /\ r = "denied" => ~Allowed(h)
        PROVE  AnswersAreTrue'
    <3>1. \A m \in replies' : Sent(m[1])'
      BY <1>2, <1>3, <1>4, <2>2, <2>4
    <3>2. \A k \in Stored :
            /\ \A o \in Outcome : <<k, o>> \in replies' => row'[k] = o
            /\ <<k, "denied">> \in replies' => ~Authorized(k, origin[k])'
      <4>1. ~Allowed(h) => ~Authorized(h[1], origin[h[1]])'
        BY <2>1 DEF Allowed, Authorized, Fenced
      <4>2. QED
        BY <1>1, <1>2, <1>3, <2>4, <4>1 DEF AnswersAreTrue
    <3>3. QED
      BY <1>6, <2>1, <2>3, <2>4, <3>1, <3>2 DEF AnswersAreTrue
  <2>5. CASE UNCHANGED replies
    <3>1. \A m \in replies' : Sent(m[1])'
      BY <1>2, <1>3, <2>5
    <3>2. \A k \in Stored :
            /\ \A o \in Outcome : <<k, o>> \in replies' => row'[k] = o
            /\ <<k, "denied">> \in replies' => ~Authorized(k, origin[k])'
      BY <1>1, <1>2, <1>3, <2>5 DEF AnswersAreTrue
    <3>3. QED
      BY <1>6, <2>1, <2>3, <2>5, <3>1, <3>2 DEF AnswersAreTrue
  <2>6. CASE Deliver(h) \/ Act(h) \/ Die(h)
    BY <2>5, <2>6 DEF Deliver, Act, Die
  <2>7. CASE Search(h)
    BY <2>4, <2>7 DEF Search, Answer, Reply
  <2>8. CASE Reserve(h)
    <3>1. CASE Allowed(h) /\ row[h[1]] # "absent" /\ UNCHANGED row
               /\ Answer(h, Receipt(h[1]))
      <4>1. Receipt(h[1]) \in Reply /\ Receipt(h[1]) # "denied"
            /\ (Receipt(h[1]) \in Outcome => row[h[1]] = Receipt(h[1]))
        BY <1>1, <1>4, <3>1 DEF Receipt, Reply, Outcome, TypeOK
      <4>2. QED
        BY <2>4, <3>1, <4>1 DEF Answer
    <3>2. CASE ~Allowed(h) /\ Answer(h, "denied")
      BY <2>4, <3>2 DEF Answer, Reply, Outcome
    <3>3. QED
      BY <2>5, <2>8, <3>1, <3>2 DEF Reserve
  <2>9. CASE Recheck(h)
    <3>1. CASE ~Allowed(h) /\ Answer(h, "denied")
      BY <2>4, <3>1 DEF Answer, Reply, Outcome
    <3>2. QED
      BY <2>5, <2>9, <3>1 DEF Recheck
  <2>10. CASE Commit(h)
    <3>1. handler[h] \in Outcome /\ handler[h] \in Reply
          /\ handler[h] # "denied" /\ row'[h[1]] = handler[h]
      BY <1>1, <1>4, <2>10 DEF Commit, Reply, Outcome, TypeOK
    <3>2. QED
      BY <2>4, <2>10, <3>1 DEF Commit, Answer
  <2>11. QED
    BY <1>10, <2>6, <2>7, <2>8, <2>9, <2>10 DEF Service
<1>11. CASE UNCHANGED vars
  BY <1>7, <1>11 DEF vars
<1>12. QED
  BY <1>8, <1>9, <1>10, <1>11 DEF Next

(***************************************************************************)
(* A call enters the journal when it is dispatched and leaves it only with *)
(* a result; results stay.                                                 *)
(***************************************************************************)
LEMMA DoubtStep == IInv /\ [Next]_vars => DoubtIsPending'
<1> SUFFICES ASSUME IInv, [Next]_vars PROVE DoubtIsPending'
  OBVIOUS
<1> USE DEF authority, callVars, serviceVars
<1>1. TypeOK /\ AnswersAreTrue /\ DoubtIsPending
  BY DEF IInv
<1>2. /\ \A k \in Call : row[k] \in Outcome => row'[k] \in Outcome
      /\ \A k \in Call : Sent(k) => Sent(k)'
  BY ResultStays, SentStays
<1>3. ASSUME UNCHANGED <<core, answer, registry>>,
             \A k \in pending \ pending' : Resolved(k)
      PROVE  DoubtIsPending'
  BY <1>1, <1>2, <1>3 DEF DoubtIsPending, Sent, Resolved, Final
<1>4. CASE Authority \/ Reconcile \/ \E k \in Call : Close(k)
  BY <1>3, <1>4 DEF Authority, Reconcile, Close
<1>5. ASSUME NEW h \in Handler, Service(h) PROVE DoubtIsPending'
  BY <1>3, <1>5
     DEF Service, Deliver, Search, Reserve, Recheck, Act, Commit, Die
<1>6. ASSUME NEW k \in Call, Core(k) PROVE DoubtIsPending'
  <2> DEFINE Known(j) == registry[j] \in Final \/ row[j] \in Outcome
  <2>1. UNCHANGED row
    BY <1>6 DEF Core, Prepare, Start, Receive, Complete, Finish, GiveUp
  <2>2. ASSUME NEW j \in Call, j # k PROVE j \in pending \/ ~Sent(j) \/ Known(j)
    BY <1>1 DEF DoubtIsPending
  <2>3. ASSUME NEW j \in Call, j # k
        PROVE  /\ j \in pending => j \in pending'
               /\ ~Sent(j) => ~Sent(j)'
               /\ Known(j) => Known(j)'
    BY <1>1, <1>6, <2>1, <2>3
       DEF Core, Prepare, Start, Receive, Complete, Finish, GiveUp, Goto,
           TypeOK, Sent
  <2>4. k \in pending' \/ ~Sent(k)' \/ Known(k)'
    <3> USE DEF Goto
    <3>1. /\ core \in [Call -> {"new", "prepared", "sent", "answered",
                                "recorded", "finished", "denied", "failed",
                                "lost"}]
          /\ registry \in [Call -> {"absent", "prepared", "denied"}
                                    \cup Outcome]
          /\ answer \in [Call -> Reply \cup {"none"}]
      BY <1>1 DEF TypeOK
    <3>2. core[k] \in {"sent", "answered", "recorded"}
            => k \in pending \/ Known(k)
      BY <1>1 DEF DoubtIsPending, Sent
    <3>3. CASE Prepare(k)
      <4>1. core[k] = "new" /\ answer' = answer /\ core'[k] \in {"prepared", "denied"}
        BY <3>1, <3>3 DEF Prepare
      <4>2. answer'[k] = "none"
        BY <1>1, <4>1 DEF AnswersAreTrue
      <4>3. QED
        BY <4>1, <4>2 DEF Sent
    <3>4. CASE Start(k)
      BY <3>1, <3>4 DEF Start, Sent
    <3>5. CASE Receive(k)
      BY <3>2, <2>1, <3>5 DEF Receive
    <3>6. CASE Complete(k)
      <4>1. answer[k] \in Final
        BY <1>1, <3>6 DEF Complete, AnswersAreTrue
      <4>2. QED
        BY <3>1, <3>2, <2>1, <3>6, <4>1 DEF Complete
    <3>7. CASE Finish(k)
      BY <1>1, <2>1, <3>7 DEF Finish, AnswersAreTrue
    <3>8. CASE GiveUp(k)
      BY <3>1, <3>2, <2>1, <3>8 DEF GiveUp, Sent
    <3>9. QED
      BY <1>6, <3>3, <3>4, <3>5, <3>6, <3>7, <3>8 DEF Core
  <2>5. QED
    BY <2>2, <2>3, <2>4 DEF DoubtIsPending
<1>7. CASE UNCHANGED vars
  BY <1>3, <1>7 DEF vars
<1>8. QED
  BY <1>4, <1>5, <1>6, <1>7 DEF Next

-----------------------------------------------------------------------------

(***************************************************************************)
(* The invariant holds throughout.                                         *)
(***************************************************************************)
THEOREM InvariantHolds == Spec => []IInv
<1>1. IInv /\ [Next]_vars => IInv'
  BY TypeStep, LockStep, ReservationStep, AnswerStep, DoubtStep DEF IInv
<1>2. QED
  BY InvariantStart, <1>1, PTL DEF Spec

(***************************************************************************)
(* However often a request is delivered and wherever a service dies, a     *)
(* call is carried out at most once.                                       *)
(***************************************************************************)
THEOREM CallsAreCarriedOutOnce == Spec => []CarriedOutOnce
<1>1. IInv => CarriedOutOnce
  BY DEF IInv, RowsAreTrue, CarriedOutOnce
<1>2. QED
  BY <1>1, InvariantHolds, PTL

(***************************************************************************)
(* What leaves the journal has a result on record, and what is on record   *)
(* is what happened.                                                       *)
(***************************************************************************)
THEOREM RecordsAreTrue == Spec => []SettledCallsAreTrue
<1>1. IInv => SettledCallsAreTrue
  <2> SUFFICES ASSUME IInv, NEW k \in Call
               PROVE /\ k \notin pending /\ Sent(k) =>
                          \/ registry[k] \in Outcome \cup {"denied"}
                          \/ row[k] \in Outcome
                     /\ k \in Stored /\ "done" \in {registry[k], row[k]}
                          => effects[k] = 1
                     /\ /\ k \in Stored
                        /\ {registry[k], row[k]} \cap {"undone", "denied"} # {}
                        => effects[k] = 0
    BY DEF SettledCallsAreTrue
  <2>1. k \notin pending /\ Sent(k) =>
          registry[k] \in Outcome \cup {"denied"} \/ row[k] \in Outcome
    BY DEF IInv, DoubtIsPending, Final
  <2>2. k \in Stored => /\ registry[k] # "denied"
                        /\ registry[k] \in Outcome => row[k] = registry[k]
    BY DEF IInv, AnswersAreTrue
  <2>3. /\ row[k] \in {"absent", "undone"} => effects[k] = 0
        /\ row[k] = "done" => effects[k] = 1
        /\ row[k] # "denied"
    BY DEF IInv, RowsAreTrue, TypeOK, Outcome
  <2>4. QED
    BY <2>1, <2>2, <2>3 DEF Outcome
<1>2. QED
  BY <1>1, InvariantHolds, PTL

(***************************************************************************)
(* A call is carried out only under the newest claim, and not after the    *)
(* workflow's cancellation was requested.                                  *)
(***************************************************************************)
THEOREM OnlyAuthorizedEffects == Spec => EffectsAreAuthorized
<1> DEFINE Good == \A k \in Call : effects'[k] # effects[k] =>
                     /\ generation = origin[k] /\ generation' = generation
                     /\ mode # "cancel_requested"
<1>1. IInv /\ [Next]_vars => [Good]_vars
  <2> SUFFICES ASSUME IInv, [Next]_vars PROVE Good
    OBVIOUS
  <2> USE DEF authority, callVars, serviceVars
  <2>1. CASE UNCHANGED effects
    BY <2>1
  <2>2. ASSUME NEW h \in Handler, Act(h) PROVE Good
    <3>1. /\ lock = h /\ lock # NoHandler
          /\ generation = origin[h[1]] /\ mode # "cancel_requested"
      BY <2>2, CallAssumption DEF Act, IInv, LockIsGood, Handler
    <3>2. generation' = generation
      BY <2>2 DEF Act
    <3>3. \A k \in Call : k # h[1] => effects'[k] = effects[k]
      BY <2>2 DEF Act, IInv, TypeOK
    <3>4. QED
      BY <3>1, <3>2, <3>3
  <2>3. QED
    BY <2>1, <2>2
       DEF Next, Authority, Reconcile, Close, Core, Prepare, Start, Receive,
           Complete, Finish, GiveUp, Service, Deliver, Search, Reserve,
           Recheck, Commit, Die, vars
<1>2. QED
  BY <1>1, InvariantHolds, PTL DEF Spec, EffectsAreAuthorized

-----------------------------------------------------------------------------
(* Training runs.                                                            *)

\* The rows of a run and the service's own task for it agree: a row is there
\* once the task is, a receipt once its result was published.
RowsAgree(k) ==
  /\ operation[k] = "absent" <=> runner[k] = "none"
  /\ operation[k] = "absent" <=> execution[k] = "absent"
  /\ operation[k] = "completed" => runner[k] \in {"published", "stopped", "ended"}
  /\ runner[k] = "published" \/ execution[k] = "completed" => operation[k] = "completed"
  /\ runner[k] \in {"none", "fresh", "guarded"} => runs[k] = 0

\* No second run is ever dispatched.
OneRow == \A j, k \in Training : execution[j] # "absent" /\ execution[k] # "absent" => j = k

\* Of a call that was not sent nobody has heard.
Unsent(k) ==
  place[k] \in {"new", "prepared", "failed"} =>
    /\ heard[k] = "none" /\ operation[k] = "absent"
    /\ \A d \in Submission : <<k, d>> \notin taken
    /\ \A r \in RunReply : <<k, r>> \notin returned

\* What Core has heard, and kept, of a run.
Heard(k) ==
  /\ issued[k] <= generation
  /\ <<k, "completed">> \in returned \/ heard[k] = "completed" \/ record[k] = "completed"
       => operation[k] = "completed"
  /\ place[k] = "answered" => heard[k] \in {"completed", "denied"}
  /\ place[k] = "recorded" => record[k] \in {"completed", "denied"}

RunInv ==
  /\ RunsTypeOK /\ OneRow
  /\ \A k \in Training : RowsAgree(k) /\ Unsent(k) /\ Heard(k)

\* The transport does not repeat a submission.
OneSubmission == \A d, e \in Submission : d = e

\* A denial is of a submission that was refused for good, or of a poll by a
\* claim that is no longer the newest one and can record nothing.
Denied(k) ==
  <<k, "denied">> \in returned \/ heard[k] = "denied" =>
    \/ operation[k] = "absent" /\ \E d \in Submission : <<k, d>> \in taken
    \/ ~Fenced(issued[k])

\* A run that is under way is in doubt.
InDoubt(k) ==
  runner[k] \in Going \cup {"stopping", "ran"} => k \in journal /\ record[k] = "prepared"

\* A run was accepted by the one submission of it.
Accepted(k) == operation[k] # "absent" => \E d \in Submission : <<k, d>> \in taken

DoubtInv == \A k \in Training : Denied(k) /\ InDoubt(k) /\ Accepted(k)

LEMMA RunInitial == ASSUME RunsInit PROVE RunInv /\ DoubtInv
<1> USE DEF RunsInit
<1>1. RunsTypeOK
  BY GenerationAssumption DEF RunsTypeOK, AuthorityInit, AuthorityTypeOK, Mode, Waiting, Runner
<1>2. OneRow /\ \A k \in Training : RowsAgree(k) /\ Unsent(k) /\ Heard(k)
  BY GenerationAssumption DEF OneRow, RowsAgree, Unsent, Heard, AuthorityInit
<1>3. DoubtInv
  BY DEF DoubtInv, Denied, InDoubt, Accepted, Going
<1> QED  BY <1>1, <1>2, <1>3 DEF RunInv

\* The claims, and what else may be withdrawn.
LEMMA EnvironmentTypes ==
  ASSUME RunsTypeOK, Environment
  PROVE  AuthorityTypeOK' /\ generation' >= generation /\ over' \subseteq Training /\ revoked' \subseteq Training
  BY GenerationAssumption
     DEF RunsTypeOK, AuthorityTypeOK, Environment, AuthorityNext, TakeOver, RequestPause, RequestCancel,
         Shut, Mode, authority

LEMMA EnvironmentKeeps == ASSUME RunInv, Environment PROVE RunInv'
<1>1. UNCHANGED <<trainingVars, journal, taken, returned, rowVars, runVars>>
  BY DEF Environment
<1>2. RunsTypeOK /\ generation \in Nat /\ generation' \in Nat /\ generation' >= generation
  BY EnvironmentTypes, GenerationAssumption DEF RunInv, RunsTypeOK, AuthorityTypeOK
<1>3. RunsTypeOK'
  BY <1>1, <1>2, EnvironmentTypes DEF RunsTypeOK, trainingVars, rowVars, runVars
<1>4. OneRow' /\ \A k \in Training : RowsAgree(k)' /\ Unsent(k)'
  BY <1>1 DEF RunInv, OneRow, RowsAgree, Unsent, trainingVars, rowVars, runVars
<1>5. ASSUME NEW k \in Training PROVE Heard(k)'
  <2>1. issued[k] \in 0 .. MaxGeneration /\ issued[k] <= generation
    BY <1>2 DEF RunInv, Heard, RunsTypeOK
  <2>2. issued[k] <= generation'
    BY <1>2, <2>1, GenerationAssumption
  <2> QED  BY <1>1, <2>2 DEF RunInv, Heard, trainingVars, rowVars
<1> QED  BY <1>3, <1>4, <1>5 DEF RunInv

\* What Core does with a call leaves the rows of the service alone.
LEMMA CoreTypes ==
  ASSUME RunInv, NEW k \in Training, CoreStep(k)
  PROVE  RunsTypeOK' /\ UNCHANGED <<environmentVars, taken, returned, rowVars, runVars>>
<1> USE DEF RunInv, RunsTypeOK, RunGoes, ServiceUnchanged, environmentVars, rowVars, runVars, authority,
            AuthorityTypeOK
<1>1. CASE PrepareRun(k)     BY <1>1, GenerationAssumption DEF PrepareRun
<1>2. CASE DispatchRun(k)    BY <1>2 DEF DispatchRun
<1>3. CASE ReceiveAnswer(k)  BY <1>3 DEF ReceiveAnswer, Hear
<1>4. CASE Poll(k)           BY <1>4 DEF Poll, Hear, State, RunReply, Waiting
<1>5. CASE CompleteRun(k)
  <2>1. heard[k] \in {"completed", "denied"}
    BY <1>5 DEF CompleteRun, Heard
  <2> QED  BY <1>5, <2>1 DEF CompleteRun
<1>6. CASE FinishRun(k)      BY <1>6 DEF FinishRun
<1>7. CASE GiveUpRun(k)      BY <1>7 DEF GiveUpRun
<1> QED  BY <1>1, <1>2, <1>3, <1>4, <1>5, <1>6, <1>7 DEF CoreStep

LEMMA CoreKeeps == ASSUME RunInv, NEW k \in Training, CoreStep(k) PROVE RunInv'
<1>1. RunsTypeOK' /\ UNCHANGED <<environmentVars, taken, returned, rowVars, runVars>>
  BY CoreTypes
<1>2. OneRow' /\ \A j \in Training : RowsAgree(j)'
  BY <1>1 DEF RunInv, OneRow, RowsAgree, rowVars, runVars
<1>3. ASSUME NEW j \in Training PROVE Unsent(j)' /\ Heard(j)'
  <2> USE <1>1, <1>3 DEF RunInv, RunsTypeOK, Unsent, Heard, RowsAgree, RunGoes, rowVars, environmentVars, authority
  <2>1. CASE PrepareRun(k)
    BY <2>1, GenerationAssumption DEF PrepareRun, AuthorityTypeOK
  <2>2. CASE DispatchRun(k)    BY <2>2 DEF DispatchRun
  <2>3. CASE ReceiveAnswer(k)
    <3>1. PICK r \in RunReply : <<k, r>> \in returned /\ Hear(k, r)
      BY <2>3 DEF ReceiveAnswer
    <3>2. place[k] = "sent" /\ UNCHANGED <<issued, record, journal>>
      BY <2>3 DEF ReceiveAnswer
    <3>3. r \notin Waiting \cup {"uncertain"} => r \in {"completed", "denied"}
      BY DEF RunReply
    <3> QED  BY <3>1, <3>2, <3>3 DEF Hear
  <2>4. CASE Poll(k)           BY <2>4 DEF Poll, Hear, State, Waiting
  <2>5. CASE CompleteRun(k)    BY <2>5 DEF CompleteRun
  <2>6. CASE FinishRun(k)      BY <2>6 DEF FinishRun
  <2>7. CASE GiveUpRun(k)      BY <2>7 DEF GiveUpRun
  <2> QED  BY <2>1, <2>2, <2>3, <2>4, <2>5, <2>6, <2>7 DEF CoreStep
<1> QED  BY <1>1, <1>2, <1>3 DEF RunInv

\* A submission is accepted once, when nothing else was dispatched.
LEMMA SubmitKeeps ==
  ASSUME RunInv, NEW k \in Training, NEW d \in Submission, Submit(k, d) PROVE RunInv'
<1> USE DEF RunInv, CoreUnchanged, trainingVars, environmentVars, authority
<1>1. /\ UNCHANGED <<place, issued, record, heard, generation, mode, over, revoked, journal, runs>>
      /\ place[k] \notin {"new", "prepared", "failed"}
      /\ taken' = taken \cup {<<k, d>>}
      /\ \E r \in RunReply : /\ returned' = returned \cup {<<k, r>>}
                             /\ r = "completed" => operation[k] = "completed"
  BY DEF Submit, Send, State, RunReply, Waiting
<1>2. \/ UNCHANGED <<operation, execution, runner>>
      \/ /\ operation[k] = "absent" /\ \A j \in Training \ {k} : execution[j] = "absent"
         /\ operation' = [operation EXCEPT ![k] = "running"]
         /\ execution' = [execution EXCEPT ![k] = "queued"]
         /\ runner' = [runner EXCEPT ![k] = "fresh"]
  BY DEF Submit, Marked, Runs, AuthorizedRun, rowVars
<1>3. RunsTypeOK'
  BY <1>1, <1>2 DEF RunsTypeOK, AuthorityTypeOK, Waiting, Runner
<1>4. OneRow' /\ \A j \in Training : RowsAgree(j)'
  BY <1>1, <1>2 DEF RunsTypeOK, OneRow, RowsAgree
<1>5. \A j \in Training : Unsent(j)'
  BY <1>1, <1>2 DEF RunsTypeOK, Unsent
<1>6. ASSUME NEW j \in Training PROVE Heard(j)'
  <2>1. Heard(j) /\ UNCHANGED <<issued, generation, heard, record, place>>
    BY <1>1
  <2>2. operation[j] = "completed" => operation'[j] = "completed"
    BY <1>2 DEF RunsTypeOK
  <2>3. <<j, "completed">> \in returned' => <<j, "completed">> \in returned \/ operation[j] = "completed"
    BY <1>1
  <2> QED  BY <2>1, <2>2, <2>3 DEF Heard
<1> QED  BY <1>3, <1>4, <1>5, <1>6

\* The rest of the service leaves Core and the answers alone, and no row is
\* ever taken back.
LEMMA RunStepKeeps ==
  ASSUME RunInv, NEW k \in Training, Execute(k) \/ Cancel(k) PROVE RunInv'
<1> USE DEF RunInv, RunsTypeOK, CoreUnchanged, trainingVars, environmentVars, authority, rowVars, runVars, Runs, Marked,
            Waiting, Runner, Going, RowsAgree
<1>1. /\ UNCHANGED <<place, issued, record, heard, generation, mode, over, revoked, journal, taken, returned>>
      /\ RunsTypeOK'
      /\ operation[k] # "absent"
      /\ \A j \in Training : /\ operation[j] = "absent" <=> operation'[j] = "absent"
                             /\ operation[j] = "completed" => operation'[j] = "completed"
      /\ \A j \in Training : RowsAgree(j)'
  <2>1. CASE Guard(k)      BY <2>1 DEF Guard, AuthorityTypeOK
  <2>2. CASE StartRun(k)   BY <2>2 DEF StartRun, AuthorityTypeOK
  <2>3. CASE Watch(k)      BY <2>3 DEF Watch, AuthorityTypeOK
  <2>4. CASE Ran(k)        BY <2>4 DEF Ran, AuthorityTypeOK
  <2>5. CASE Publish(k)    BY <2>5 DEF Publish, AuthorityTypeOK
  <2>6. CASE Interrupt(k)  BY <2>6 DEF Interrupt, AuthorityTypeOK
  <2>7. CASE StopRun(k)    BY <2>7 DEF StopRun, AuthorityTypeOK
  <2>8. CASE Mark(k)       BY <2>8 DEF Mark, AuthorityTypeOK
  <2>9. CASE Cancel(k)     BY <2>9 DEF Cancel, AuthorityTypeOK
  <2> QED  BY <2>1, <2>2, <2>3, <2>4, <2>5, <2>6, <2>7, <2>8, <2>9 DEF Execute
<1>2. OneRow'
  BY <1>1 DEF OneRow
<1>3. \A j \in Training : Unsent(j)' /\ Heard(j)'
  BY <1>1 DEF Unsent, Heard
<1> QED  BY <1>1, <1>2, <1>3

LEMMA ServiceDies == ASSUME RunInv, Crash PROVE RunInv'
<1> USE DEF RunInv, Crash, CoreUnchanged, trainingVars, environmentVars, authority, rowVars
<1>1. RunsTypeOK'
  BY DEF RunsTypeOK, Runner, AuthorityTypeOK
<1>2. OneRow' /\ \A j \in Training : RowsAgree(j)'
  BY DEF RunsTypeOK, OneRow, RowsAgree
<1>3. \A j \in Training : Unsent(j)' /\ Heard(j)'
  BY DEF Unsent, Heard
<1> QED  BY <1>1, <1>2, <1>3

LEMMA ReconcileKeeps == ASSUME RunInv, ReconcileRuns PROVE RunInv'
<1> USE DEF RunInv, ReconcileRuns, ServiceUnchanged, trainingVars, environmentVars, authority, rowVars, runVars
<1>1. RunsTypeOK'
  BY DEF RunsTypeOK, AuthorityTypeOK
<1>2. OneRow' /\ \A j \in Training : RowsAgree(j)' /\ Unsent(j)' /\ Heard(j)'
  BY DEF OneRow, RowsAgree, Unsent, Heard
<1> QED  BY <1>1, <1>2

LEMMA RunInvStep == ASSUME RunInv, [RunsNext]_experimentVars PROVE RunInv'
<1>1. CASE UNCHANGED experimentVars
  BY <1>1 DEF RunInv, RunsTypeOK, OneRow, RowsAgree, Unsent, Heard, experimentVars, environmentVars, authority,
              trainingVars, rowVars, runVars, AuthorityTypeOK
<1> QED
  BY <1>1, EnvironmentKeeps, ReconcileKeeps, ServiceDies, CoreKeeps, RunStepKeeps, SubmitKeeps DEF RunsNext

\* No run was ever started twice, and no two runs were.
LEMMA OneRunAtMost == ASSUME RunInv PROVE OneTraining
<1>1. \A k \in Training : runs[k] \in 0 .. 1
  BY DEF RunInv, RunsTypeOK
<1>2. \A k \in Training : runs[k] = 1 => execution[k] # "absent"
  BY DEF RunInv, RowsAgree
<1> QED  BY <1>1, <1>2 DEF RunInv, OneRow, OneTraining

\* One training run per unit, for every number of calls, submissions of them,
\* takeovers and crashes: the runs a sandbox was asked for are the dispatched
\* ones, and authorize_run accepts no second one.
THEOREM TrainedOnce == RunsSpec => []OneTraining
<1>1. RunsSpec => []RunInv
  BY RunInitial, RunInvStep, PTL DEF RunsSpec
<1> QED  BY <1>1, OneRunAtMost, PTL

-----------------------------------------------------------------------------
(* A run that is under way is in doubt.                                      *)

\* A claim that has lost its authority never gets it back.
LEMMA FenceIsLost ==
  ASSUME RunInv, NEW k \in Training, Environment, ~Fenced(issued[k])
  PROVE  ~Fenced(issued[k])'
<1>1. /\ issued' = issued
      /\ \/ AuthorityNext \/ UNCHANGED authority
  BY DEF Environment, trainingVars, authority
<1>2. issued[k] \in Nat /\ generation \in Nat /\ issued[k] <= generation
  <2>1. issued[k] \in 0 .. MaxGeneration /\ generation \in 0 .. MaxGeneration
    BY DEF RunInv, RunsTypeOK, AuthorityTypeOK
  <2>2. issued[k] <= generation
    BY DEF RunInv, Heard
  <2> QED  BY <2>1, <2>2, GenerationAssumption
<1>3. \/ UNCHANGED <<generation, mode>>
      \/ generation' = generation + 1
      \/ generation' = generation /\ mode # "shut"
      \/ mode' = "shut"
  BY <1>1 DEF AuthorityNext, TakeOver, RequestPause, RequestCancel, Shut, authority
<1>4. issued'[k] = issued[k] /\ issued[k] # generation + 1
  BY <1>1, <1>2
<1> QED  BY <1>3, <1>4 DEF Fenced

LEMMA EnvironmentDoubt == ASSUME RunInv, DoubtInv, Environment PROVE DoubtInv'
<1>1. UNCHANGED <<trainingVars, journal, taken, returned, rowVars, runVars>>
  BY DEF Environment
<1>2. ASSUME NEW k \in Training PROVE Denied(k)' /\ InDoubt(k)' /\ Accepted(k)'
  BY <1>1, FenceIsLost DEF DoubtInv, Denied, InDoubt, Accepted, trainingVars, rowVars, runVars
<1> QED  BY <1>2 DEF DoubtInv

\* A denial that can be recorded is of a run that never was.
LEMMA CoreDoubt == ASSUME RunInv, DoubtInv, NEW k \in Training, CoreStep(k) PROVE DoubtInv'
<1>1. UNCHANGED <<environmentVars, taken, returned, rowVars, runVars>>
  BY CoreTypes
<1> USE <1>1 DEF RunInv, DoubtInv, RunsTypeOK, environmentVars, authority, rowVars, runVars, RunGoes
<1>2. ASSUME NEW j \in Training PROVE Denied(j)'
  <2> USE <1>2 DEF Denied, Fenced
  <2>1. CASE PrepareRun(k)
    BY <2>1 DEF PrepareRun, Unsent, RunReply
  <2>2. CASE DispatchRun(k)    BY <2>2 DEF DispatchRun
  <2>3. CASE ReceiveAnswer(k)  BY <2>3 DEF ReceiveAnswer, Hear
  <2>4. CASE Poll(k)
    <3>1. \A r \in State(k) : r # "denied"
      BY DEF State, Waiting
    <3>2. /\ heard' = [heard EXCEPT ![k] = heard'[k]] /\ issued' = issued
          /\ heard'[k] = "denied" => ~Fenced(issued[k])
      BY <2>4, <3>1 DEF Poll, Hear
    <3> QED  BY <2>4, <3>2
  <2>5. CASE CompleteRun(k)    BY <2>5 DEF CompleteRun
  <2>6. CASE FinishRun(k)      BY <2>6 DEF FinishRun
  <2>7. CASE GiveUpRun(k)      BY <2>7 DEF GiveUpRun
  <2> QED  BY <2>1, <2>2, <2>3, <2>4, <2>5, <2>6, <2>7 DEF CoreStep
<1>3. ASSUME NEW j \in Training PROVE InDoubt(j)'
  <2> USE <1>3 DEF InDoubt, Going
  <2>1. CASE PrepareRun(k)     BY <2>1 DEF PrepareRun
  <2>2. CASE DispatchRun(k)    BY <2>2 DEF DispatchRun
  <2>3. CASE ReceiveAnswer(k)  BY <2>3 DEF ReceiveAnswer
  <2>4. CASE Poll(k)           BY <2>4 DEF Poll
  <2>5. CASE CompleteRun(k)
    <3>1. CASE Permitted(k, issued[k])
      <4>1. operation[k] \in {"absent", "completed"}
        BY <2>5, <3>1 DEF CompleteRun, Permitted, Heard, Denied
      <4>2. runner[k] \notin Going \cup {"stopping", "ran"}
        BY <4>1 DEF RowsAgree
      <4> QED  BY <2>5, <4>2 DEF CompleteRun
    <3> QED  BY <2>5, <3>1 DEF CompleteRun
  <2>6. CASE FinishRun(k)
    BY <2>6 DEF FinishRun, Heard
  <2>7. CASE GiveUpRun(k)      BY <2>7 DEF GiveUpRun
  <2> QED  BY <2>1, <2>2, <2>3, <2>4, <2>5, <2>6, <2>7 DEF CoreStep
<1>4. \A j \in Training : Accepted(j)'
  BY DEF Accepted
<1> QED  BY <1>2, <1>3, <1>4

LEMMA SubmitDoubt ==
  ASSUME OneSubmission, RunInv, DoubtInv, NEW k \in Training, NEW d \in Submission, Submit(k, d)
  PROVE  DoubtInv'
<1> USE DEF RunInv, DoubtInv, RunsTypeOK, CoreUnchanged, trainingVars, environmentVars, authority, rowVars
<1>1. /\ UNCHANGED <<issued, record, heard, generation, mode, journal>>
      /\ taken' = taken \cup {<<k, d>>}
      /\ operation[k] = "absent"
      /\ \A e \in Submission : <<k, e>> \notin taken
  BY DEF Submit, OneSubmission, Accepted
<1>2. \/ UNCHANGED <<operation, runner>> /\ \E r \in RunReply : returned' = returned \cup {<<k, r>>}
      \/ /\ operation' = [operation EXCEPT ![k] = "running"]
         /\ runner' = [runner EXCEPT ![k] = "fresh"]
         /\ returned' = returned \cup {<<k, "queued">>}
         /\ ~(<<k, "denied">> \in returned \/ heard[k] = "denied") \/ ~Fenced(issued[k])
  BY <1>1 DEF Submit, Marked, Runs, Send, State, RunReply, Waiting, Denied
<1>3. ASSUME NEW j \in Training PROVE Denied(j)' /\ InDoubt(j)' /\ Accepted(j)'
  <2>1. Denied(j) /\ InDoubt(j) /\ Accepted(j) /\ <<k, d>> \in taken' /\ taken \subseteq taken'
    BY <1>1
  <2>2. CASE j # k
    <3>1. /\ operation'[j] = operation[j] /\ runner'[j] = runner[j]
          /\ <<j, "denied">> \in returned' => <<j, "denied">> \in returned
      BY <1>2, <2>2
    <3> QED  BY <1>1, <2>1, <3>1 DEF Denied, InDoubt, Accepted, Fenced
  <2>3. CASE j = k
    <3>1. Accepted(k)'
      BY <2>1 DEF Accepted
    <3>2. CASE UNCHANGED <<operation, runner>>
      BY <1>1, <2>1, <2>3, <3>1, <3>2 DEF Denied, InDoubt, Fenced
    <3>3. CASE ~UNCHANGED <<operation, runner>>
      <4>1. Denied(k)'
        BY <1>1, <1>2, <3>3 DEF Denied, Fenced
      <4>2. runner'[k] = "fresh"
        BY <1>2, <3>3
      <4> QED  BY <1>1, <2>1, <2>3, <3>1, <4>1, <4>2 DEF InDoubt, Going
    <3> QED  BY <3>2, <3>3
  <2> QED  BY <2>2, <2>3
<1> QED  BY <1>3

LEMMA RunStepDoubt ==
  ASSUME RunInv, DoubtInv, NEW k \in Training, Execute(k) \/ Cancel(k) PROVE DoubtInv'
<1> USE DEF RunInv, DoubtInv, RunsTypeOK, CoreUnchanged, trainingVars, environmentVars, authority, rowVars, runVars,
            Runs, Marked, Going
<1>1. /\ UNCHANGED <<issued, record, heard, generation, mode, journal, taken, returned>>
      /\ operation[k] # "absent"
      /\ \A j \in Training : operation[j] = "absent" <=> operation'[j] = "absent"
      /\ \A j \in Training \ {k} : runner'[j] = runner[j]
      /\ runner'[k] \in Going \cup {"stopping", "ran"} =>
           runner[k] \in Going \cup {"stopping", "ran"} \/ AuthorizedRun(k)
  <2> USE DEF RowsAgree
  <2>1. CASE Guard(k)      BY <2>1 DEF Guard, Guarded
  <2>2. CASE StartRun(k)   BY <2>2 DEF StartRun
  <2>3. CASE Watch(k)      BY <2>3 DEF Watch
  <2>4. CASE Ran(k)        BY <2>4 DEF Ran
  <2>5. CASE Publish(k)    BY <2>5 DEF Publish
  <2>6. CASE Interrupt(k)  BY <2>6 DEF Interrupt
  <2>7. CASE StopRun(k)    BY <2>7 DEF StopRun
  <2>8. CASE Mark(k)       BY <2>8 DEF Mark
  <2>9. CASE Cancel(k)     BY <2>9 DEF Cancel
  <2> QED  BY <2>1, <2>2, <2>3, <2>4, <2>5, <2>6, <2>7, <2>8, <2>9 DEF Execute
<1>2. ASSUME NEW j \in Training PROVE Denied(j)' /\ InDoubt(j)' /\ Accepted(j)'
  BY <1>1, <1>2 DEF Denied, InDoubt, Accepted, AuthorizedRun, Fenced
<1> QED  BY <1>2

LEMMA DoubtInvStep ==
  ASSUME OneSubmission, RunInv, DoubtInv, [RunsNext]_experimentVars PROVE DoubtInv'
<1>1. CASE UNCHANGED experimentVars
  BY <1>1 DEF DoubtInv, Denied, InDoubt, Accepted, Fenced, experimentVars, environmentVars, authority,
              trainingVars, rowVars, runVars
<1>2. CASE Crash
  BY <1>2 DEF Crash, CoreUnchanged, trainingVars, environmentVars, authority, rowVars,
              DoubtInv, Denied, InDoubt, Accepted, Fenced, Going
<1>3. CASE ReconcileRuns
  BY <1>3 DEF ReconcileRuns, ServiceUnchanged, trainingVars, environmentVars, authority, rowVars, runVars,
              RunInv, RowsAgree, DoubtInv, Denied, InDoubt, Accepted, Fenced, Going
<1> QED
  BY <1>1, <1>2, <1>3, EnvironmentDoubt, CoreDoubt, RunStepDoubt, SubmitDoubt DEF RunsNext

LEMMA DoubtIsRecord == ASSUME RunInv, DoubtInv PROVE RunsAreOnRecord
  BY DEF RunInv, RowsAgree, Heard, DoubtInv, InDoubt, RunsAreOnRecord

\* While a run may be under way its call is in doubt and unrecorded, and what is
\* reported as completed has its receipt, if the transport does not repeat a
\* submission: the denial of a first submission says nothing about a second.
THEOREM RunsStayOnRecord == ASSUME OneSubmission PROVE RunsSpec => []RunsAreOnRecord
<1>1. RunsInit => RunInv /\ DoubtInv
  BY RunInitial
<1>2. RunInv /\ DoubtInv /\ [RunsNext]_experimentVars => (RunInv /\ DoubtInv)'
  BY RunInvStep, DoubtInvStep
<1>3. RunInv /\ DoubtInv => RunsAreOnRecord
  BY DoubtIsRecord
<1> QED  BY <1>1, <1>2, <1>3, PTL DEF RunsSpec
=============================================================================
