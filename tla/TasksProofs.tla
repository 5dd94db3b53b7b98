---------------------------- MODULE TasksProofs ----------------------------
(***************************************************************************)
(* What one task does, for every number of steps, calls, sources and       *)
(* repairs: what the coding agent and an experiment may call a success,    *)
(* what a run of the agent may call one and how it counts its calls, and   *)
(* the plan of a workflow with its repair.                                 *)
(***************************************************************************)
EXTENDS PlanRepair, AgentRunner, CodingRun, FiniteSetTheorems, TLAPS

-----------------------------------------------------------------------------
(* Code and experiments: what has been checked is known of a content, not of *)
(* a time, so whoever writes meanwhile cannot make an old result count for   *)
(* what lies there now.                                                      *)

Contents == Content \cup {Empty}
OfAgent == {"author", "tool", "static", "pytest", "conclude", "finalize"}
Phases == OfAgent \cup {"experiment", "artifacts", "saved", "done"}
PendingCalls == {"edit", "other", "ready"}
Pending == Seq(PendingCalls)

CodingState ==
  [pending : Pending, calls : Nat, retries : Nat, repairs : Nat, asked : BOOLEAN,
   handoff : {"none", "edit_limit", "model_call_reserve", "model_ready"},
   feedback : BOOLEAN, objective : BOOLEAN, last : {"none", "failed"} \cup PendingCalls,
   snap : Contents, ok : BOOLEAN, late : BOOLEAN, asksWithout : BOOLEAN]
Loop == [action : 1 .. 3, source : Contents, sha : Contents, repairs : Nat, repaired : 1 .. 3]
CodeRow == [status : {"running", "failed", "succeeded"}, sha : Contents, trained : Contents]

CodingTypes ==
  /\ given \in [mode : {"full", "snapshot", "experiment"}, repair : BOOLEAN, calls : Nat,
                replans : BOOLEAN, reserve : Nat]
  /\ given.reserve = Reserve(given.calls, given.replans)
  /\ phase \in Phases
  /\ source \in Contents
  /\ left \in Nat
  /\ agent \in CodingState
  /\ phase = "tool" => agent.pending # <<>>
  /\ exp \in Loop
  /\ codeRow \in CodeRow

\* The reserve is out of the author's reach.
ReserveIsLeft == Snapshot => left = given.calls \/ left >= given.reserve

\* The first n actions succeeded in the sandbox with this content.
Tested(content, n) == \A i \in 1 .. 3 : i <= n => <<content, Actions[i]>> \in passed

\* So did the first n actions of the experiment's loop with what it has, but for those
\* before a repair that was overwritten.
RanThrough(n) ==
  \A i \in 1 .. 3 : i <= n => <<exp.source, Actions[i]>> \in passed \/ (agent.late /\ i < exp.repaired)

ChecksAreOfTheSnapshot ==
  /\ phase = "pytest" => Tested(agent.snap, 1)
  /\ phase = "conclude" /\ agent.ok => Tested(agent.snap, 2)
  /\ phase = "finalize" /\ ~agent.late => Tested(source, 2)

\* The agent repairs the action that the loop is at.
ExperimentFollows ==
  /\ given.mode # "experiment" => phase \notin {"experiment", "artifacts", "saved"}
  /\ given.mode = "experiment" /\ phase \in OfAgent => exp.repaired = exp.action
  /\ phase = "experiment" => exp.sha = exp.source /\ RanThrough(exp.action - 1)
  /\ phase \in {"artifacts", "saved"} =>
       codeRow.sha = exp.source /\ codeRow.trained = exp.source /\ RanThrough(3)

EndIsTested ==
  /\ phase # "done" => codeRow.status = "running"
  /\ TrainedWasTested

CodingInv == CodingTypes /\ ReserveIsLeft /\ ChecksAreOfTheSnapshot /\ ExperimentFollows /\ EndIsTested

LEMMA CodingSound == ASSUME CodingInv PROVE TrainedWasTested /\ ReserveIsKept
<1>1. TrainedWasTested
  BY DEF CodingInv, EndIsTested
<1>2. ReserveIsKept
  BY DEF CodingInv, CodingTypes, ReserveIsLeft, Snapshot, Reserve, ReserveIsKept
<1> QED  BY <1>1, <1>2

LEMMA PendingIs ==
  /\ <<>> \in Pending /\ <<"edit">> \in Pending /\ <<"ready">> \in Pending
  /\ \A n \in Nat : [1 .. n -> PendingCalls] \subseteq Pending
  /\ \A s \in Pending : s # <<>> => Tail(s) \in Pending /\ s[1] \in PendingCalls
<1>1. <<>> \in Pending /\ <<"edit">> \in Pending /\ <<"ready">> \in Pending
  BY DEF Pending, PendingCalls
<1>2. \A n \in Nat : [1 .. n -> PendingCalls] \subseteq Pending
  BY DEF Pending
<1>3. \A s \in Pending : s # <<>> => Tail(s) \in Pending /\ s[1] \in PendingCalls
  BY DEF Pending
<1> QED  BY <1>1, <1>2, <1>3

LEMMA NewAgentIs == NewAgent \in CodingState
  BY PendingIs DEF NewAgent, CodingState, Contents

LEMMA CodingInitial == ASSUME CodingInit PROVE CodingInv
<1>1. PICK calls \in 0 .. MaxModelCalls, replans \in BOOLEAN, repair \in BOOLEAN :
        /\ left = calls
        /\ given \in [mode : {"full", "snapshot", "experiment"}, repair : {repair},
                      calls : {calls}, replans : {replans}, reserve : {Reserve(calls, replans)}]
  BY DEF CodingInit
<1>2. calls \in Nat /\ Reserve(calls, replans) \in Nat
  BY <1>1, CodingAssumption DEF Reserve
<1>3. /\ given \in [mode : {"full", "snapshot", "experiment"}, repair : BOOLEAN, calls : Nat,
                    replans : BOOLEAN, reserve : Nat]
      /\ given.reserve = Reserve(given.calls, given.replans) /\ left = given.calls
  BY <1>1, <1>2
<1>4. source \in Contents /\ agent = NewAgent /\ passed = {}
  BY DEF CodingInit, Contents
<1>5. exp \in Loop /\ exp.action = 1 /\ exp.source = exp.sha
  BY <1>4 DEF CodingInit, Loop
<1>6. codeRow \in CodeRow /\ codeRow.status = "running"
  BY DEF CodingInit, CodeRow, Contents
<1>7. phase = IF given.mode = "experiment" THEN "experiment" ELSE "author"
  BY DEF CodingInit
<1>8. CodingTypes
  BY <1>2, <1>1, <1>3, <1>4, <1>5, <1>6, <1>7, NewAgentIs DEF CodingTypes, Phases, OfAgent
<1> QED  BY <1>3, <1>5, <1>6, <1>7, <1>8
         DEF CodingInv, ReserveIsLeft, ChecksAreOfTheSnapshot, ExperimentFollows, EndIsTested, Tested, RanThrough,
             TrainedWasTested, OfAgent

\* A failure ends it: nothing is claimed of what was done.
LEMMA CodingFailureKeeps ==
  ASSUME CodingInv, phase # "done", CodingFails, UNCHANGED given, source' \in Contents, left' \in Nat,
         agent' \in CodingState, exp' \in Loop, ReserveIsLeft'
  PROVE  CodingInv'
<1>1. phase' = "done" /\ codeRow' = [codeRow EXCEPT !.status = "failed"] /\ codeRow \in CodeRow
  BY DEF CodingFails, Closes, CodingInv, CodingTypes
<1>2. codeRow' \in CodeRow /\ codeRow'.status = "failed"
  BY <1>1 DEF CodeRow
<1> QED  BY <1>1, <1>2 DEF CodingInv, CodingTypes, ChecksAreOfTheSnapshot, ExperimentFollows, EndIsTested,
                           TrainedWasTested, Phases, OfAgent

\* The author, its tools and the hand-off say nothing of what was checked.
LEMMA AuthoringKeeps ==
  ASSUME CodingInv, phase # "done", phase' \in {"author", "tool", "static"},
         UNCHANGED <<given, passed>>, codeRow'.status = "running", codeRow' \in CodeRow,
         source' \in Contents, left' \in Nat, exp' \in Loop,
         given.mode = "experiment" => exp'.repaired = exp'.action,
         agent' \in CodingState, phase' = "tool" => agent'.pending # <<>>, ReserveIsLeft'
  PROVE  CodingInv'
  BY DEF CodingInv, CodingTypes, ChecksAreOfTheSnapshot, ExperimentFollows, EndIsTested,
         TrainedWasTested, Phases, OfAgent

LEMMA SameReserve ==
  ASSUME CodingInv, UNCHANGED <<given, left>>
  PROVE  ReserveIsLeft' /\ left' \in Nat
  BY DEF CodingInv, CodingTypes, ReserveIsLeft, Snapshot

LEMMA AgentIsAtAction ==
  ASSUME CodingInv, phase \in OfAgent, UNCHANGED exp
  PROVE  given.mode = "experiment" => exp'.repaired = exp'.action
  BY DEF CodingInv, ExperimentFollows

\* A request of the author never touches the reserve.
LEMMA AskingKeepsReserve ==
  ASSUME CodingInv, MayAsk, Asks, UNCHANGED given
  PROVE  ReserveIsLeft' /\ left' \in Nat
<1>1. left \in Nat /\ given.reserve \in Nat
  BY DEF CodingInv, CodingTypes
<1>2. CASE Snapshot
  <2>1. left > given.reserve
    <3>1. agent.calls \in Nat /\ Limit \in Nat
      BY CodingAssumption DEF CodingInv, CodingTypes, CodingState, Limit
    <3>2. ~(agent.calls >= Limit) /\ ~(agent.calls < Limit /\ left <= given.reserve)
      BY <1>2 DEF MayAsk, Trigger
    <3> QED  BY <1>1, <3>1, <3>2
  <2>2. left' = left - 1
    BY <1>2 DEF Asks
  <2> QED  BY <1>1, <2>1, <2>2 DEF ReserveIsLeft, Snapshot
<1>3. CASE ~Snapshot
  BY <1>1, <1>3 DEF Asks, ReserveIsLeft, Snapshot
<1> QED  BY <1>2, <1>3

LEMMA AskedIs == ASSUME CodingInv PROVE Asked \in CodingState
<1>1. PICK old \in CodingState : old = agent
  BY DEF CodingInv, CodingTypes
<1>2. PICK without \in BOOLEAN : without = (agent.asksWithout \/ ~(Snapshot \/ agent.objective))
  OBVIOUS
<1>3. Asked = [old EXCEPT !.asked = TRUE, !.asksWithout = without]
  BY <1>1, <1>2 DEF Asked
<1> QED  BY <1>3 DEF CodingState

LEMMA HandsOffKeeps == ASSUME CodingInv, HandsOff PROVE CodingInv'
<1>1. /\ phase = "author" /\ UNCHANGED <<given, source, left, exp, passed>>
      /\ source \in Contents /\ exp \in Loop /\ codeRow \in CodeRow /\ codeRow.status = "running"
  BY DEF HandsOff, CodingInv, CodingTypes, EndIsTested
<1>2. PICK old \in CodingState : old = agent
  BY DEF CodingInv, CodingTypes
<1>3. CASE CodingFails /\ UNCHANGED agent
  BY <1>1, <1>2, <1>3, CodingFailureKeeps, SameReserve
<1>4. CASE agent' = [agent EXCEPT !.pending = <<>>, !.handoff = Trigger] /\ phase' = "static" /\ UNCHANGED codeRow
  <2>1. PICK why \in {"none", "edit_limit", "model_call_reserve"} : why = Trigger
    BY DEF Trigger
  <2>2. agent' = [old EXCEPT !.pending = <<>>, !.handoff = why]
    BY <1>2, <1>4, <2>1
  <2>3. agent' \in CodingState
    BY <2>2, PendingIs DEF CodingState
  <2> QED  BY <1>1, <1>4, <2>3, AuthoringKeeps, SameReserve, AgentIsAtAction DEF OfAgent
<1> QED  BY <1>3, <1>4 DEF HandsOff

LEMMA AfterAuthorIs ==
  ASSUME NEW a \in CodingState
  PROVE  AfterAuthor(a) \in {"author", "tool", "static"} /\ (AfterAuthor(a) = "tool" => a.pending # <<>>)
  BY DEF AfterAuthor

LEMMA AfterToolIs ==
  ASSUME NEW a \in CodingState
  PROVE  AfterTool(a) \in {"author", "tool", "static"} /\ (AfterTool(a) = "tool" => a.pending # <<>>)
  BY DEF AfterTool

LEMMA AuthorKeeps == ASSUME CodingInv, AuthorBreaksSchema \/ AuthorMisses \/ AuthorReplies PROVE CodingInv'
<1>1. /\ MayAsk /\ Asks /\ phase = "author" /\ UNCHANGED <<given, source, exp, passed>>
      /\ source' \in Contents /\ exp' \in Loop /\ codeRow \in CodeRow /\ codeRow.status = "running"
  BY DEF AuthorBreaksSchema, AuthorMisses, AuthorReplies, MayAsk, CodingInv, CodingTypes, EndIsTested
<1>2. PICK b \in CodingState : b = Asked
  BY AskedIs
<1>3. CASE CodingFails /\ agent' = b
  BY <1>1, <1>3, CodingFailureKeeps, AskingKeepsReserve
<1>4. ASSUME agent' \in CodingState, UNCHANGED codeRow, phase' \in {"author", AfterAuthor(agent')} PROVE CodingInv'
  <2>1. phase' \in {"author", "tool", "static"} /\ (phase' = "tool" => agent'.pending # <<>>)
    BY <1>4, AfterAuthorIs
  <2> QED  BY <1>1, <1>4, <2>1, AuthoringKeeps, AskingKeepsReserve, AgentIsAtAction DEF OfAgent
<1>5. b.retries \in Nat /\ agent.retries \in Nat
  BY DEF CodingState, CodingInv, CodingTypes
<1>a. PICK more \in Nat : more = b.retries + 1
  BY <1>5
<1>6. CASE AuthorBreaksSchema
  <2>1. CASE agent' = [b EXCEPT !.retries = more, !.pending = <<>>, !.handoff = "none", !.feedback = TRUE]
             /\ phase' = "author" /\ UNCHANGED codeRow
    <3>1. agent' \in CodingState
      BY <1>5, <2>1, PendingIs DEF CodingState
    <3> QED  BY <1>4, <2>1, <3>1
  <2> QED  BY <1>2, <1>3, <1>6, <1>a, <2>1 DEF AuthorBreaksSchema
<1>7. CASE AuthorMisses
  <2>1. CASE agent' = [b EXCEPT !.retries = more, !.feedback = TRUE]
             /\ phase' = AfterAuthor(agent') /\ UNCHANGED codeRow
    <3>1. agent' \in CodingState
      BY <1>5, <2>1 DEF CodingState
    <3> QED  BY <1>4, <2>1, <3>1
  <2> QED  BY <1>2, <1>3, <1>7, <1>a, <2>1 DEF AuthorMisses
<1>8. CASE AuthorReplies
  <2>1. PICK batch \in Batches :
          \/ CodingFails /\ agent' = b
          \/ /\ agent' = [b EXCEPT !.pending = batch, !.feedback = FALSE,
                                   !.retries = IF Snapshot THEN b.retries ELSE 0,
                                   !.handoff = IF batch[1] = "ready" THEN "model_ready" ELSE "none"]
             /\ phase' = AfterAuthor(agent') /\ UNCHANGED codeRow
    BY <1>2, <1>8 DEF AuthorReplies
  <2>2. batch \in Pending
    <3>1. CASE ~Snapshot
      <4>1. PICK n \in 1 .. MaxBatch : batch \in [1 .. n -> {"edit", "other", "ready"}]
        BY <2>1, <3>1 DEF Batches
      <4> QED  BY <4>1, PendingIs DEF PendingCalls
    <3> QED  BY <2>1, <3>1, PendingIs DEF Batches
  <2>3. PICK retries \in Nat : retries = IF Snapshot THEN b.retries ELSE 0
    BY <1>5
  <2>4. PICK handoff \in {"model_ready", "none"} : handoff = IF batch[1] = "ready" THEN "model_ready" ELSE "none"
    OBVIOUS
  <2>5. CASE agent' = [b EXCEPT !.pending = batch, !.feedback = FALSE, !.retries = retries, !.handoff = handoff]
             /\ phase' = AfterAuthor(agent') /\ UNCHANGED codeRow
    <3>1. agent' \in CodingState
      BY <2>2, <2>5 DEF CodingState
    <3> QED  BY <1>4, <2>5, <3>1
  <2> QED  BY <1>3, <2>1, <2>3, <2>4, <2>5
<1> QED  BY <1>6, <1>7, <1>8

\* What ends in failure whatever was done: a cancellation, a limit, a refusal.
LEMMA CodingEndsKeep ==
  ASSUME CodingInv, Interrupted \/ OutOfFileCalls \/ ToolRefused \/ NothingWritten \/ ValidationFails \/ ResultsRefused
  PROVE  CodingInv'
<1>1. phase # "done" /\ CodingFails /\ UNCHANGED <<given, source, left, agent, exp, passed>>
  BY DEF Interrupted, OutOfFileCalls, ToolRefused, NothingWritten, ValidationFails, ResultsRefused
<1>2. source' \in Contents /\ agent' \in CodingState /\ exp' \in Loop
  BY <1>1 DEF CodingInv, CodingTypes
<1> QED  BY <1>1, <1>2, CodingFailureKeeps, SameReserve

LEMMA ToolKeeps == ASSUME CodingInv, PendingRuns \/ EditTooLarge PROVE CodingInv'
<1>1. /\ phase = "tool" /\ UNCHANGED <<given, left, exp, passed, codeRow>> /\ exp \in Loop
      /\ codeRow \in CodeRow /\ codeRow.status = "running" /\ phase' = AfterTool(agent')
  BY DEF PendingRuns, EditTooLarge, CodingInv, CodingTypes, EndIsTested
<1>2. PICK old \in CodingState : old = agent /\ old.pending # <<>>
  BY <1>1 DEF CodingInv, CodingTypes
<1>3. PICK rest \in Pending, one \in PendingCalls : rest = Tail(old.pending) /\ one = old.pending[1]
  BY <1>2, PendingIs DEF CodingState
<1>4. PICK calls \in Nat : calls = old.calls + 1
  BY <1>2 DEF CodingState
<1>5. source' \in Contents
  BY DEF PendingRuns, EditTooLarge, Writes, Contents, CodingInv, CodingTypes
<1>6. PICK last \in {"failed"} \cup PendingCalls :
        agent' = [old EXCEPT !.pending = rest, !.calls = calls, !.last = last]
  BY <1>2, <1>3, <1>4 DEF PendingRuns, EditTooLarge
<1>7. agent' \in CodingState
  BY <1>6 DEF CodingState
<1> QED  BY <1>1, <1>5, <1>7, AfterToolIs, AuthoringKeeps, SameReserve, AgentIsAtAction DEF OfAgent

LEMMA RepairKeeps == ASSUME CodingInv, RepairIsAsked PROVE CodingInv'
<1>1. /\ phase = "conclude" /\ phase' = "author"
      /\ UNCHANGED <<given, source, left, exp, passed, codeRow>> /\ exp \in Loop /\ source \in Contents
      /\ codeRow \in CodeRow /\ codeRow.status = "running"
  BY DEF RepairIsAsked, CodingInv, CodingTypes, EndIsTested
<1>2. PICK old \in CodingState : old = agent
  BY DEF CodingInv, CodingTypes
<1>3. PICK more \in Nat : more = old.repairs + 1
  BY DEF CodingState
<1>4. agent' = [old EXCEPT !.last = "other", !.repairs = more, !.objective = FALSE, !.handoff = "none"]
  BY <1>2, <1>3 DEF RepairIsAsked, Validated, CodingState
<1>5. agent' \in CodingState
  BY <1>4 DEF CodingState, PendingCalls
<1> QED  BY <1>1, <1>5, AuthoringKeeps, SameReserve, AgentIsAtAction DEF OfAgent

LEMMA WriterKeeps == ASSUME CodingInv, SomebodyWrites PROVE CodingInv'
<1>1. /\ phase # "done" /\ source' \in Contents
      /\ UNCHANGED <<given, phase, left, exp, passed, codeRow>>
  BY DEF SomebodyWrites, Contents
<1>2. PICK old \in CodingState : old = agent
  BY DEF CodingInv, CodingTypes
<1>3. PICK now \in BOOLEAN : now = (old.late \/ phase = "finalize")
  OBVIOUS
<1>4. agent' = [old EXCEPT !.late = now]
  BY <1>2, <1>3 DEF SomebodyWrites
<1>5. /\ agent' \in CodingState /\ agent'.pending = agent.pending /\ agent'.snap = agent.snap
      /\ agent'.ok = agent.ok /\ (agent.late => agent'.late) /\ (phase = "finalize" => agent'.late)
  BY <1>2, <1>3, <1>4 DEF CodingState
<1>6. CodingTypes'
  BY <1>1, <1>5 DEF CodingInv, CodingTypes
<1>7. ChecksAreOfTheSnapshot'
  BY <1>1, <1>5 DEF CodingInv, ChecksAreOfTheSnapshot, Tested
<1>8. ExperimentFollows'
  BY <1>1, <1>5 DEF CodingInv, ExperimentFollows, RanThrough
<1>9. EndIsTested'
  BY <1>1 DEF CodingInv, EndIsTested, TrainedWasTested
<1> QED  BY <1>1, <1>6, <1>7, <1>8, <1>9, SameReserve DEF CodingInv

LEMMA StaticKeeps == ASSUME CodingInv, Static PROVE CodingInv'
<1>1. PICK fine \in BOOLEAN :
        /\ agent' = [agent EXCEPT !.snap = source, !.ok = fine]
        /\ Recorded(source, "static_check", fine)
        /\ phase' = IF fine THEN "pytest" ELSE "conclude"
  BY DEF Static
<1>2. phase = "static" /\ UNCHANGED <<given, source, left, exp, codeRow>>
  BY DEF Static
<1>3. PICK old \in CodingState : old = agent /\ source \in Contents
  BY DEF CodingInv, CodingTypes
<1>4. agent' \in CodingState /\ agent'.snap = source /\ agent'.ok = fine
  BY <1>1, <1>3 DEF CodingState
<1>5. CodingTypes'
  BY <1>1, <1>2, <1>4 DEF CodingInv, CodingTypes, Phases, OfAgent
<1>6. ChecksAreOfTheSnapshot'
  BY <1>1, <1>4 DEF ChecksAreOfTheSnapshot, Tested, Recorded, Actions
<1> QED  BY <1>1, <1>2, <1>5, <1>6, SameReserve, AgentIsAtAction
         DEF CodingInv, ExperimentFollows, EndIsTested, TrainedWasTested, OfAgent

LEMMA PytestKeeps == ASSUME CodingInv, Pytest PROVE CodingInv'
<1>1. PICK fine \in BOOLEAN :
        /\ agent' = [agent EXCEPT !.ok = fine]
        /\ Recorded(agent.snap, "run_pytest", fine)
  BY DEF Pytest
<1>2. phase = "pytest" /\ phase' = "conclude" /\ UNCHANGED <<given, source, left, exp, codeRow>>
  BY DEF Pytest
<1>3. PICK old \in CodingState : old = agent
  BY DEF CodingInv, CodingTypes
<1>4. agent' \in CodingState /\ agent'.snap = agent.snap /\ agent'.ok = fine
  BY <1>1, <1>3 DEF CodingState
<1>5. CodingTypes'
  BY <1>1, <1>2, <1>4 DEF CodingInv, CodingTypes, Phases, OfAgent
<1>6. <<agent.snap, "static_check">> \in passed
  BY <1>2 DEF CodingInv, ChecksAreOfTheSnapshot, Tested, Actions
<1>7. ChecksAreOfTheSnapshot'
  <2>1. SUFFICES ASSUME fine PROVE Tested(agent.snap, 2)'
    BY <1>2, <1>4 DEF ChecksAreOfTheSnapshot, Tested
  <2>2. passed' = passed \cup {<<agent.snap, "run_pytest">>}
    BY <1>1, <2>1 DEF Recorded
  <2>3. /\ <<agent.snap, Actions[1]>> \in passed' /\ <<agent.snap, Actions[2]>> \in passed'
    BY <1>6, <2>2 DEF Actions
  <2>4. \A i \in 1 .. 3 : i <= 2 => i = 1 \/ i = 2
    OBVIOUS
  <2> QED  BY <1>4, <2>3, <2>4 DEF Tested
<1> QED  BY <1>1, <1>2, <1>5, <1>7, SameReserve, AgentIsAtAction
         DEF CodingInv, ExperimentFollows, EndIsTested, TrainedWasTested, OfAgent

LEMMA PassesKeep == ASSUME CodingInv, ValidationPasses PROVE CodingInv'
<1>1. /\ phase = "conclude" /\ source = agent.snap /\ agent.ok /\ phase' = "finalize"
      /\ UNCHANGED <<given, source, left, exp, passed, codeRow>> /\ Tested(source, 2)
      /\ codeRow.status = "running"
  BY DEF ValidationPasses, CodingInv, EndIsTested, ChecksAreOfTheSnapshot
<1>2. agent' \in CodingState
  <2>1. PICK old \in CodingState : old = agent
    BY DEF CodingInv, CodingTypes
  <2>2. PICK why \in {"none", "edit_limit", "model_call_reserve", "model_ready"} :
          why = IF old.handoff # "none" THEN old.handoff ELSE Trigger
    BY DEF Trigger, CodingState
  <2>3. agent' = [old EXCEPT !.last = "other", !.handoff = why]
    BY <2>1, <2>2 DEF ValidationPasses, Validated, CodingState
  <2> QED  BY <2>3 DEF CodingState, PendingCalls
<1>3. CodingTypes'
  BY <1>1, <1>2 DEF CodingInv, CodingTypes, Phases, OfAgent
<1>4. ChecksAreOfTheSnapshot'
  BY <1>1 DEF ChecksAreOfTheSnapshot, Tested
<1>5. ExperimentFollows'
  BY <1>1, AgentIsAtAction DEF ExperimentFollows, OfAgent
<1>6. EndIsTested'
  BY <1>1 DEF CodingInv, EndIsTested, TrainedWasTested
<1> QED  BY <1>1, <1>3, <1>4, <1>5, <1>6, SameReserve DEF CodingInv

\* Who takes over has what was tested, or what was written since.
LEMMA HandedOverKeeps == ASSUME CodingInv, CodeIsHandedOver PROVE CodingInv'
<1>1. /\ phase = "finalize" /\ given.mode # "experiment"
      /\ UNCHANGED <<given, source, left, agent, exp, passed>>
      /\ source \in Contents /\ exp \in Loop /\ agent \in CodingState /\ codeRow \in CodeRow
      /\ ~agent.late => Tested(source, 2)
  BY DEF CodeIsHandedOver, CodingInv, CodingTypes, ChecksAreOfTheSnapshot
<1>2. CASE CodingFails
  BY <1>1, <1>2, CodingFailureKeeps, SameReserve
<1>3. CASE Closes("succeeded")
  <2>1. phase' = "done" /\ codeRow' = [codeRow EXCEPT !.status = "succeeded"]
    BY <1>3 DEF Closes
  <2>2. codeRow' \in CodeRow
    BY <1>1, <2>1 DEF CodeRow
  <2>3. agent.late \/ \A i \in 1 .. 2 : <<source, Actions[i]>> \in passed
    BY <1>1 DEF Tested
  <2>4. TrainedWasTested'
    BY <1>1, <2>3 DEF TrainedWasTested
  <2> QED  BY <1>1, <2>1, <2>2, <2>4, SameReserve
           DEF CodingInv, CodingTypes, ChecksAreOfTheSnapshot, ExperimentFollows, EndIsTested, Phases, OfAgent
<1> QED  BY <1>2, <1>3 DEF CodeIsHandedOver

LEMMA ResumesKeeps == ASSUME CodingInv, ExperimentResumes PROVE CodingInv'
<1>1. /\ phase = "finalize" /\ given.mode = "experiment" /\ phase' = "experiment"
      /\ UNCHANGED <<given, source, left, agent, passed, codeRow>>
      /\ source \in Contents /\ exp \in Loop /\ agent \in CodingState /\ codeRow \in CodeRow
      /\ codeRow.status = "running" /\ (~agent.late => Tested(source, 2))
  BY DEF ExperimentResumes, CodingInv, CodingTypes, EndIsTested, ChecksAreOfTheSnapshot
<1>2. exp.repaired = exp.action
  BY <1>1 DEF CodingInv, ExperimentFollows, OfAgent
<1>3. PICK more \in Nat : more = exp.repairs + agent.repairs
  BY <1>1 DEF CodingState, Loop
<1>4. exp' = [exp EXCEPT !.source = source, !.sha = source, !.repairs = more]
  BY <1>3 DEF ExperimentResumes, AfterRepair
<1>5. /\ exp' \in Loop /\ exp'.source = source /\ exp'.sha = source /\ exp'.action = exp.action
      /\ exp'.repaired = exp.repaired /\ exp.action \in 1 .. 3
  BY <1>1, <1>4 DEF Loop
<1>6. \A i \in 1 .. 3 : i <= exp.action - 1 =>
        <<source, Actions[i]>> \in passed \/ (agent.late /\ i < exp.repaired)
  <2>1. SUFFICES ASSUME NEW i \in 1 .. 3, i <= exp.action - 1
                 PROVE  <<source, Actions[i]>> \in passed \/ (agent.late /\ i < exp.repaired)
    OBVIOUS
  <2>2. i <= 2 /\ i < exp.repaired
    BY <1>2, <1>5, <2>1
  <2> QED  BY <1>1, <2>2 DEF Tested
<1>7. ExperimentFollows'
  <2>1. RanThrough(exp.action - 1)'
    BY <1>1, <1>5, <1>6 DEF RanThrough
  <2> QED  BY <1>1, <1>5, <2>1 DEF ExperimentFollows, OfAgent, RanThrough
<1> QED  BY <1>1, <1>5, <1>7, SameReserve
         DEF CodingInv, CodingTypes, ChecksAreOfTheSnapshot, EndIsTested, TrainedWasTested, Phases

LEMMA ActionKeeps == ASSUME CodingInv, ActionSucceeds PROVE CodingInv'
<1>1. /\ phase = "experiment" /\ passed' = passed \cup {<<exp.source, Actions[exp.action]>>}
      /\ UNCHANGED <<given, source, left, agent>>
      /\ exp' = [exp EXCEPT !.action = IF exp.action = 3 THEN 3 ELSE exp.action + 1]
  BY DEF ActionSucceeds
<1>2. /\ given.mode = "experiment" /\ exp.sha = exp.source /\ RanThrough(exp.action - 1)
      /\ exp \in Loop /\ exp.action \in 1 .. 3 /\ exp.source \in Contents
      /\ codeRow \in CodeRow /\ codeRow.status = "running"
  BY <1>1 DEF CodingInv, CodingTypes, ExperimentFollows, EndIsTested, Loop
<1>3. \A i \in 1 .. 3 : i <= exp.action =>
        <<exp.source, Actions[i]>> \in passed' \/ (agent.late /\ i < exp.repaired)
  BY <1>1, <1>2 DEF RanThrough
<1>4. PICK next \in 1 .. 3 : next = IF exp.action = 3 THEN 3 ELSE exp.action + 1
  BY <1>2
<1>5. /\ exp' = [exp EXCEPT !.action = next] /\ exp' \in Loop /\ exp'.action = next
      /\ exp'.source = exp.source /\ exp'.sha = exp.sha /\ exp'.repaired = exp.repaired
  <2>1. exp' = [exp EXCEPT !.action = next]
    BY <1>1, <1>4
  <2> QED  BY <1>2, <2>1 DEF Loop
<1>6. CASE exp.action = 3
  <2>1. phase' = "artifacts" /\ codeRow' = [[codeRow EXCEPT !.sha = exp.sha] EXCEPT !.trained = exp.source]
    BY <1>6 DEF ActionSucceeds, Starts, Actions
  <2>2. /\ codeRow' \in CodeRow /\ codeRow'.status = "running"
        /\ codeRow'.sha = exp.sha /\ codeRow'.trained = exp.source
    BY <1>2, <2>1 DEF CodeRow, Loop
  <2>3. ExperimentFollows'
    BY <1>2, <1>3, <1>5, <1>6, <2>1, <2>2, <1>1 DEF ExperimentFollows, RanThrough, OfAgent
  <2> QED  BY <1>1, <1>5, <2>1, <2>2, <2>3, SameReserve
           DEF CodingInv, CodingTypes, ChecksAreOfTheSnapshot, EndIsTested, TrainedWasTested, Phases
<1>7. CASE exp.action # 3
  <2>1. UNCHANGED <<codeRow, phase>> /\ next - 1 = exp.action
    BY <1>2, <1>4, <1>7 DEF ActionSucceeds
  <2>2. ExperimentFollows'
    BY <1>1, <1>2, <1>3, <1>5, <2>1 DEF ExperimentFollows, RanThrough, OfAgent
  <2> QED  BY <1>1, <1>2, <1>5, <2>1, <2>2, SameReserve
           DEF CodingInv, CodingTypes, ChecksAreOfTheSnapshot, EndIsTested, TrainedWasTested, Phases
<1> QED  BY <1>6, <1>7

\* A repair begins with a new conversation, and the loop keeps its action.
LEMMA ActionFailureKeeps == ASSUME CodingInv, ActionFails PROVE CodingInv'
<1>1. /\ phase = "experiment" /\ UNCHANGED <<given, source, left, passed>> /\ source \in Contents
      /\ exp \in Loop /\ agent \in CodingState /\ codeRow \in CodeRow /\ codeRow.status = "running"
  BY DEF ActionFails, CodingInv, CodingTypes, EndIsTested
<1>2. Starts \in CodeRow /\ Starts.status = "running"
  <2>1. exp.sha \in Contents
    BY <1>1 DEF Loop
  <2> QED  BY <1>1, <2>1 DEF Starts, CodeRow
<1>3. CASE /\ exp' = [exp EXCEPT !.repairs = exp.repairs + 1, !.repaired = exp.action] /\ agent' = NewAgent
           /\ phase' = "author" /\ codeRow' = Starts
  <2>1. PICK more \in Nat, at \in 1 .. 3 : more = exp.repairs + 1 /\ at = exp.action
    BY <1>1 DEF Loop
  <2>2. exp' = [exp EXCEPT !.repairs = more, !.repaired = at]
    BY <1>3, <2>1
  <2>3. exp' \in Loop /\ exp'.repaired = exp'.action
    BY <1>1, <2>1, <2>2 DEF Loop
  <2> QED  BY <1>1, <1>2, <1>3, <2>3, NewAgentIs, AuthoringKeeps, SameReserve
<1>4. CASE phase' = "done" /\ codeRow' = [Starts EXCEPT !.status = "failed"] /\ UNCHANGED <<exp, agent>>
  <2>1. codeRow' \in CodeRow /\ codeRow'.status = "failed"
    BY <1>2, <1>4 DEF CodeRow
  <2> QED  BY <1>1, <1>4, <2>1, SameReserve DEF CodingInv, CodingTypes, ChecksAreOfTheSnapshot,
           ExperimentFollows, EndIsTested, TrainedWasTested, Phases, OfAgent
<1> QED  BY <1>3, <1>4 DEF ActionFails

LEMMA ArtifactsKeep == ASSUME CodingInv, SavesArtifacts \/ ExperimentSucceeds PROVE CodingInv'
<1>1. /\ phase \in {"artifacts", "saved"} /\ UNCHANGED <<given, source, left, agent, exp, passed>>
      /\ source \in Contents /\ exp \in Loop /\ agent \in CodingState /\ codeRow \in CodeRow
      /\ codeRow.status = "running"
  BY DEF SavesArtifacts, ExperimentSucceeds, CodingInv, CodingTypes, EndIsTested
<1>2. codeRow.sha = exp.source /\ codeRow.trained = exp.source /\ RanThrough(3)
  BY <1>1 DEF CodingInv, ExperimentFollows
<1>3. given.mode = "experiment"
  BY <1>1 DEF CodingInv, ExperimentFollows
<1>4. CASE ExperimentSucceeds
  <2>1. phase' = "done" /\ codeRow' = [codeRow EXCEPT !.status = "succeeded"]
    BY <1>4 DEF ExperimentSucceeds, Closes
  <2>2. codeRow' \in CodeRow /\ codeRow'.sha = exp.source /\ codeRow'.trained = exp.source
    BY <1>1, <1>2, <2>1 DEF CodeRow
  <2>3. \A i \in 1 .. 3 : <<exp.source, Actions[i]>> \in passed \/ (agent.late /\ i < exp.repaired)
    BY <1>2 DEF RanThrough
  <2>4. TrainedWasTested'
    BY <1>1, <1>3, <2>2, <2>3 DEF TrainedWasTested
  <2> QED  BY <1>1, <2>1, <2>2, <2>4, SameReserve DEF CodingInv, CodingTypes, ChecksAreOfTheSnapshot,
           ExperimentFollows, EndIsTested, Phases, OfAgent
<1>5. CASE CodingFails
  BY <1>1, <1>5, CodingFailureKeeps, SameReserve
<1>6. CASE phase' = "saved" /\ UNCHANGED codeRow
  BY <1>1, <1>2, <1>3, <1>6, SameReserve DEF CodingInv, CodingTypes, ChecksAreOfTheSnapshot,
     ExperimentFollows, EndIsTested, TrainedWasTested, RanThrough, Phases, OfAgent
<1> QED  BY <1>4, <1>5, <1>6 DEF SavesArtifacts

LEMMA CodingInductive == ASSUME CodingInv, [CodingNext]_codingVars PROVE CodingInv'
<1>1. CASE UNCHANGED codingVars
  BY <1>1 DEF codingVars, CodingInv, CodingTypes, ReserveIsLeft, ChecksAreOfTheSnapshot, ExperimentFollows,
     EndIsTested, TrainedWasTested, Tested, RanThrough, Snapshot
<1>2. CASE CodingNext
  BY <1>2, CodingEndsKeep, HandsOffKeeps, AuthorKeeps, ToolKeeps, WriterKeeps, StaticKeeps, PytestKeeps,
     RepairKeeps, PassesKeep, HandedOverKeeps, ResumesKeeps, ActionKeeps, ActionFailureKeeps, ArtifactsKeep DEF CodingNext
<1> QED  BY <1>1, <1>2

\* For every source, every number of calls and repairs, and whoever writes meanwhile:
\* what a task or an experiment calls a success was checked and tested as it is, the
\* training with the digest recorded for it, except for what is written between the
\* agent's last look and the reading of the source by whoever asked for it; and then an
\* experiment still ran every action from the repaired one on with what it trained
\* (agent.py:622-693, experiment/service.py:209-266).
THEOREM SuccessWasTested == CodingSpec => []TrainedWasTested
<1>1. CodingInit => CodingInv
  BY CodingInitial
<1>2. CodingInv /\ [CodingNext]_codingVars => CodingInv'
  BY CodingInductive
<1>3. CodingInv => TrainedWasTested
  BY CodingSound
<1> QED  BY <1>1, <1>2, <1>3, PTL DEF CodingSpec

\* Whatever the model answers and however often it is corrected, coding in a workflow
\* leaves the calls of the review and of a replan (agent.py:364-390,
\* orchestration/service.py:703-715).
THEOREM ReserveStays == CodingSpec => []ReserveIsKept
<1>1. CodingInit => CodingInv
  BY CodingInitial
<1>2. CodingInv /\ [CodingNext]_codingVars => CodingInv'
  BY CodingInductive
<1>3. CodingInv => ReserveIsKept
  BY CodingSound
<1> QED  BY <1>1, <1>2, <1>3, PTL DEF CodingSpec

-----------------------------------------------------------------------------
(* A run of the agent: what it counts, and what it may call a success.       *)

AllFound == Candidate \cup {Document}
QueryList == Seq([topic : Topic, source : {"web", "paper"}])
SelectionSet == [items : SUBSET AllFound, rejected : Nat]
ResearchNode == {"query_planner", "research", "documents", "extractor", "reporter"}
ComputeNode == {"executor", "tools", "writer"}

AgentState ==
  [mode : {"research", "compute", "service"}, queries : QueryList, next : Nat,
   candidates : SUBSET AllFound, best : SelectionSet, flagged : BOOLEAN, partial : BOOLEAN,
   calls : Nat, progress : Nat, traces : Nat, iterations : Nat, prompted : BOOLEAN, exceeded : BOOLEAN]
TaskRow ==
  [status : {"running", "failed", "succeeded", "partial", "budget_exceeded"}, calls : Nat,
   evidence : SUBSET AllFound, cited : SUBSET Nat, failures : Nat]
Traffic == [received : Nat, doubt : BOOLEAN, late : BOOLEAN]

AgentTypes ==
  /\ asked.sources \subseteq {"web", "paper"} /\ asked.documents \in BOOLEAN
  /\ \A s \in asked.sources : asked.search[s] \in {"absent", "off", "ready"}
  /\ node \in {"planner", "service", "done"} \cup ResearchNode \cup ComputeNode
  /\ attempt \in 0 .. 1
  /\ mem \in AgentState /\ taskRow \in TaskRow /\ net \in Traffic

\* The node that runs says what is being done.
NodeFitsMode ==
  /\ node \in ResearchNode => mem.mode = "research"
  /\ node \in ComputeNode \cup {"planner"} => mem.mode = "compute"
  /\ node = "service" => mem.mode = "service"

\* While the run goes on the state of the graph counts every completion; the row
\* follows in research, and the counters a node began with are those of its first attempt.
CallsFollow ==
  /\ node # "done" =>
       /\ taskRow.status = "running"
       /\ net.received = mem.progress
       /\ node \in ResearchNode \cup {"planner"} => taskRow.calls = mem.progress
       /\ attempt = 0 => mem.calls = mem.progress
       /\ attempt = 1 => node \in Correcting
  /\ node = "extractor" /\ attempt = 1 => mem.candidates # {}
  /\ CallsAreAccounted

\* What is found comes from a source that can be asked, and a search that failed is
\* remembered, or its source is not there at all.
SearchFollows ==
  /\ \A i \in 1 .. Len(mem.queries) : mem.queries[i].source \in asked.sources
  /\ node = "research" => mem.next \in 1 .. Len(mem.queries)
  /\ node \in {"planner", "query_planner"} => taskRow.failures = 0 /\ mem.next = 1
  /\ \A c \in mem.candidates : c # Document => asked.search[c.source] = "ready"
  /\ mem.best.items \subseteq mem.candidates
  /\ node \in {"research", "documents", "extractor"} /\ taskRow.failures > 0 =>
       mem.flagged \/ \E s \in asked.sources : asked.search[s] = "absent"

\* What a full success of research rests on.
Covers ==
  /\ \A s \in asked.sources : \E c \in taskRow.evidence : c.source = s
  /\ asked.documents => Document \in taskRow.evidence
  /\ \A i \in 1 .. Len(mem.queries) : \E c \in taskRow.evidence : c.topic = mem.queries[i].topic
  /\ \E c, d \in taskRow.evidence : c.url # d.url
  /\ taskRow.failures = 0

AnswerFollows ==
  /\ node = "reporter" /\ ~mem.partial => Covers
  /\ node = "writer" /\ ~mem.exceeded => mem.traces > 0
  /\ SuccessIsEarned

AgentInv == AgentTypes /\ NodeFitsMode /\ CallsFollow /\ SearchFollows /\ AnswerFollows

LEMMA AgentSound == ASSUME AgentInv PROVE CallsAreAccounted /\ SuccessIsEarned
  BY DEF AgentInv, CallsFollow, AnswerFollows

LEMMA AgentInitial == ASSUME AgentInit PROVE AgentInv
<1>1. /\ asked.sources \subseteq {"web", "paper"} /\ asked.documents \in BOOLEAN
      /\ \A s \in asked.sources : asked.search[s] \in {"absent", "off", "ready"}
  <2>1. PICK S \in (SUBSET {"web", "paper"}) \ {{}} :
          asked \in [sources : {S}, search : [S -> {"absent", "off", "ready"}],
                    documents : BOOLEAN, under : {"nothing", "budget", "journal"}]
    BY DEF AgentInit
  <2>2. asked.sources = S /\ asked.search \in [S -> {"absent", "off", "ready"}] /\ asked.documents \in BOOLEAN
    BY <2>1
  <2> QED  BY <2>1, <2>2
<1>2. <<>> \in QueryList /\ Len(<<>>) = 0
  BY DEF QueryList
<1>3. NoSelection \in SelectionSet /\ NoSelection.items = {}
  BY DEF NoSelection, SelectionSet
<1>4. mem \in AgentState /\ mem.mode = "compute" /\ mem.queries = <<>> /\ mem.next = 1 /\ mem.candidates = {}
      /\ mem.best = NoSelection /\ mem.calls = 0 /\ mem.progress = 0
  BY <1>2, <1>3 DEF AgentInit, AgentState
<1>5. taskRow \in TaskRow /\ taskRow.status = "running" /\ taskRow.calls = 0 /\ taskRow.failures = 0
  BY DEF AgentInit, TaskRow
<1>6. net \in Traffic /\ net.received = 0 /\ net.late = FALSE
  BY DEF AgentInit, Traffic
<1>7. node = "planner" /\ attempt = 0
  BY DEF AgentInit
<1>8. AgentTypes
  BY <1>1, <1>4, <1>5, <1>6, <1>7 DEF AgentTypes
<1>9. NodeFitsMode /\ CallsFollow
  BY <1>4, <1>5, <1>6, <1>7 DEF NodeFitsMode, CallsFollow, CallsAreAccounted, ResearchNode, ComputeNode
<1>10. SearchFollows
  BY <1>2, <1>3, <1>4, <1>5, <1>7 DEF SearchFollows
<1>11. AnswerFollows
  BY <1>5, <1>7 DEF AnswerFollows, SuccessIsEarned
<1> QED  BY <1>8, <1>9, <1>10, <1>11 DEF AgentInv

LEMMA SentIs ==
  ASSUME AgentInv, MayStart, NEW got \in 0 .. 1, NEW open \in BOOLEAN, Sent(got, open)
  PROVE  /\ net' \in Traffic /\ net'.received = net.received + got
         /\ asked.under = "journal" => ~net'.late
<1>1. PICK old \in Traffic : old = net
  BY DEF AgentInv, AgentTypes
<1>2. PICK sum \in Nat : sum = old.received + got
  BY DEF Traffic
<1>3. PICK doubt \in BOOLEAN, late \in BOOLEAN :
        doubt = (old.doubt \/ open) /\ late = (old.late \/ old.doubt)
  OBVIOUS
<1>4. net' = [received |-> sum, doubt |-> doubt, late |-> late]
  BY <1>1, <1>2, <1>3 DEF Sent
<1>5. asked.under = "journal" => ~old.late /\ ~old.doubt
  BY <1>1 DEF MayStart, AgentInv, CallsFollow, CallsAreAccounted
<1> QED  BY <1>1, <1>2, <1>3, <1>4, <1>5 DEF Traffic

LEMMA CountedIs ==
  ASSUME AgentInv
  PROVE  /\ Counted \in TaskRow /\ Counted.calls = mem.progress + 1 /\ Counted.status = taskRow.status
         /\ Counted.evidence = taskRow.evidence /\ Counted.cited = taskRow.cited
         /\ Counted.failures = taskRow.failures
<1>1. PICK old \in TaskRow : old = taskRow
  BY DEF AgentInv, AgentTypes
<1>2. PICK more \in Nat : more = mem.progress + 1
  BY DEF AgentInv, AgentTypes, AgentState
<1>3. Counted = [old EXCEPT !.calls = more]
  BY <1>1, <1>2 DEF Counted
<1> QED  BY <1>1, <1>2, <1>3 DEF TaskRow

LEMMA LeaveIs ==
  ASSUME AgentInv, NEW s \in AgentState, NEW there, Leave(there, s)
  PROVE  /\ mem' \in AgentState /\ node' = there /\ attempt' = 0
         /\ mem'.calls = mem.progress + 1 /\ mem'.progress = mem.progress + 1
         /\ mem'.mode = s.mode /\ mem'.queries = s.queries /\ mem'.next = s.next
         /\ mem'.candidates = s.candidates /\ mem'.best = s.best /\ mem'.flagged = s.flagged
         /\ mem'.partial = s.partial /\ mem'.traces = s.traces /\ mem'.exceeded = s.exceeded
<1>1. PICK more \in Nat : more = mem.progress + 1
  BY DEF AgentInv, AgentTypes, AgentState
<1>2. mem' = [s EXCEPT !.calls = more, !.progress = more] /\ node' = there /\ attempt' = 0
  BY <1>1 DEF Leave
<1> QED  BY <1>1, <1>2 DEF AgentState

\* The end of a run leaves the state of the graph.
LEMMA EndKeeps ==
  ASSUME AgentInv, node' = "done", UNCHANGED <<asked, attempt, mem>>, taskRow' \in TaskRow, net' \in Traffic,
         CallsAreAccounted', SuccessIsEarned'
  PROVE  AgentInv'
<1>1. AgentTypes' /\ NodeFitsMode'
  BY DEF AgentInv, AgentTypes, NodeFitsMode, ResearchNode, ComputeNode
<1>2. CallsFollow' /\ SearchFollows' /\ AnswerFollows'
  BY DEF AgentInv, CallsFollow, SearchFollows, AnswerFollows
<1> QED  BY <1>1, <1>2 DEF AgentInv

\* A failure is recorded with the count that was stored last.
LEMMA AgentFailsKeep ==
  ASSUME AgentInv, UNCHANGED <<asked, attempt, mem>>, NEW code, NEW stored \in TaskRow, AgentFails(code, stored),
         net' \in Traffic, asked.under = "journal" => ~net'.late,
         mem.mode = "research" => stored.calls = net'.received
  PROVE  AgentInv'
<1>1. node' = "done" /\ taskRow' = [stored EXCEPT !.status = "failed"]
  BY DEF AgentFails
<1>2. taskRow' \in TaskRow /\ taskRow'.status = "failed" /\ taskRow'.calls = stored.calls
  BY <1>1 DEF TaskRow
<1> QED  BY <1>1, <1>2, EndKeeps DEF CallsAreAccounted, SuccessIsEarned

\* Nothing follows the end; and until then the row of a research run counts everything.
LEMMA NotOver ==
  ASSUME AgentInv, node # "done"
  PROVE  /\ taskRow.status = "running" /\ net.received = mem.progress /\ taskRow \in TaskRow /\ net \in Traffic
         /\ mem.progress \in Nat /\ mem \in AgentState
         /\ mem.mode = "research" => taskRow.calls = net.received /\ node \in ResearchNode
         /\ asked.under = "journal" => ~net.late
  BY DEF AgentInv, AgentTypes, NodeFitsMode, CallsFollow, CallsAreAccounted, AgentState, ResearchNode, ComputeNode

LEMMA CallingKeeps ==
  ASSUME AgentInv, BudgetRefuses \/ JournalRefuses \/ CallIsTooLarge \/ CallIsLost \/ CallEndsBudget
  PROVE  AgentInv'
<1>1. node # "done" /\ UNCHANGED <<asked, attempt, mem>>
  BY DEF BudgetRefuses, JournalRefuses, CallIsTooLarge, CallIsLost, CallEndsBudget, Calling, ModelNode
<1>2. CASE BudgetRefuses
  BY <1>1, <1>2, NotOver, EndKeeps DEF BudgetRefuses, CallsAreAccounted, SuccessIsEarned
<1>3. CASE JournalRefuses
  BY <1>1, <1>3, NotOver, AgentFailsKeep DEF JournalRefuses
<1>4. CASE CallIsTooLarge
  BY <1>1, <1>4, NotOver, AgentFailsKeep DEF CallIsTooLarge
<1>5. CASE CallIsLost
  <2>1. MayStart /\ Sent(0, TRUE) /\ AgentFails("call", taskRow)
    BY <1>5 DEF CallIsLost
  <2>2. net' \in Traffic /\ net'.received = net.received + 0 /\ (asked.under = "journal" => ~net'.late)
    <3>1. 0 \in 0 .. 1 /\ TRUE \in BOOLEAN
      OBVIOUS
    <3> QED  BY <2>1, <3>1, SentIs
  <2>3. net'.received = net.received
    BY <1>1, <2>2, NotOver
  <2> QED  BY <1>1, <2>1, <2>2, <2>3, NotOver, AgentFailsKeep
<1>6. CASE CallEndsBudget
  <2>1. PICK open \in BOOLEAN : Sent(1, open)
    BY <1>6 DEF CallEndsBudget
  <2>2. MayStart /\ node' = "done" /\ UNCHANGED taskRow
    BY <1>6 DEF CallEndsBudget
  <2>3. net' \in Traffic /\ (asked.under = "journal" => ~net'.late)
    BY <2>1, <2>2, SentIs
  <2> QED  BY <1>1, <2>2, <2>3, NotOver, EndKeeps DEF CallsAreAccounted, SuccessIsEarned
<1> QED  BY <1>2, <1>3, <1>4, <1>5, <1>6

LEMMA AnsweredIs ==
  ASSUME AgentInv, node # "done", Answered
  PROVE  /\ net' \in Traffic /\ net'.received = mem.progress + 1
         /\ asked.under = "journal" => ~net'.late
<1>1. 1 \in 0 .. 1 /\ FALSE \in BOOLEAN
  OBVIOUS
<1> QED  BY <1>1, SentIs, NotOver DEF Answered

\* The node asks once more: what came is counted, in the row too.
LEMMA AsksAgainKeeps ==
  ASSUME AgentInv, node \in Correcting, node = "extractor" => mem.candidates # {}, Answered,
         attempt' = 1, taskRow' = Counted, UNCHANGED <<asked, node>>,
         NEW best \in SelectionSet, best.items \subseteq mem.candidates,
         mem' \in {[mem EXCEPT !.progress = mem.progress + 1],
                   [mem EXCEPT !.best = best, !.progress = mem.progress + 1]}
  PROVE  AgentInv'
<1>1. node # "done" /\ node \in ResearchNode \cup {"planner"}
  BY DEF Correcting, ResearchNode
<1>2. /\ net' \in Traffic /\ net'.received = mem.progress + 1
      /\ asked.under = "journal" => ~net'.late
  BY <1>1, AnsweredIs
<1>3. PICK old \in AgentState : old = mem
  BY DEF AgentInv, AgentTypes
<1>4. PICK more \in Nat : more = mem.progress + 1
  BY <1>3 DEF AgentState
<1>5. /\ mem' \in AgentState /\ mem'.progress = more /\ mem'.best.items \subseteq mem.candidates
      /\ mem'.mode = mem.mode /\ mem'.queries = mem.queries /\ mem'.next = mem.next
      /\ mem'.candidates = mem.candidates /\ mem'.flagged = mem.flagged
      /\ mem'.partial = mem.partial /\ mem'.traces = mem.traces /\ mem'.exceeded = mem.exceeded
      /\ mem'.calls = mem.calls
  <2>1. mem.best.items \subseteq mem.candidates
    BY DEF AgentInv, SearchFollows
  <2>2. mem' = [old EXCEPT !.progress = more] \/ mem' = [old EXCEPT !.best = best, !.progress = more]
    BY <1>3, <1>4
  <2> QED  BY <1>3, <2>1, <2>2 DEF AgentState
<1>6. AgentTypes' /\ NodeFitsMode'
  BY <1>2, <1>5, CountedIs DEF AgentInv, AgentTypes, NodeFitsMode
<1>7. taskRow'.status = "running"
  BY <1>1, CountedIs, NotOver
<1>8. CallsFollow'
  BY <1>1, <1>2, <1>4, <1>5, <1>7, CountedIs DEF CallsFollow, CallsAreAccounted
<1>9. SearchFollows'
  BY <1>5, CountedIs DEF AgentInv, SearchFollows
<1>10. AnswerFollows'
  BY <1>1, <1>5, <1>7, CountedIs DEF AgentInv, AnswerFollows, SuccessIsEarned, Covers, ResearchNode
<1> QED  BY <1>6, <1>8, <1>9, <1>10 DEF AgentInv

\* A failure after an answer that was counted.
LEMMA CountedFailureKeeps ==
  ASSUME AgentInv, node # "done", Answered, UNCHANGED <<asked, attempt, mem>>, NEW code, AgentFails(code, Counted)
  PROVE  AgentInv'
  BY AnsweredIs, CountedIs, NotOver, AgentFailsKeep

\* One that is not counted, where the model computes.
LEMMA PlainFailureKeeps ==
  ASSUME AgentInv, node # "done", mem.mode # "research", net' \in Traffic, asked.under = "journal" => ~net'.late,
         UNCHANGED <<asked, attempt, mem>>, NEW code, AgentFails(code, taskRow)
  PROVE  AgentInv'
  BY NotOver, AgentFailsKeep

LEMMA RejectedKeeps == ASSUME AgentInv, CallIsRejected PROVE AgentInv'
<1>1. /\ Calling /\ Answered /\ UNCHANGED asked /\ node # "done"
      /\ node = "extractor" => mem.candidates # {}
  BY DEF CallIsRejected, Calling, ModelNode, Answered
<1>2. CASE /\ node \in Correcting /\ attempt' = 1 /\ mem' = [mem EXCEPT !.progress = mem.progress + 1]
           /\ taskRow' = Counted /\ UNCHANGED node
  <2>1. mem.best \in SelectionSet /\ mem.best.items \subseteq mem.candidates
    BY DEF AgentInv, AgentTypes, AgentState, SearchFollows
  <2> QED  BY <1>1, <1>2, <2>1, AsksAgainKeeps
<1>3. CASE node \in Correcting /\ AgentFails("call", Counted) /\ UNCHANGED <<attempt, mem>>
  BY <1>1, <1>3, CountedFailureKeeps
<1>4. CASE node \notin Correcting /\ AgentFails("call", taskRow) /\ UNCHANGED <<attempt, mem>>
  <2>1. node \in ComputeNode
    BY <1>1, <1>4 DEF Calling, ModelNode, Correcting, ComputeNode
  <2>2. mem.mode # "research"
    BY <2>1 DEF AgentInv, NodeFitsMode
  <2> QED  BY <1>1, <1>4, <2>2, AnsweredIs, PlainFailureKeeps
<1> QED  BY <1>1, <1>2, <1>3, <1>4 DEF CallIsRejected, Counted

LEMMA PlannerKeeps == ASSUME AgentInv, PlannerReplies PROVE AgentInv'
<1>1. /\ node = "planner" /\ node # "done" /\ Answered /\ UNCHANGED asked
      /\ mem.next = 1 /\ taskRow.failures = 0
  BY DEF PlannerReplies, AgentInv, SearchFollows
<1>2. CASE AgentFails("protocol", Counted) /\ UNCHANGED <<attempt, mem>>
  BY <1>1, <1>2, CountedFailureKeeps
<1>3. ASSUME NEW mode \in {"research", "compute", "service"}, taskRow' = Counted,
             Leave(CASE mode = "research" -> "query_planner"
                     [] mode = "compute" -> "executor"
                     [] mode = "service" -> "service",
                   [mem EXCEPT !.mode = mode])
      PROVE  AgentInv'
  <2>1. PICK old \in AgentState : old = mem
    BY DEF AgentInv, AgentTypes
  <2>2. PICK s \in AgentState : s = [old EXCEPT !.mode = mode]
    BY DEF AgentState
  <2>3. /\ s.mode = mode /\ s.queries = mem.queries /\ s.next = mem.next /\ s.candidates = mem.candidates
        /\ s.best = mem.best /\ s.flagged = mem.flagged
    BY <2>1, <2>2 DEF AgentState
  <2>4. PICK there : /\ there = CASE mode = "research" -> "query_planner"
                                  [] mode = "compute" -> "executor"
                                  [] mode = "service" -> "service"
                     /\ Leave(there, s)
    BY <1>3, <2>1, <2>2
  <2>5. \/ mode = "research" /\ there = "query_planner"
        \/ mode = "compute" /\ there = "executor"
        \/ mode = "service" /\ there = "service"
    <3>1. CASE mode = "research"
      BY <2>4, <3>1
    <3>2. CASE mode = "compute"
      BY <2>4, <3>2
    <3>3. CASE mode = "service"
      BY <2>4, <3>3
    <3> QED  BY <3>1, <3>2, <3>3
  <2>6. /\ mem' \in AgentState /\ node' = there /\ attempt' = 0
        /\ mem'.calls = mem.progress + 1 /\ mem'.progress = mem.progress + 1
        /\ mem'.mode = mode /\ mem'.queries = mem.queries /\ mem'.next = mem.next
        /\ mem'.candidates = mem.candidates /\ mem'.best = mem.best
    BY <2>3, <2>4, LeaveIs
  <2>7. taskRow'.status = "running" /\ taskRow'.calls = mem.progress + 1 /\ taskRow'.failures = 0
    BY <1>1, <1>3, CountedIs, NotOver
  <2>8. AgentTypes' /\ NodeFitsMode'
    BY <1>1, <1>3, <2>5, <2>6, CountedIs, AnsweredIs
    DEF AgentInv, AgentTypes, NodeFitsMode, ResearchNode, ComputeNode
  <2>9. CallsFollow'
    BY <1>1, <2>5, <2>6, <2>7, AnsweredIs DEF CallsFollow, CallsAreAccounted
  <2>10. SearchFollows'
    BY <1>1, <2>5, <2>6, <2>7 DEF AgentInv, SearchFollows
  <2>11. AnswerFollows'
    BY <2>5, <2>6, <2>7 DEF AnswerFollows, SuccessIsEarned
  <2> QED  BY <2>8, <2>9, <2>10, <2>11 DEF AgentInv
<1> QED  BY <1>2, <1>3 DEF PlannerReplies

LEMMA QueryPlannerKeeps == ASSUME AgentInv, QueryPlannerReplies PROVE AgentInv'
<1>1. /\ node = "query_planner" /\ node # "done" /\ Answered /\ UNCHANGED asked
      /\ mem.next = 1 /\ taskRow.failures = 0 /\ mem.mode = "research"
  BY DEF QueryPlannerReplies, AgentInv, SearchFollows, NodeFitsMode, ResearchNode
<1>2. CASE AgentFails("protocol", Counted) /\ UNCHANGED <<attempt, mem>>
  BY <1>1, <1>2, CountedFailureKeeps
<1>3. ASSUME NEW n \in MinQueries .. MaxQueries, NEW queries \in ValidQueries(n), taskRow' = Counted,
             Leave("research", [mem EXCEPT !.queries = queries])
      PROVE  AgentInv'
  <2>1. n \in Nat /\ n >= 1
    BY AgentAssumption
  <2>2. /\ queries \in [1 .. n -> [topic : Topic, source : asked.sources]]
        /\ asked.sources \subseteq {"web", "paper"}
    BY DEF ValidQueries, AgentInv, AgentTypes
  <2>3. queries \in QueryList /\ Len(queries) = n /\ \A i \in 1 .. n : queries[i].source \in asked.sources
    <3>1. \A i \in 1 .. n : queries[i] \in [topic : Topic, source : {"web", "paper"}] /\ queries[i].source \in asked.sources
      BY <2>2
    <3>2. queries \in [1 .. n -> [topic : Topic, source : {"web", "paper"}]]
      BY <2>2, <3>1
    <3>3. PICK Asking : Asking = [topic : Topic, source : {"web", "paper"}]
      OBVIOUS
    <3>a. n \in Nat /\ queries \in [1 .. n -> Asking]
      BY <2>1, <3>2, <3>3
    <3>4. queries \in Seq(Asking) /\ Len(queries) = n
      BY <3>a
    <3>5. queries \in QueryList
      BY <3>3, <3>4 DEF QueryList
    <3> QED  BY <3>1, <3>4, <3>5
  <2>4. PICK old \in AgentState : old = mem
    BY DEF AgentInv, AgentTypes
  <2>5. PICK s \in AgentState : s = [old EXCEPT !.queries = queries]
    BY <2>3 DEF AgentState
  <2>6. /\ s.queries = queries /\ s.mode = mem.mode /\ s.next = mem.next /\ s.candidates = mem.candidates
        /\ s.best = mem.best /\ s.flagged = mem.flagged
    BY <2>4, <2>5 DEF AgentState
  <2>7. Leave("research", s)
    BY <1>3, <2>4, <2>5
  <2>8. /\ mem' \in AgentState /\ node' = "research" /\ attempt' = 0
        /\ mem'.calls = mem.progress + 1 /\ mem'.progress = mem.progress + 1
        /\ mem'.mode = "research" /\ mem'.queries = queries /\ mem'.next = 1
        /\ mem'.candidates = mem.candidates /\ mem'.best = mem.best
    BY <1>1, <2>6, <2>7, LeaveIs
  <2>9. taskRow'.status = "running" /\ taskRow'.calls = mem.progress + 1 /\ taskRow'.failures = 0
    BY <1>1, <1>3, CountedIs, NotOver
  <2>10. AgentTypes' /\ NodeFitsMode'
    BY <1>1, <1>3, <2>8, CountedIs, AnsweredIs
    DEF AgentInv, AgentTypes, NodeFitsMode, ResearchNode, ComputeNode
  <2>11. CallsFollow'
    BY <1>1, <2>8, <2>9, AnsweredIs DEF CallsFollow, CallsAreAccounted
  <2>12. SearchFollows'
    BY <1>1, <2>1, <2>3, <2>8, <2>9 DEF AgentInv, SearchFollows
  <2>13. AnswerFollows'
    BY <2>8, <2>9 DEF AnswerFollows, SuccessIsEarned
  <2> QED  BY <2>10, <2>11, <2>12, <2>13 DEF AgentInv
<1> QED  BY <1>2, <1>3 DEF QueryPlannerReplies

\* A search, or the look into the documents, is over; the run goes on.
LEMMA SearchingGoesOn ==
  ASSUME AgentInv, node \in {"research", "documents"}, node' \in {"research", "documents", "extractor"},
         UNCHANGED <<asked, attempt>>,
         mem' \in AgentState, mem'.mode = mem.mode, mem'.queries = mem.queries, mem'.best = mem.best,
         mem'.calls = mem.calls, mem'.progress = mem.progress,
         node' = "research" => mem'.next \in 1 .. Len(mem.queries),
         mem.candidates \subseteq mem'.candidates,
         \A c \in mem'.candidates : c # Document => asked.search[c.source] = "ready",
         net' \in Traffic, net'.received = net.received, asked.under = "journal" => ~net'.late,
         taskRow' \in TaskRow, taskRow'.status = taskRow.status, taskRow'.calls = taskRow.calls,
         taskRow'.failures > 0 => mem'.flagged \/ \E s \in asked.sources : asked.search[s] = "absent"
  PROVE  AgentInv'
<1>1. /\ mem.mode = "research" /\ attempt = 0 /\ node # "done" /\ node \in ResearchNode /\ node' \in ResearchNode
      /\ taskRow.status = "running" /\ net.received = mem.progress /\ mem.calls = mem.progress
      /\ taskRow.calls = mem.progress
  BY DEF AgentInv, AgentTypes, NodeFitsMode, CallsFollow, ResearchNode, Correcting
<1>2. AgentTypes' /\ NodeFitsMode'
  BY <1>1 DEF AgentInv, AgentTypes, NodeFitsMode, ResearchNode, ComputeNode
<1>3. CallsFollow'
  BY <1>1 DEF CallsFollow, CallsAreAccounted
<1>4. SearchFollows'
  BY DEF AgentInv, SearchFollows
<1>5. AnswerFollows'
  BY <1>1 DEF AnswerFollows, SuccessIsEarned
<1> QED  BY <1>2, <1>3, <1>4, <1>5 DEF AgentInv

LEMMA AfterSearchIs ==
  ASSUME AgentInv, node = "research", NEW s \in AgentState, s.next = mem.next, AfterSearch(s)
  PROVE  /\ mem' \in AgentState /\ node' \in {"research", "documents", "extractor"}
         /\ mem'.mode = s.mode /\ mem'.queries = s.queries /\ mem'.best = s.best /\ mem'.calls = s.calls
         /\ mem'.progress = s.progress /\ mem'.candidates = s.candidates /\ mem'.flagged = s.flagged
         /\ node' = "research" => mem'.next \in 1 .. Len(mem.queries)
<1>1. mem.next \in 1 .. Len(mem.queries)
  BY DEF AgentInv, SearchFollows
<1>2. PICK more \in Nat : more = s.next + 1
  BY DEF AgentState
<1>3. PICK searched : searched = [s EXCEPT !.next = more]
  OBVIOUS
<1>4. searched \in AgentState /\ searched.next = more /\ mem' = searched
  BY <1>2, <1>3 DEF AfterSearch, AgentState
<1>5. node' = IF searched.next <= Len(mem.queries) THEN "research"
              ELSE IF asked.documents THEN "documents" ELSE "extractor"
  BY <1>2, <1>3 DEF AfterSearch
<1>6. node' = "research" => more <= Len(mem.queries)
  BY <1>4, <1>5
<1>7. node' = "research" => mem'.next \in 1 .. Len(mem.queries)
  BY <1>1, <1>2, <1>4, <1>6
<1> QED  BY <1>3, <1>4, <1>5, <1>7 DEF AgentState

LEMMA QueryIs ==
  ASSUME AgentInv, node = "research"
  PROVE  Query.source \in asked.sources /\ Query.source \in {"web", "paper"} /\ Query.topic \in Topic
<1>1. mem.queries \in QueryList /\ mem.next \in 1 .. Len(mem.queries)
  BY DEF AgentInv, AgentTypes, AgentState, SearchFollows
<1>2. Query \in [topic : Topic, source : {"web", "paper"}]
  <2>1. PICK Asking : Asking = [topic : Topic, source : {"web", "paper"}]
    OBVIOUS
  <2>2. mem.queries \in Seq(Asking)
    BY <1>1, <2>1 DEF QueryList
  <2>3. mem.queries[mem.next] \in Asking
    BY <1>1, <2>2
  <2> QED  BY <2>1, <2>3 DEF Query
<1>3. Query.source \in asked.sources
  BY <1>1 DEF AgentInv, SearchFollows, Query
<1> QED  BY <1>2, <1>3

LEMMA FailedIs ==
  ASSUME AgentInv
  PROVE  LET row == [taskRow EXCEPT !.failures = taskRow.failures + 1] IN
         row \in TaskRow /\ row.status = taskRow.status /\ row.calls = taskRow.calls
         /\ row.failures = taskRow.failures + 1
<1>1. PICK old \in TaskRow : old = taskRow
  BY DEF AgentInv, AgentTypes
<1>2. PICK more \in Nat : more = old.failures + 1
  BY DEF TaskRow
<1>3. PICK row : row = [old EXCEPT !.failures = more]
  OBVIOUS
<1>4. row \in TaskRow /\ row.status = old.status /\ row.calls = old.calls /\ row.failures = more
  BY <1>3 DEF TaskRow
<1> QED  BY <1>1, <1>2, <1>3, <1>4

LEMMA FindsKeep == ASSUME AgentInv, SearchFinds PROVE AgentInv'
<1>1. /\ node = "research" /\ node # "done" /\ asked.search[Query.source] = "ready"
      /\ UNCHANGED <<asked, attempt, taskRow>>
  BY DEF SearchFinds
<1>2. net' \in Traffic /\ net'.received = net.received /\ (asked.under = "journal" => ~net'.late)
  <2>1. CASE UNCHANGED net
    BY <1>1, <2>1, NotOver
  <2>2. CASE MayStart /\ Sent(0, FALSE)
    <3>1. 0 \in 0 .. 1 /\ FALSE \in BOOLEAN /\ net.received \in Nat
      BY <1>1, NotOver DEF Traffic
    <3>2. /\ net' \in Traffic /\ net'.received = net.received + 0
          /\ asked.under = "journal" => ~net'.late
      BY <2>2, <3>1, SentIs
    <3> QED  BY <3>1, <3>2
  <2> QED  BY <2>1, <2>2 DEF SearchFinds, Answers
<1>3. PICK found \in SUBSET Url :
        AfterSearch([mem EXCEPT !.candidates = mem.candidates \cup
            {[topic |-> Query.topic, source |-> Query.source, url |-> u] : u \in found}])
  BY DEF SearchFinds
<1>4. PICK more : more = mem.candidates \cup
                         {[topic |-> Query.topic, source |-> Query.source, url |-> u] : u \in found}
  OBVIOUS
<1>5. PICK old \in AgentState : old = mem
  BY <1>1, NotOver
<1>6. more \in SUBSET AllFound
  <2>1. \A u \in found : [topic |-> Query.topic, source |-> Query.source, url |-> u] \in Candidate
    BY <1>1, QueryIs DEF Candidate
  <2> QED  BY <1>4, <1>5, <2>1 DEF AllFound, AgentState
<1>7. PICK s : s = [old EXCEPT !.candidates = more]
  OBVIOUS
<1>8. /\ s \in AgentState /\ s.candidates = more /\ s.next = mem.next /\ s.mode = mem.mode
      /\ s.queries = mem.queries /\ s.best = mem.best /\ s.calls = mem.calls /\ s.progress = mem.progress
      /\ s.flagged = mem.flagged
  BY <1>5, <1>6, <1>7 DEF AgentState
<1>9. AfterSearch(s)
  BY <1>3, <1>4, <1>5, <1>7
<1>10. \A c \in more : c # Document => asked.search[c.source] = "ready"
  BY <1>1, <1>4 DEF AgentInv, SearchFollows
<1>11. taskRow.failures > 0 => mem.flagged \/ \E w \in asked.sources : asked.search[w] = "absent"
  BY <1>1 DEF AgentInv, SearchFollows
<1> QED  BY <1>1, <1>2, <1>4, <1>8, <1>9, <1>10, <1>11, AfterSearchIs, NotOver, SearchingGoesOn

LEMMA SkipsKeep == ASSUME AgentInv, SearchIsSkipped PROVE AgentInv'
<1>1. /\ node = "research" /\ node # "done" /\ asked.search[Query.source] # "ready"
      /\ UNCHANGED <<asked, attempt, net>> /\ taskRow' = [taskRow EXCEPT !.failures = taskRow.failures + 1]
  BY DEF SearchIsSkipped
<1>2. PICK flagged \in BOOLEAN : flagged = (mem.flagged \/ asked.search[Query.source] = "off")
  OBVIOUS
<1>3. PICK old \in AgentState : old = mem
  BY <1>1, NotOver
<1>4. PICK s : s = [old EXCEPT !.flagged = flagged]
  OBVIOUS
<1>5. /\ s \in AgentState /\ s.candidates = mem.candidates /\ s.next = mem.next /\ s.mode = mem.mode
      /\ s.queries = mem.queries /\ s.best = mem.best /\ s.calls = mem.calls /\ s.progress = mem.progress
      /\ s.flagged = flagged
  BY <1>3, <1>4 DEF AgentState
<1>6. AfterSearch(s)
  BY <1>2, <1>3, <1>4 DEF SearchIsSkipped
<1>7. flagged \/ \E w \in asked.sources : asked.search[w] = "absent"
  BY <1>1, <1>2, QueryIs DEF AgentInv, AgentTypes
<1>8. \A c \in mem.candidates : c # Document => asked.search[c.source] = "ready"
  BY DEF AgentInv, SearchFollows
<1> QED  BY <1>1, <1>5, <1>6, <1>7, <1>8, AfterSearchIs, FailedIs, NotOver, SearchingGoesOn

LEMMA SearchFailureKeeps == ASSUME AgentInv, SearchFails PROVE AgentInv'
<1>1. /\ node = "research" /\ node # "done" /\ UNCHANGED <<asked, attempt>> /\ MayStart /\ Sent(0, TRUE)
  BY DEF SearchFails, GivesUp
<1>2. net' \in Traffic /\ net'.received = net.received /\ (asked.under = "journal" => ~net'.late)
  <2>1. 0 \in 0 .. 1 /\ TRUE \in BOOLEAN /\ net.received \in Nat
    BY <1>1, NotOver DEF Traffic
  <2>2. /\ net' \in Traffic /\ net'.received = net.received + 0
        /\ asked.under = "journal" => ~net'.late
    BY <1>1, <2>1, SentIs
  <2> QED  BY <2>1, <2>2
<1>3. PICK row : row = [taskRow EXCEPT !.failures = taskRow.failures + 1]
  OBVIOUS
<1>4. row \in TaskRow /\ row.status = taskRow.status /\ row.calls = taskRow.calls
  BY <1>3, FailedIs
<1>5. CASE AgentFails("search", row) /\ UNCHANGED mem
  BY <1>1, <1>2, <1>4, <1>5, NotOver, AgentFailsKeep
<1>6. CASE taskRow' = row /\ AfterSearch([mem EXCEPT !.flagged = TRUE])
  <2>1. PICK old \in AgentState : old = mem
    BY <1>1, NotOver
  <2>2. PICK s : s = [old EXCEPT !.flagged = TRUE]
    OBVIOUS
  <2>3. /\ s \in AgentState /\ s.candidates = mem.candidates /\ s.next = mem.next /\ s.mode = mem.mode
        /\ s.queries = mem.queries /\ s.best = mem.best /\ s.calls = mem.calls /\ s.progress = mem.progress
        /\ s.flagged
    BY <2>1, <2>2 DEF AgentState
  <2>4. AfterSearch(s)
    BY <1>6, <2>1, <2>2
  <2>5. \A c \in mem.candidates : c # Document => asked.search[c.source] = "ready"
    BY DEF AgentInv, SearchFollows
  <2> QED  BY <1>1, <1>2, <1>4, <1>6, <2>3, <2>4, <2>5, AfterSearchIs, NotOver, SearchingGoesOn
<1> QED  BY <1>3, <1>5, <1>6 DEF SearchFails

LEMMA DocumentsKeep == ASSUME AgentInv, DocumentsSearched PROVE AgentInv'
<1>1. node = "documents" /\ node # "done" /\ UNCHANGED <<asked, attempt, net>>
  BY DEF DocumentsSearched
<1>2. PICK old \in AgentState : old = mem
  BY <1>1, NotOver
<1>3. /\ \A c \in mem.candidates : c # Document => asked.search[c.source] = "ready"
      /\ taskRow.failures > 0 => mem.flagged \/ \E w \in asked.sources : asked.search[w] = "absent"
  BY <1>1 DEF AgentInv, SearchFollows
<1>4. CASE mem' = [old EXCEPT !.candidates = old.candidates \cup {Document}] /\ node' = "extractor" /\ UNCHANGED taskRow
  <2>1. old.candidates \cup {Document} \in SUBSET AllFound
    BY DEF AgentState, AllFound
  <2>2. /\ mem' \in AgentState /\ mem'.candidates = mem.candidates \cup {Document} /\ mem'.mode = mem.mode
        /\ mem'.queries = mem.queries /\ mem'.best = mem.best /\ mem'.calls = mem.calls
        /\ mem'.progress = mem.progress /\ mem'.flagged = mem.flagged
    BY <1>2, <1>4, <2>1 DEF AgentState
  <2> QED  BY <1>1, <1>3, <1>4, <2>2, NotOver, SearchingGoesOn
<1>5. CASE /\ mem' = [old EXCEPT !.flagged = TRUE] /\ node' = "extractor"
           /\ taskRow' \in {taskRow, [taskRow EXCEPT !.failures = taskRow.failures + 1]}
  <2>1. /\ mem' \in AgentState /\ mem'.candidates = mem.candidates /\ mem'.mode = mem.mode
        /\ mem'.queries = mem.queries /\ mem'.best = mem.best /\ mem'.calls = mem.calls
        /\ mem'.progress = mem.progress /\ mem'.flagged
    BY <1>2, <1>5 DEF AgentState
  <2>2. taskRow' \in TaskRow /\ taskRow'.status = taskRow.status /\ taskRow'.calls = taskRow.calls
    BY <1>1, <1>5, FailedIs, NotOver
  <2> QED  BY <1>1, <1>3, <1>5, <2>1, <2>2, NotOver, SearchingGoesOn
<1>6. CASE AgentFails("retrieval", taskRow) /\ UNCHANGED mem
  BY <1>1, <1>6, NotOver, AgentFailsKeep
<1> QED  BY <1>2, <1>4, <1>5, <1>6 DEF DocumentsSearched

LEMMA ResearchFailureKeeps ==
  ASSUME AgentInv, node # "done", UNCHANGED <<asked, attempt, mem>>, NEW code, NEW calls \in Nat,
         ResearchFails(code, calls), net' \in Traffic, asked.under = "journal" => ~net'.late,
         calls = net'.received
  PROVE  AgentInv'
<1>1. PICK old \in TaskRow : old = taskRow
  BY NotOver
<1>2. node' = "done" /\ taskRow' = [old EXCEPT !.status = "failed", !.calls = calls]
  BY <1>1 DEF ResearchFails
<1>3. taskRow' \in TaskRow /\ taskRow'.status = "failed" /\ taskRow'.calls = calls
  BY <1>2 DEF TaskRow
<1> QED  BY <1>2, <1>3, EndKeeps DEF CallsAreAccounted, SuccessIsEarned

LEMMA SucceedsKeeps ==
  ASSUME AgentInv, node # "done", UNCHANGED <<asked, attempt, mem>>, NEW calls \in Nat,
         NEW status \in {"succeeded", "partial", "budget_exceeded"}, NEW cited \in SUBSET Nat,
         Succeeds(status, calls, cited), net' \in Traffic, asked.under = "journal" => ~net'.late,
         calls = net'.received,
         mem.mode = "research" => /\ cited # {} /\ \A i \in cited : i <= Cardinality(taskRow.evidence)
                                  /\ status = "succeeded" => Covers,
         mem.mode = "compute" /\ status = "succeeded" => mem.traces > 0
  PROVE  AgentInv'
<1>1. PICK old \in TaskRow : old = taskRow
  BY NotOver
<1>2. node' = "done" /\ taskRow' = [old EXCEPT !.status = status, !.calls = calls, !.cited = cited]
  BY <1>1 DEF Succeeds
<1>3. /\ taskRow' \in TaskRow /\ taskRow'.status = status /\ taskRow'.calls = calls /\ taskRow'.cited = cited
      /\ taskRow'.evidence = taskRow.evidence /\ taskRow'.failures = taskRow.failures
  BY <1>1, <1>2 DEF TaskRow
<1>4. CallsAreAccounted'
  BY <1>3 DEF CallsAreAccounted
<1>5. SuccessIsEarned'
  BY <1>3 DEF SuccessIsEarned, Covers
<1> QED  BY <1>2, <1>3, <1>4, <1>5, EndKeeps

LEMMA NothingFoundKeeps == ASSUME AgentInv, NothingFound PROVE AgentInv'
<1>1. /\ node = "extractor" /\ node # "done" /\ mem.candidates = {} /\ UNCHANGED <<asked, attempt, mem, net>>
      /\ ResearchFails("no_evidence", mem.calls)
  BY DEF NothingFound
<1>2. attempt = 0
  BY <1>1 DEF AgentInv, AgentTypes, CallsFollow
<1>3. mem.calls = net.received /\ mem.calls \in Nat
  BY <1>1, <1>2, NotOver DEF AgentInv, CallsFollow
<1> QED  BY <1>1, <1>3, NotOver, ResearchFailureKeeps

\* A selection that is not partial covers what was asked for, after searches that
\* all worked: one that failed without a warning would leave its source uncovered.
LEMMA FullSelectionCovers ==
  ASSUME AgentInv, node = "extractor", NEW best \in SelectionSet, best.items \subseteq mem.candidates,
         ~Partial(best)
  PROVE  /\ \A s \in asked.sources : \E c \in best.items : c.source = s
         /\ asked.documents => Document \in best.items
         /\ \A i \in 1 .. Len(mem.queries) : \E c \in best.items : c.topic = mem.queries[i].topic
         /\ \E c, d \in best.items : c.url # d.url
         /\ taskRow.failures = 0
<1>1. /\ MissingSources(best.items) = {} /\ MissingTopics(best.items) = {} /\ ~mem.flagged
      /\ ~(Cardinality({c.url : c \in best.items}) < 2)
  BY DEF Partial
<1>2. \A s \in Sources : \E c \in best.items : c.source = s
  BY <1>1 DEF MissingSources
<1>3. /\ asked.sources \subseteq Sources /\ asked.sources \subseteq {"web", "paper"}
      /\ asked.documents => "document" \in Sources
  BY DEF Sources, AgentInv, AgentTypes
<1>4. \A c \in best.items : /\ c = Document \/ c \in Candidate
                            /\ c # Document => asked.search[c.source] = "ready"
  BY DEF AgentInv, SearchFollows, AgentTypes, AgentState, AllFound
<1>5. asked.documents => Document \in best.items
  <2>1. SUFFICES ASSUME asked.documents PROVE Document \in best.items
    OBVIOUS
  <2>2. PICK c \in best.items : c.source = "document"
    BY <1>2, <1>3, <2>1
  <2>3. c \notin Candidate
    BY <2>2 DEF Candidate
  <2> QED  BY <1>4, <2>2, <2>3
<1>6. \A i \in 1 .. Len(mem.queries) : \E c \in best.items : c.topic = mem.queries[i].topic
  BY <1>1 DEF MissingTopics, Topics
<1>7. \E c, d \in best.items : c.url # d.url
  <2>1. SUFFICES ASSUME \A c, d \in best.items : c.url = d.url PROVE FALSE
    OBVIOUS
  <2>2. CASE best.items = {}
    <3>1. {c.url : c \in best.items} = {}
      BY <2>2
    <3> QED  BY <1>1, <3>1, FS_EmptySet
  <2>3. CASE best.items # {}
    <3>1. PICK b \in best.items : TRUE
      BY <2>3
    <3>2. {c.url : c \in best.items} = {b.url}
      BY <2>1, <3>1
    <3>3. Cardinality({b.url}) = 1
      BY FS_Singleton
    <3>4. Cardinality({c.url : c \in best.items}) = 1
      BY <3>2, <3>3
    <3>5. PICK n : n = Cardinality({c.url : c \in best.items})
      OBVIOUS
    <3>6. n = 1 /\ ~(n < 2)
      BY <1>1, <3>4, <3>5
    <3> QED  BY <3>6
  <2> QED  BY <2>2, <2>3
<1>8. taskRow.failures = 0
  <2>1. SUFFICES ASSUME taskRow.failures # 0 PROVE FALSE
    OBVIOUS
  <2>2. taskRow.failures \in Nat
    BY DEF AgentInv, AgentTypes, TaskRow
  <2>3. PICK s \in asked.sources : asked.search[s] = "absent"
    BY <1>1, <2>1, <2>2 DEF AgentInv, SearchFollows
  <2>4. PICK c \in best.items : c.source = s
    BY <1>2, <1>3, <2>3
  <2>5. c # Document
    BY <1>3, <2>3, <2>4 DEF Document
  <2> QED  BY <1>4, <2>3, <2>4, <2>5
<1> QED  BY <1>2, <1>3, <1>5, <1>6, <1>7, <1>8

LEMMA ConcludeKeeps ==
  ASSUME AgentInv, node = "extractor", Answered, UNCHANGED asked, NEW best \in SelectionSet,
         best.items \subseteq mem.candidates, Conclude(best, CallsSoFar)
  PROVE  AgentInv'
<1>1. node # "done" /\ mem.mode = "research" /\ CallsSoFar = mem.progress + 1
  BY DEF AgentInv, NodeFitsMode, ResearchNode, CallsSoFar
<1>2. CASE ResearchFails("no_evidence", CallsSoFar) /\ UNCHANGED <<attempt, mem>>
  <2>1. CallsSoFar \in Nat
    BY <1>1, NotOver
  <2> QED  BY <1>1, <1>2, <2>1, AnsweredIs, ResearchFailureKeeps
<1>3. CASE /\ taskRow' = [Counted EXCEPT !.evidence = best.items]
           /\ Leave("reporter", [mem EXCEPT !.partial = Partial(best), !.candidates = {}, !.best = NoSelection])
  <2>1. PICK old \in AgentState : old = mem
    BY <1>1, NotOver
  <2>2. PICK partial \in BOOLEAN : partial = Partial(best)
    BY DEF Partial
  <2>3. NoSelection \in SelectionSet /\ NoSelection.items = {}
    BY DEF NoSelection, SelectionSet
  <2>4. PICK s : s = [old EXCEPT !.partial = partial, !.candidates = {}, !.best = NoSelection]
    OBVIOUS
  <2>5. /\ s \in AgentState /\ s.partial = partial /\ s.candidates = {} /\ s.best = NoSelection
        /\ s.mode = mem.mode /\ s.queries = mem.queries
    BY <2>1, <2>3, <2>4 DEF AgentState
  <2>6. Leave("reporter", s)
    BY <1>3, <2>1, <2>2, <2>4
  <2>7. /\ mem' \in AgentState /\ node' = "reporter" /\ attempt' = 0
        /\ mem'.calls = mem.progress + 1 /\ mem'.progress = mem.progress + 1
        /\ mem'.mode = "research" /\ mem'.queries = mem.queries /\ mem'.candidates = {}
        /\ mem'.best = NoSelection /\ mem'.partial = partial
    BY <1>1, <2>5, <2>6, LeaveIs
  <2>8. best.items \in SUBSET AllFound
    BY DEF SelectionSet
  <2>9. PICK row \in TaskRow : row = Counted
    BY CountedIs
  <2>10. taskRow' = [row EXCEPT !.evidence = best.items]
    BY <1>3, <2>9
  <2>11. /\ taskRow' \in TaskRow /\ taskRow'.evidence = best.items /\ taskRow'.status = row.status
         /\ taskRow'.calls = row.calls /\ taskRow'.failures = row.failures
    BY <2>8, <2>9, <2>10 DEF TaskRow
  <2>12. /\ taskRow'.status = "running" /\ taskRow'.calls = mem.progress + 1
         /\ taskRow'.failures = taskRow.failures
    BY <1>1, <2>9, <2>11, CountedIs, NotOver
  <2>13. AgentTypes' /\ NodeFitsMode'
    BY <1>1, <2>7, <2>11, AnsweredIs DEF AgentInv, AgentTypes, NodeFitsMode, ResearchNode, ComputeNode
  <2>14. CallsFollow'
    BY <1>1, <2>7, <2>12, AnsweredIs DEF CallsFollow, CallsAreAccounted
  <2>15. SearchFollows'
    BY <2>3, <2>7 DEF AgentInv, SearchFollows
  <2>16. AnswerFollows'
    <3>1. ~partial => Covers'
      BY <2>2, <2>7, <2>11, <2>12, FullSelectionCovers DEF Covers
    <3> QED  BY <2>7, <2>12, <3>1 DEF AnswerFollows, SuccessIsEarned
  <2> QED  BY <2>13, <2>14, <2>15, <2>16 DEF AgentInv
<1> QED  BY <1>2, <1>3 DEF Conclude

LEMMA ExtractorKeeps == ASSUME AgentInv, ExtractorReplies PROVE AgentInv'
<1>1. node = "extractor" /\ mem.candidates # {} /\ Answered /\ UNCHANGED asked /\ node # "done"
  BY DEF ExtractorReplies
<1>2. PICK answer \in Selections : \E best :
        /\ best = IF Better(answer, mem.best) THEN answer ELSE mem.best
        /\ \/ /\ attempt' = 1 /\ mem' = [mem EXCEPT !.best = best, !.progress = mem.progress + 1]
              /\ taskRow' = Counted /\ UNCHANGED node
           \/ Conclude(best, CallsSoFar)
  BY DEF ExtractorReplies
<1>3. PICK best :
        /\ best = IF Better(answer, mem.best) THEN answer ELSE mem.best
        /\ \/ /\ attempt' = 1 /\ mem' = [mem EXCEPT !.best = best, !.progress = mem.progress + 1]
              /\ taskRow' = Counted /\ UNCHANGED node
           \/ Conclude(best, CallsSoFar)
  BY <1>2
<1>4. mem.candidates \subseteq AllFound /\ mem.best \in SelectionSet /\ mem.best.items \subseteq mem.candidates
  BY DEF AgentInv, AgentTypes, AgentState, SearchFollows
<1>5. answer \in SelectionSet /\ answer.items \subseteq mem.candidates
  BY <1>3, <1>4 DEF Selections, SelectionSet
<1>6. best \in SelectionSet /\ best.items \subseteq mem.candidates
  BY <1>3, <1>4, <1>5
<1> QED  BY <1>1, <1>3, <1>6, AsksAgainKeeps, ConcludeKeeps DEF Correcting

LEMMA ReporterKeeps == ASSUME AgentInv, ReporterReplies PROVE AgentInv'
<1>1. node = "reporter" /\ Answered /\ UNCHANGED asked /\ node # "done" /\ mem.mode = "research"
  BY DEF ReporterReplies, AgentInv, NodeFitsMode, ResearchNode
<1>2. CallsSoFar \in Nat /\ CallsSoFar = mem.progress + 1
  BY <1>1, NotOver DEF CallsSoFar
<1>3. PICK cited \in SUBSET (1 .. MaxEvidence + 1), mapped \in SUBSET (1 .. MaxEvidence + 1) :
        \/ /\ ValidReport(cited, mapped)
           /\ Succeeds(IF mem.partial THEN "partial" ELSE "succeeded", CallsSoFar, cited)
           /\ UNCHANGED <<attempt, mem>>
        \/ /\ attempt' = 1 /\ mem' = [mem EXCEPT !.progress = mem.progress + 1]
           /\ taskRow' = Counted /\ UNCHANGED node
        \/ ResearchFails("invalid_citations", CallsSoFar) /\ UNCHANGED <<attempt, mem>>
  BY DEF ReporterReplies
<1>4. CASE /\ ValidReport(cited, mapped)
           /\ Succeeds(IF mem.partial THEN "partial" ELSE "succeeded", CallsSoFar, cited)
           /\ UNCHANGED <<attempt, mem>>
  <2>1. cited # {} /\ cited \in SUBSET Nat /\ \A i \in cited : i <= Cardinality(taskRow.evidence)
    BY <1>4 DEF ValidReport, Keys
  <2>2. PICK status \in {"succeeded", "partial"} : status = IF mem.partial THEN "partial" ELSE "succeeded"
    OBVIOUS
  <2>3. status = "succeeded" => Covers
    BY <1>1, <2>2 DEF AgentInv, AnswerFollows
  <2> QED  BY <1>1, <1>2, <1>4, <2>1, <2>2, <2>3, AnsweredIs, SucceedsKeeps
<1>5. CASE /\ attempt' = 1 /\ mem' = [mem EXCEPT !.progress = mem.progress + 1]
           /\ taskRow' = Counted /\ UNCHANGED node
  <2>1. mem.best \in SelectionSet /\ mem.best.items \subseteq mem.candidates
    BY DEF AgentInv, AgentTypes, AgentState, SearchFollows
  <2> QED  BY <1>1, <1>5, <2>1, AsksAgainKeeps DEF Correcting
<1>6. CASE ResearchFails("invalid_citations", CallsSoFar) /\ UNCHANGED <<attempt, mem>>
  BY <1>1, <1>2, <1>6, AnsweredIs, ResearchFailureKeeps
<1> QED  BY <1>3, <1>4, <1>5, <1>6

\* The model and the tools take turns: nothing is sent by a step of the tools.
LEMMA ComputingGoesOn ==
  ASSUME AgentInv, node \in ComputeNode, node' \in ComputeNode, UNCHANGED asked, attempt' = 0,
         mem' \in AgentState, mem'.mode = "compute", mem'.queries = mem.queries,
         mem'.candidates = mem.candidates, mem'.best = mem.best,
         mem'.calls = mem'.progress,
         net' \in Traffic, net'.received = mem'.progress, asked.under = "journal" => ~net'.late,
         taskRow' \in TaskRow, taskRow'.status = "running",
         node' = "writer" /\ ~mem'.exceeded => mem'.traces > 0
  PROVE  AgentInv'
<1>1. AgentTypes' /\ NodeFitsMode'
  BY DEF AgentInv, AgentTypes, NodeFitsMode, ResearchNode, ComputeNode
<1>2. CallsFollow'
  BY DEF CallsFollow, CallsAreAccounted, ResearchNode, ComputeNode
<1>3. SearchFollows'
  BY DEF AgentInv, SearchFollows, ComputeNode
<1>4. AnswerFollows'
  BY DEF AnswerFollows, SuccessIsEarned, ComputeNode
<1> QED  BY <1>1, <1>2, <1>3, <1>4 DEF AgentInv

\* What the state of a run that computes is.
LEMMA ComputingIs ==
  ASSUME AgentInv, node \in ComputeNode
  PROVE  /\ node # "done" /\ mem.mode = "compute" /\ mem.mode # "research" /\ mem \in AgentState
         /\ attempt = 0 /\ mem.calls = mem.progress /\ net.received = mem.progress
         /\ taskRow.status = "running" /\ taskRow \in TaskRow /\ net \in Traffic
         /\ asked.under = "journal" => ~net.late
  BY DEF AgentInv, AgentTypes, NodeFitsMode, CallsFollow, CallsAreAccounted, ComputeNode, Correcting

LEMMA IterationsKeep == ASSUME AgentInv, OutOfIterations PROVE AgentInv'
<1>1. node \in ComputeNode /\ node' = "writer" /\ UNCHANGED <<asked, attempt, taskRow, net>>
  BY DEF OutOfIterations, ComputeNode
<1>2. PICK old \in AgentState : old = mem
  BY <1>1, ComputingIs
<1>3. mem' = [old EXCEPT !.exceeded = TRUE]
  BY <1>2 DEF OutOfIterations
<1>4. /\ mem' \in AgentState /\ mem'.mode = mem.mode /\ mem'.queries = mem.queries /\ mem'.candidates = mem.candidates
      /\ mem'.best = mem.best /\ mem'.calls = mem.calls /\ mem'.progress = mem.progress /\ mem'.exceeded
  BY <1>2, <1>3 DEF AgentState
<1>5. node' \in ComputeNode
  BY <1>1 DEF ComputeNode
<1> QED  BY <1>1, <1>4, <1>5, ComputingIs, ComputingGoesOn

LEMMA ExecutorKeeps == ASSUME AgentInv, ExecutorReplies PROVE AgentInv'
<1>1. node = "executor" /\ node \in ComputeNode /\ node # "done" /\ Answered /\ UNCHANGED <<asked, taskRow>>
  BY DEF ExecutorReplies, ComputeNode
<1>2. PICK old \in AgentState : old = mem
  BY <1>1, ComputingIs
<1>3. PICK more \in Nat : more = old.iterations + 1
  BY DEF AgentState
<1>4. PICK turn : turn = [old EXCEPT !.iterations = more]
  OBVIOUS
<1>5. PICK there \in ComputeNode, s \in {turn, [turn EXCEPT !.prompted = TRUE]} :
        Leave(there, s) /\ (there = "writer" => mem.traces > 0)
  BY <1>2, <1>3, <1>4 DEF ExecutorReplies, ComputeNode
<1>6. turn \in AgentState
  BY <1>4 DEF AgentState
<1>7. /\ s \in AgentState /\ s.mode = mem.mode /\ s.queries = mem.queries /\ s.candidates = mem.candidates
      /\ s.best = mem.best /\ s.traces = mem.traces
  BY <1>2, <1>4, <1>5, <1>6 DEF AgentState
<1>8. /\ mem' \in AgentState /\ node' = there /\ attempt' = 0 /\ mem'.mode = mem.mode
      /\ mem'.calls = mem.progress + 1 /\ mem'.progress = mem.progress + 1
      /\ mem'.queries = mem.queries /\ mem'.candidates = mem.candidates
      /\ mem'.best = mem.best /\ mem'.traces = mem.traces
  BY <1>5, <1>7, LeaveIs
<1> QED  BY <1>1, <1>5, <1>8, AnsweredIs, ComputingIs, ComputingGoesOn

LEMMA InsistsKeep == ASSUME AgentInv, ExecutorInsists PROVE AgentInv'
<1>1. /\ node \in ComputeNode /\ Answered /\ UNCHANGED <<asked, attempt, mem>>
      /\ AgentFails("protocol", taskRow)
  BY DEF ExecutorInsists, ComputeNode
<1> QED  BY <1>1, ComputingIs, AnsweredIs, PlainFailureKeeps

LEMMA ToolTurnKeeps == ASSUME AgentInv, ToolRuns PROVE AgentInv'
<1>1. node = "tools" /\ node \in ComputeNode /\ UNCHANGED <<asked, attempt, net>>
  BY DEF ToolRuns, ComputeNode
<1>2. PICK old \in AgentState : old = mem
  BY <1>1, ComputingIs
<1>3. taskRow' \in TaskRow /\ taskRow'.status = "running"
  BY <1>1, ComputingIs, FailedIs DEF ToolRuns
<1>4. CASE mem' = [old EXCEPT !.exceeded = TRUE] /\ node' = "writer"
  <2>1. /\ mem' \in AgentState /\ mem'.mode = mem.mode /\ mem'.queries = mem.queries
        /\ mem'.candidates = mem.candidates /\ mem'.best = mem.best /\ mem'.calls = mem.calls
        /\ mem'.progress = mem.progress /\ mem'.exceeded /\ node' \in ComputeNode
    BY <1>2, <1>4 DEF AgentState, ComputeNode
  <2> QED  BY <1>1, <1>3, <2>1, ComputingIs, ComputingGoesOn
<1>5. CASE /\ mem' = [old EXCEPT !.traces = old.traces + 1, !.exceeded = old.iterations >= MaxIterations]
           /\ node' \in {"writer", "executor"}
  <2>1. PICK more \in Nat : more = old.traces + 1 /\ more > 0
    BY DEF AgentState
  <2>2. (old.iterations >= MaxIterations) \in BOOLEAN
    BY AgentAssumption DEF AgentState
  <2>3. PICK over \in BOOLEAN : mem' = [old EXCEPT !.traces = more, !.exceeded = over]
    <3>1. mem' = [old EXCEPT !.traces = more, !.exceeded = old.iterations >= MaxIterations]
      BY <1>5, <2>1
    <3> QED  BY <2>2, <3>1, Zenon
  <2>4. /\ mem' \in AgentState /\ mem'.mode = mem.mode /\ mem'.queries = mem.queries
        /\ mem'.candidates = mem.candidates /\ mem'.best = mem.best /\ mem'.calls = mem.calls
        /\ mem'.progress = mem.progress /\ mem'.traces > 0 /\ node' \in ComputeNode
    BY <1>2, <1>5, <2>1, <2>3 DEF AgentState, ComputeNode
  <2> QED  BY <1>1, <1>3, <2>4, ComputingIs, ComputingGoesOn
<1> QED  BY <1>2, <1>4, <1>5 DEF ToolRuns

LEMMA WriterReplyKeeps == ASSUME AgentInv, WriterReplies PROVE AgentInv'
<1>1. node = "writer" /\ node \in ComputeNode /\ Answered /\ UNCHANGED <<asked, attempt, mem>>
  BY DEF WriterReplies, ComputeNode
<1>2. mem.progress + 1 \in Nat
  BY <1>1, ComputingIs DEF AgentState
<1>3. CASE Succeeds(IF mem.exceeded THEN "budget_exceeded" ELSE "succeeded", mem.progress + 1, {})
  <2>1. PICK status \in {"budget_exceeded", "succeeded"} :
          status = IF mem.exceeded THEN "budget_exceeded" ELSE "succeeded"
    OBVIOUS
  <2>2. status = "succeeded" => mem.traces > 0
    BY <1>1, <2>1 DEF AgentInv, AnswerFollows
  <2> QED  BY <1>1, <1>2, <1>3, <2>1, <2>2, ComputingIs, AnsweredIs, SucceedsKeeps
<1>4. CASE AgentFails("empty", taskRow)
  BY <1>1, <1>4, ComputingIs, AnsweredIs, PlainFailureKeeps
<1> QED  BY <1>3, <1>4 DEF WriterReplies

LEMMA ServiceKeeps == ASSUME AgentInv, ServiceEnds PROVE AgentInv'
<1>1. /\ node = "service" /\ node # "done" /\ MayStart /\ UNCHANGED <<asked, attempt, mem>>
      /\ mem.mode = "service" /\ mem.calls = mem.progress /\ mem.progress \in Nat
  BY NotOver DEF ServiceEnds, AgentInv, AgentTypes, NodeFitsMode, CallsFollow, Correcting
<1>2. CASE Sent(1, FALSE) /\ Succeeds("succeeded", mem.calls + 1, {})
  <2>1. Answered
    BY <1>1, <1>2 DEF Answered
  <2>2. mem.calls + 1 \in Nat /\ mem.calls + 1 = mem.progress + 1
    BY <1>1
  <2> QED  BY <1>1, <1>2, <2>1, <2>2, AnsweredIs, SucceedsKeeps
<1>3. ASSUME NEW got \in 0 .. 1, NEW open \in BOOLEAN, Sent(got, open), NEW code, AgentFails(code, taskRow)
      PROVE  AgentInv'
  BY <1>1, <1>3, SentIs, PlainFailureKeeps
<1> QED  BY <1>2, <1>3 DEF ServiceEnds

LEMMA AgentInductive == ASSUME AgentInv, [AgentNext]_agentVars PROVE AgentInv'
<1>1. CASE UNCHANGED agentVars
  BY <1>1 DEF agentVars, AgentInv, AgentTypes, NodeFitsMode, CallsFollow, CallsAreAccounted, SearchFollows,
     AnswerFollows, SuccessIsEarned, Covers
<1>2. CASE AgentNext
  BY <1>2, CallingKeeps, RejectedKeeps, PlannerKeeps, QueryPlannerKeeps, FindsKeep, SkipsKeep,
     SearchFailureKeeps, DocumentsKeep, NothingFoundKeeps, ExtractorKeeps, ReporterKeeps, IterationsKeep,
     ExecutorKeeps, InsistsKeep, ToolTurnKeeps, WriterReplyKeeps, ServiceKeeps DEF AgentNext
<1> QED  BY <1>1, <1>2

\* A research task that is shown as succeeded has what it was asked for, from every
\* source, on every topic and from two pages, after searches none of which failed; a
\* computed answer rests on a tool call: for every number of queries, pages and tool
\* calls, and whatever is lost, rejected or cut short (runner.py:1317-1343,
\* 1549-1557, 1765-1807).
THEOREM SuccessStands == AgentSpec => []SuccessIsEarned
<1>1. AgentInit => AgentInv
  BY AgentInitial
<1>2. AgentInv /\ [AgentNext]_agentVars => AgentInv'
  BY AgentInductive
<1>3. AgentInv => SuccessIsEarned
  BY AgentSound
<1> QED  BY <1>1, <1>2, <1>3, PTL DEF AgentSpec

\* No completion of a research run is lost from its row, and under a journal nothing
\* is sent after a request whose outcome is unknown (runner.py:561-574, 995-998,
\* 1250-1262, 1739-1764, durable_repository.py:488-490).
THEOREM CallsStayAccounted == AgentSpec => []CallsAreAccounted
<1>1. AgentInit => AgentInv
  BY AgentInitial
<1>2. AgentInv /\ [AgentNext]_agentVars => AgentInv'
  BY AgentInductive
<1>3. AgentInv => CallsAreAccounted
  BY AgentSound
<1> QED  BY <1>1, <1>2, <1>3, PTL DEF AgentSpec

-----------------------------------------------------------------------------
(* The plan of a workflow and its repair: what a revision keeps still fits    *)
(* together, its charges are set aside, and it is not the same training once   *)
(* more.                                                                      *)

Outcomes == {"none", "done", "unproven", "failed", "skipped", "collection"}
StepResult ==
  [outcome : Outcomes, version : Nat, source : Source \cup {Nothing}, seen : SUBSET (Step \X Nat)]
PlanShape == [ids : SUBSET Step, kind : [Step -> Kinds], deps : [Step -> SUBSET Step]]
PlanNodes ==
  {"planner", "executor", "judging", "replanner", "revising", "passed", "failed", "out_of_replans", "out_of_repairs"}

PlanTypes ==
  /\ pc \in PlanNodes
  /\ plan \in PlanShape /\ IsGraph(plan)
  /\ version \in Nat \ {0}
  /\ results \in [Step -> StepResult]
  /\ issues.steps \in SUBSET Step
  /\ narrow \in SUBSET Step
  /\ lost \in [Step -> [Source -> Nat]]
  /\ used \in [replans : Nat, repairs : Nat]
  /\ inner \in BOOLEAN

\* A result was made from the results of its dependencies as they are now.
FitsItsSources(s) ==
  /\ \A d \in plan.deps[s] : results[d] # NoResult
  /\ results[s].seen = {<<d, results[d].version>> : d \in plan.deps[s]}
  /\ plan.kind[s] = "experiment" /\ results[s].outcome # "skipped" =>
       \A d \in plan.deps[s] : plan.kind[d] = "coding" => results[s].source = results[d].source
  /\ plan.kind[s] = "coding" /\ ~Failed(s) => results[s].source \in Source

ResultsFit ==
  /\ pc = "planner" => plan.ids = {} /\ version = 1
  /\ \A s \in Step : \/ results[s] = NoResult
                     \/ s \in plan.ids /\ results[s].outcome # "none" /\ results[s].version # 0
  /\ pc \in {"judging", "replanner", "revising", "passed"} => \A s \in plan.ids : results[s] # NoResult
  /\ \A s \in plan.ids : results[s] # NoResult => FitsItsSources(s)
  /\ pc \in {"replanner", "revising"} => \A s \in plan.ids : Failed(s) => s \in issues.steps

\* The code that the present plan has still to write.
CodeToWrite == {s \in OfKind(plan, "coding") : results[s] = NoResult}

\* What the plan will charge is left, until the agent repairs by itself.
RevisionIsPaid ==
  /\ used.repairs <= MaxRepairs
  /\ version > 1 /\ pc = "executor" /\ ~inner => used.repairs + Cardinality(CodeToWrite) <= MaxRepairs
  /\ pc = "revising" => /\ Affordable(plan, Downstream(plan, issues.steps))
                        /\ narrow \subseteq issues.steps
  /\ WorkFitsTogether

CodeIsDue == \E c \in OfKind(plan, "coding") : results[c].version # 1

\* A collection that failed twice on a source is not tried there again, unless code is
\* due, or came after the first plan.
RepeatsAreCounted ==
  /\ version = 1 => \A s \in Step, x \in Source : /\ lost[s][x] <= 1
                                                  /\ results[s] = NoResult => lost[s][x] = 0
  /\ pc = "revising" => ~Exhausted /\ (narrow # {} => version = 1)
  /\ \A s \in Step, x \in Source :
       lost[s][x] >= 2 => CodeIsDue \/ (results[s].outcome = "collection" /\ results[s].source = x)

PlanInv == PlanTypes /\ ResultsFit /\ RevisionIsPaid /\ RepeatsAreCounted

-----------------------------------------------------------------------------
(* What depends on a set of steps: the set itself, closed, and no more.       *)

LEMMA DownstreamHas ==
  ASSUME NEW p, NEW A \in SUBSET Step
  PROVE  A \subseteq Downstream(p, A) /\ Downstream(p, A) \in SUBSET Step
  BY DEF Downstream

LEMMA DownstreamIsClosed ==
  ASSUME NEW p \in PlanShape, NEW A \in SUBSET Step
  PROVE  HasDependants(p, Downstream(p, A))
<1>1. SUFFICES ASSUME NEW s \in p.ids, p.deps[s] \cap Downstream(p, A) # {}
               PROVE  s \in Downstream(p, A)
  BY DEF HasDependants
<1>2. PICK d \in p.deps[s] : d \in Downstream(p, A)
  BY <1>1
<1>3. s \in Step
  BY DEF PlanShape
<1>4. ASSUME NEW C \in SUBSET Step, A \subseteq C, HasDependants(p, C)
      PROVE  s \in C
  <2>1. d \in C
    BY <1>2, <1>4 DEF Downstream
  <2> QED  BY <1>2, <1>4, <2>1 DEF HasDependants
<1> QED  BY <1>3, <1>4 DEF Downstream

LEMMA DownstreamIsLeast ==
  ASSUME NEW p, NEW A \in SUBSET Step, NEW C \in SUBSET Step, A \subseteq C, HasDependants(p, C)
  PROVE  Downstream(p, A) \subseteq C
  BY DEF Downstream

LEMMA DownstreamGrows ==
  ASSUME NEW p \in PlanShape, NEW A \in SUBSET Step, NEW B \in SUBSET Step, A \subseteq B
  PROVE  Downstream(p, A) \subseteq Downstream(p, B)
  BY DownstreamHas, DownstreamIsClosed, DownstreamIsLeast

\* A revision gives up all that depended on what was blamed in the old plan, too: a
\* step whose dependencies changed is among those touched.
LEMMA RevisionCovers ==
  ASSUME plan \in PlanShape, NEW p \in PlanShape, NEW touched \in SUBSET Step, IsRevision(p, touched),
         issues.steps \in SUBSET Step
  PROVE  Downstream(plan, issues.steps) \subseteq Downstream(p, touched)
<1>1. HasDependants(p, Downstream(p, touched)) /\ touched \subseteq Downstream(p, touched)
      /\ Downstream(p, touched) \in SUBSET Step
  BY DownstreamIsClosed, DownstreamHas
<1>2. /\ plan.ids \subseteq p.ids /\ issues.steps \subseteq Downstream(p, touched)
      /\ \A s \in p.ids : s \notin plan.ids \/ p.deps[s] # plan.deps[s] => s \in touched
  BY DEF IsRevision
<1>3. HasDependants(plan, Downstream(p, touched))
  BY <1>1, <1>2 DEF HasDependants
<1> QED  BY <1>1, <1>2, <1>3, DownstreamIsLeast

LEMMA StepsAreFinite == ASSUME NEW A \in SUBSET Step PROVE IsFiniteSet(A) /\ Cardinality(A) \in Nat
  BY RepairAssumption, FS_Subset, FS_CardinalityType

\* The code that an experiment runs is the one coding step it depends on.
LEMMA CodeOfIs ==
  ASSUME plan \in PlanShape, IsGraph(plan), NEW s \in OfKind(plan, "experiment")
  PROVE  /\ CodeOf(s) \in plan.deps[s] /\ plan.kind[CodeOf(s)] = "coding" /\ CodeOf(s) \in plan.ids
         /\ \A d \in plan.deps[s] : plan.kind[d] = "coding" => d = CodeOf(s)
<1>1. PICK D : D = plan.deps[s] \cap OfKind(plan, "coding")
  OBVIOUS
<1>2. /\ s \in plan.ids /\ plan.deps[s] \subseteq plan.ids /\ plan.ids \in SUBSET Step
  BY DEF OfKind, IsGraph, PlanShape
<1>3. IsFiniteSet(D) /\ Cardinality(D) = 1
  BY <1>1, <1>2, StepsAreFinite DEF IsGraph, OfKind
<1>4. PICK one : D = {one}
  BY <1>3, FS_Singleton
<1>5. /\ one \in plan.deps[s] /\ plan.kind[one] = "coding"
      /\ \A d \in plan.deps[s] : plan.kind[d] = "coding" => d = one
  BY <1>1, <1>2, <1>4 DEF OfKind
<1>6. CodeOf(s) = one
  BY <1>5 DEF CodeOf
<1> QED  BY <1>2, <1>5, <1>6

LEMMA PlanSound == ASSUME PlanInv PROVE WorkFitsTogether
  BY DEF PlanInv, RevisionIsPaid

LEMMA PlanInitial == ASSUME PlanInit PROVE PlanInv
<1>1. /\ pc = "planner" /\ plan = NoPlan /\ version = 1 /\ results = [s \in Step |-> NoResult]
      /\ issues = NoIssues /\ narrow = {} /\ lost = [s \in Step |-> [x \in Source |-> 0]]
      /\ used = [replans |-> 0, repairs |-> 0] /\ inner = FALSE /\ MaxRepairs \in Nat
  BY RepairAssumption DEF PlanInit
<1>2. NoPlan \in PlanShape /\ NoPlan.ids = {}
  BY DEF NoPlan, PlanShape, Kinds
<1>3. IsGraph(NoPlan) /\ OfKind(NoPlan, "coding") = {}
  <2>1. \A kind : OfKind(NoPlan, kind) = {}
    BY <1>2 DEF OfKind
  <2>2. (SUBSET NoPlan.ids) \ {{}} = {}
    BY <1>2
  <2> QED  BY <1>2, <2>1, <2>2 DEF IsGraph
<1>4. NoResult \in StepResult /\ NoResult.version = 0
  BY DEF NoResult, StepResult, Outcomes
<1>5. PlanTypes
  <2>1. inner \in BOOLEAN
    BY <1>1
  <2>2. lost \in [Step -> [Source -> Nat]]
    BY <1>1
  <2> QED  BY <1>1, <1>2, <1>3, <1>4, <2>1, <2>2 DEF PlanTypes, PlanNodes, NoIssues
<1>6. ResultsFit
  BY <1>1, <1>2 DEF ResultsFit
<1>7. RevisionIsPaid
  BY <1>1 DEF RevisionIsPaid, WorkFitsTogether
<1>8. RepeatsAreCounted
  BY <1>1, <1>3 DEF RepeatsAreCounted
<1> QED  BY <1>5, <1>6, <1>7, <1>8 DEF PlanInv

\* The end of a run, or a step that leaves all but the review and the workspaces.
LEMMA RunEndsKeep ==
  ASSUME PlanInv, pc' \in {"failed", "out_of_replans"},
         UNCHANGED <<plan, version, results, issues, narrow, lost, used, inner>>
  PROVE  PlanInv'
<1>1. PlanTypes'
  BY DEF PlanInv, PlanTypes, PlanNodes
<1>2. ResultsFit'
  BY DEF PlanInv, ResultsFit, FitsItsSources, Failed
<1>3. RevisionIsPaid'
  BY DEF PlanInv, RevisionIsPaid, WorkFitsTogether
<1>4. RepeatsAreCounted'
  BY DEF PlanInv, RepeatsAreCounted, CodeIsDue
<1> QED  BY <1>1, <1>2, <1>3, <1>4 DEF PlanInv

LEMMA PlannerPlans == ASSUME PlanInv, Planner PROVE PlanInv'
<1>1. /\ pc = "planner" /\ pc' = "executor" /\ plan' \in Plans
      /\ UNCHANGED <<version, results, space, issues, narrow, lost, used, inner, writes>>
  BY DEF Planner
<1>2. plan' \in PlanShape /\ IsGraph(plan')
  BY <1>1 DEF Plans, PlanShape, IsPlan
<1>3. version = 1 /\ (\A s \in Step : results[s] = NoResult) /\ NoResult.version = 0
  BY <1>1 DEF PlanInv, ResultsFit, NoResult
<1>4. plan'.ids \subseteq Step
  BY <1>2 DEF PlanShape
<1>5. PlanTypes'
  BY <1>1, <1>2 DEF PlanInv, PlanTypes, PlanNodes
<1>6. ResultsFit'
  BY <1>1, <1>3, <1>4 DEF ResultsFit
<1>7. RevisionIsPaid'
  BY <1>1, <1>3 DEF PlanInv, RevisionIsPaid, WorkFitsTogether
<1>8. RepeatsAreCounted'
  <2>1. \A s \in Step, x \in Source : lost[s][x] = 0
    BY <1>3 DEF PlanInv, PlanTypes, RepeatsAreCounted
  <2> QED  BY <1>1, <2>1 DEF RepeatsAreCounted
<1> QED  BY <1>5, <1>6, <1>7, <1>8 DEF PlanInv

\* A step is recorded: its result fits what it was made from, and nothing that is
\* recorded was made from it.
LEMMA RecordIs ==
  ASSUME PlanInv, NEW s, Ready(s), NEW outcome \in Outcomes \ {"none"}, NEW x \in Source \cup {Nothing},
         Record(s, outcome, x)
  PROVE  /\ s \in Step /\ s \in plan.ids /\ pc = "executor" /\ results[s] = NoResult
         /\ results' \in [Step -> StepResult]
         /\ results'[s].outcome = outcome /\ results'[s].version = version /\ results'[s].source = x
         /\ results'[s].seen = {<<d, results[d].version>> : d \in plan.deps[s]}
         /\ results'[s] # NoResult
         /\ \A t \in Step \ {s} : results'[t] = results[t]
         /\ \A d \in plan.deps[s] : d \in Step /\ d # s /\ results[d] # NoResult
         /\ UNCHANGED <<plan, version, issues, narrow>>
<1>1. s \in plan.ids /\ s \in Step /\ pc = "executor" /\ results[s] = NoResult
      /\ \A d \in plan.deps[s] : results[d] # NoResult
  BY DEF Ready, PlanInv, PlanTypes, PlanShape
<1>2. \A d \in plan.deps[s] : d \in Step /\ d # s
  BY <1>1 DEF PlanInv, PlanTypes, PlanShape, IsGraph
<1>3. PICK new : new = [outcome |-> outcome, version |-> version, source |-> x,
                        seen |-> {<<d, results[d].version>> : d \in plan.deps[s]}]
  OBVIOUS
<1>4. results' = [results EXCEPT ![s] = new] /\ UNCHANGED <<plan, version, issues, narrow>>
  BY <1>3 DEF Record
<1>5. results \in [Step -> StepResult] /\ version \in Nat
  BY DEF PlanInv, PlanTypes
<1>6. {<<d, results[d].version>> : d \in plan.deps[s]} \in SUBSET (Step \X Nat)
  BY <1>2, <1>5 DEF StepResult
<1>7. new \in StepResult /\ new # NoResult
  BY <1>3, <1>5, <1>6 DEF StepResult, NoResult
<1>8. results' \in [Step -> StepResult] /\ results'[s] = new /\ \A t \in Step \ {s} : results'[t] = results[t]
  BY <1>1, <1>4, <1>5, <1>7
<1> QED  BY <1>1, <1>2, <1>3, <1>4, <1>7, <1>8

LEMMA RecordFits ==
  ASSUME PlanInv, NEW s, Ready(s), NEW outcome \in Outcomes \ {"none"}, NEW x \in Source \cup {Nothing},
         Record(s, outcome, x), pc' \in {"executor", "out_of_repairs"},
         plan.kind[s] = "experiment" /\ outcome # "skipped" => x = results[CodeOf(s)].source,
         plan.kind[s] = "coding" /\ outcome = "done" => x \in Source,
         plan.kind[s] = "coding" => outcome \in {"done", "failed", "skipped"}
  PROVE  ResultsFit'
<1>1. /\ s \in Step /\ s \in plan.ids /\ pc = "executor" /\ results[s] = NoResult
      /\ results'[s].outcome = outcome /\ results'[s].version = version /\ results'[s].source = x
      /\ results'[s].seen = {<<d, results[d].version>> : d \in plan.deps[s]}
      /\ results'[s] # NoResult
      /\ \A t \in Step \ {s} : results'[t] = results[t]
      /\ \A d \in plan.deps[s] : d \in Step /\ d # s /\ results[d] # NoResult
      /\ UNCHANGED <<plan, version, issues, narrow>>
  BY RecordIs
<1>2. /\ plan \in PlanShape /\ IsGraph(plan) /\ version \in Nat \ {0} /\ plan.ids \subseteq Step
  BY DEF PlanInv, PlanTypes, PlanShape
<1>3. \A t \in Step : \/ results'[t] = NoResult
                      \/ t \in plan'.ids /\ results'[t].outcome # "none" /\ results'[t].version # 0
  <2>1. \A t \in Step : \/ results[t] = NoResult
                        \/ t \in plan.ids /\ results[t].outcome # "none" /\ results[t].version # 0
    BY DEF PlanInv, ResultsFit
  <2> QED  BY <1>1, <1>2, <2>1
<1>4. FitsItsSources(s)'
  <2>1. \A d \in plan.deps[s] : results'[d] = results[d]
    BY <1>1
  <2>2. results'[s].seen = {<<d, results'[d].version>> : d \in plan.deps[s]}
    BY <1>1, <2>1
  <2>3. ASSUME plan.kind[s] = "experiment", outcome # "skipped", NEW d \in plan.deps[s], plan.kind[d] = "coding"
        PROVE  results'[s].source = results'[d].source
    <3>1. s \in OfKind(plan, "experiment")
      BY <1>1, <2>3 DEF OfKind
    <3>2. d = CodeOf(s)
      BY <1>2, <2>3, <3>1, CodeOfIs
    <3> QED  BY <1>1, <2>1, <2>3, <3>2
  <2>4. plan.kind[s] = "coding" /\ ~Failed(s)' => results'[s].source \in Source
    BY <1>1 DEF Failed
  <2> QED  BY <1>1, <2>1, <2>2, <2>3, <2>4 DEF FitsItsSources
<1>5. ASSUME NEW t \in plan.ids, t # s, results[t] # NoResult PROVE FitsItsSources(t)'
  <2>1. FitsItsSources(t) /\ t \in Step /\ plan.deps[t] \subseteq Step
    BY <1>2, <1>5 DEF PlanInv, ResultsFit, PlanShape
  <2>2. \A d \in plan.deps[t] : d # s /\ results'[d] = results[d]
    BY <1>1, <2>1 DEF FitsItsSources
  <2>3. results'[t] = results[t]
    BY <1>1, <1>5, <2>1
  <2> QED  BY <1>1, <2>1, <2>2, <2>3 DEF FitsItsSources, Failed
<1> QED  BY <1>1, <1>2, <1>3, <1>4, <1>5 DEF ResultsFit

\* One step less to do: where it writes code, one less to pay.
LEMMA RecordLessens ==
  ASSUME PlanInv, NEW s, Ready(s), NEW outcome \in Outcomes \ {"none"}, NEW x \in Source \cup {Nothing},
         Record(s, outcome, x)
  PROVE  /\ Cardinality(CodeToWrite') \in Nat /\ Cardinality(CodeToWrite') <= Cardinality(CodeToWrite)
         /\ plan.kind[s] = "coding" => Cardinality(CodeToWrite') = Cardinality(CodeToWrite) - 1
         /\ Cardinality(CodeToWrite) \in Nat
<1>1. /\ s \in Step /\ s \in plan.ids /\ results[s] = NoResult /\ results'[s] # NoResult
      /\ \A t \in Step \ {s} : results'[t] = results[t]
      /\ UNCHANGED plan /\ plan.ids \subseteq Step
  BY RecordIs DEF PlanInv, PlanTypes, PlanShape
<1>2. CodeToWrite' = CodeToWrite \ {s} /\ CodeToWrite \in SUBSET Step
  BY <1>1 DEF CodeToWrite, OfKind
<1>3. plan.kind[s] = "coding" => s \in CodeToWrite
  BY <1>1 DEF CodeToWrite, OfKind
<1>4. IsFiniteSet(CodeToWrite) /\ Cardinality(CodeToWrite) \in Nat
  BY <1>2, StepsAreFinite
<1>5. IsFiniteSet(CodeToWrite') /\ Cardinality(CodeToWrite') \in Nat
  BY <1>2, StepsAreFinite
<1>6. Cardinality(CodeToWrite \ {s}) = IF s \in CodeToWrite THEN Cardinality(CodeToWrite) - 1 ELSE Cardinality(CodeToWrite)
  BY <1>4, FS_RemoveElement
<1> QED  BY <1>2, <1>3, <1>4, <1>5, <1>6

\* What repeats are for is not changed by recording a step, whatever it costs.
LEMMA RecordCounts ==
  ASSUME PlanInv, NEW s, Ready(s), NEW outcome \in Outcomes \ {"none"}, NEW x \in Source \cup {Nothing},
         Record(s, outcome, x), pc' \in {"executor", "out_of_repairs"},
         \/ UNCHANGED lost
         \/ x \in Source /\ outcome = "collection" /\ lost' = [lost EXCEPT ![s][x] = lost[s][x] + 1]
  PROVE  RepeatsAreCounted' /\ lost' \in [Step -> [Source -> Nat]]
<1>1. /\ s \in Step /\ s \in plan.ids /\ results[s] = NoResult /\ results'[s] # NoResult
      /\ results' \in [Step -> StepResult]
      /\ results'[s].outcome = outcome /\ results'[s].version = version /\ results'[s].source = x
      /\ \A t \in Step \ {s} : results'[t] = results[t]
      /\ UNCHANGED <<plan, version, issues, narrow>>
  BY RecordIs
<1>2. /\ lost \in [Step -> [Source -> Nat]] /\ plan.ids \subseteq Step /\ version \in Nat \ {0}
      /\ results \in [Step -> StepResult] /\ NoResult.outcome = "none"
  BY DEF PlanInv, PlanTypes, PlanShape, NoResult
<1>3. /\ lost' \in [Step -> [Source -> Nat]]
      /\ \A t \in Step, y \in Source : t # s \/ y # x => lost'[t][y] = lost[t][y]
      /\ x \in Source => lost'[s][x] = lost[s][x] \/ (outcome = "collection" /\ lost'[s][x] = lost[s][x] + 1)
  <2>1. CASE UNCHANGED lost
    BY <1>1, <1>2, <2>1
  <2>2. CASE x \in Source /\ outcome = "collection" /\ lost' = [lost EXCEPT ![s][x] = lost[s][x] + 1]
    <3>1. lost[s] \in [Source -> Nat]
      BY <1>1, <1>2
    <3>2. PICK more \in Nat : more = lost[s][x] + 1
      BY <2>2, <3>1
    <3>3. PICK row : row = [lost[s] EXCEPT ![x] = more]
      OBVIOUS
    <3>4. /\ row \in [Source -> Nat] /\ row[x] = more /\ \A y \in Source : y # x => row[y] = lost[s][y]
      BY <2>2, <3>1, <3>3
    <3>5. lost' = [lost EXCEPT ![s] = row]
      BY <1>1, <1>2, <2>2, <3>2, <3>3
    <3> QED  BY <1>1, <1>2, <2>2, <3>2, <3>4, <3>5
  <2> QED  BY <2>1, <2>2
<1>4. version = 1 => \A t \in Step, y \in Source : /\ lost'[t][y] <= 1
                                                   /\ results'[t] = NoResult => lost'[t][y] = 0
  <2>1. SUFFICES ASSUME version = 1, NEW t \in Step, NEW y \in Source
                 PROVE  lost'[t][y] <= 1 /\ (results'[t] = NoResult => lost'[t][y] = 0)
    OBVIOUS
  <2>2. lost[t][y] <= 1 /\ (results[t] = NoResult => lost[t][y] = 0) /\ lost[t][y] \in Nat
    BY <1>2, <2>1 DEF PlanInv, RepeatsAreCounted
  <2> QED  BY <1>1, <1>3, <2>1, <2>2
<1>5. version # 1 /\ CodeIsDue => CodeIsDue'
  <2>1. SUFFICES ASSUME version # 1, NEW c \in OfKind(plan, "coding"), results[c].version # 1
                 PROVE  results'[c].version # 1
    BY <1>1 DEF CodeIsDue
  <2>2. c \in Step
    BY <1>2 DEF OfKind
  <2> QED  BY <1>1, <2>1, <2>2
<1>6. ASSUME NEW t \in Step, NEW y \in Source, lost'[t][y] >= 2
      PROVE  CodeIsDue' \/ (results'[t].outcome = "collection" /\ results'[t].source = y)
  <2>1. lost[t][y] >= 2 => CodeIsDue \/ (results[t].outcome = "collection" /\ results[t].source = y)
    BY DEF PlanInv, RepeatsAreCounted
  <2>2. lost'[t][y] = lost[t][y] \/ (t = s /\ y = x /\ outcome = "collection")
    BY <1>3
  <2>3. version # 1
    <3>1. lost'[t][y] \in Nat /\ (version = 1 => lost'[t][y] <= 1)
      BY <1>3, <1>4
    <3> QED  BY <1>6, <3>1
  <2> QED  BY <1>1, <1>2, <1>5, <1>6, <2>1, <2>2, <2>3
<1>7. pc' # "revising"
  OBVIOUS
<1> QED  BY <1>1, <1>3, <1>4, <1>6, <1>7 DEF RepeatsAreCounted

\* A step that is recorded, and is paid for unless the agent has repaired by itself.
LEMMA RecordKeeps ==
  ASSUME PlanInv, NEW s, Ready(s), NEW outcome \in Outcomes \ {"none"}, NEW x \in Source \cup {Nothing},
         Record(s, outcome, x), pc' \in {"executor", "out_of_repairs"},
         plan.kind[s] = "experiment" /\ outcome # "skipped" => x = results[CodeOf(s)].source,
         plan.kind[s] = "coding" /\ outcome = "done" => x \in Source,
         plan.kind[s] = "coding" => outcome \in {"done", "failed", "skipped"},
         used' \in [replans : Nat, repairs : Nat], inner' \in BOOLEAN,
         used'.repairs <= MaxRepairs, pc' = "out_of_repairs" => inner',
         ~inner' => /\ ~inner
                    /\ \/ used'.repairs = used.repairs
                       \/ plan.kind[s] = "coding" /\ used'.repairs = used.repairs + 1,
         \/ UNCHANGED lost
         \/ x \in Source /\ outcome = "collection" /\ lost' = [lost EXCEPT ![s][x] = lost[s][x] + 1]
  PROVE  PlanInv'
<1>1. /\ results' \in [Step -> StepResult] /\ UNCHANGED <<plan, version, issues, narrow>> /\ pc = "executor"
  BY RecordIs
<1>2. used.repairs \in Nat /\ used'.repairs \in Nat /\ MaxRepairs \in Nat /\ version \in Nat \ {0}
  BY RepairAssumption DEF PlanInv, PlanTypes
<1>3. RepeatsAreCounted' /\ lost' \in [Step -> [Source -> Nat]]
  BY RecordCounts
<1>4. PlanTypes'
  BY <1>1, <1>3 DEF PlanInv, PlanTypes, PlanNodes
<1>5. ResultsFit'
  BY RecordFits
<1>6. RevisionIsPaid'
  <2>1. version > 1 /\ ~inner' => used'.repairs + Cardinality(CodeToWrite') <= MaxRepairs
    <3>1. version > 1 /\ ~inner => used.repairs + Cardinality(CodeToWrite) <= MaxRepairs
      BY <1>1 DEF PlanInv, RevisionIsPaid
    <3>2. /\ Cardinality(CodeToWrite') \in Nat /\ Cardinality(CodeToWrite') <= Cardinality(CodeToWrite)
          /\ plan.kind[s] = "coding" => Cardinality(CodeToWrite') = Cardinality(CodeToWrite) - 1
          /\ Cardinality(CodeToWrite) \in Nat
      BY RecordLessens
    <3> QED  BY <1>2, <3>1, <3>2
  <2>2. WorkFitsTogether'
    BY DEF WorkFitsTogether
  <2> QED  BY <1>1, <2>1, <2>2 DEF RevisionIsPaid
<1> QED  BY <1>3, <1>4, <1>5, <1>6 DEF PlanInv

\* A step that writes no code costs no repair.
LEMMA FreeRecordKeeps ==
  ASSUME PlanInv, NEW s, Ready(s), NEW outcome \in Outcomes \ {"none"}, NEW x \in Source \cup {Nothing},
         Record(s, outcome, x), UNCHANGED <<pc, used, inner>>,
         plan.kind[s] = "experiment" /\ outcome # "skipped" => x = results[CodeOf(s)].source,
         plan.kind[s] # "coding" \/ outcome = "skipped",
         \/ UNCHANGED lost
         \/ x \in Source /\ outcome = "collection" /\ lost' = [lost EXCEPT ![s][x] = lost[s][x] + 1]
  PROVE  PlanInv'
<1>1. pc' = "executor" /\ used' = used /\ inner' = inner
  BY DEF Ready
<1>2. /\ used' \in [replans : Nat, repairs : Nat] /\ inner' \in BOOLEAN
      /\ used'.repairs <= MaxRepairs /\ used'.repairs = used.repairs
  BY <1>1 DEF PlanInv, PlanTypes, RevisionIsPaid
<1>3. ~inner' => ~inner /\ used'.repairs = used.repairs
  BY <1>1, <1>2
<1> QED  BY <1>1, <1>2, <1>3, RecordKeeps

LEMMA SkipKeeps == ASSUME PlanInv, NEW s \in Step, Skip(s) PROVE PlanInv'
<1>1. /\ Ready(s) /\ Record(s, "skipped", Nothing) /\ UNCHANGED <<pc, lost, used, inner>>
      /\ "skipped" \in Outcomes \ {"none"} /\ Nothing \in Source \cup {Nothing}
  BY DEF Skip, Outcomes
<1> QED  BY <1>1, FreeRecordKeeps

LEMMA ResearchKeeps == ASSUME PlanInv, NEW s \in Step, Research(s) PROVE PlanInv'
<1>1. PICK outcome \in {"done", "unproven", "failed"} : Record(s, outcome, Nothing)
  BY DEF Research
<1>2. /\ Ready(s) /\ UNCHANGED <<pc, lost, used, inner>> /\ plan.kind[s] = "research"
      /\ outcome \in Outcomes \ {"none"} /\ Nothing \in Source \cup {Nothing}
  BY DEF Research, May, Outcomes
<1> QED  BY <1>1, <1>2, FreeRecordKeeps

\* Where the agent has not repaired by itself, the budget refuses no code: the revision
\* was accepted only with its charges left, and the first plan charges nothing.
LEMMA CodeKeeps == ASSUME PlanInv, NEW s \in Step, Code(s) PROVE PlanInv'
<1>1. Ready(s) /\ plan.kind[s] = "coding" /\ UNCHANGED lost /\ pc = "executor"
  BY DEF Code, May, Ready
<1>2. /\ used \in [replans : Nat, repairs : Nat] /\ MaxRepairs \in Nat /\ version \in Nat \ {0}
      /\ used.repairs \in Nat /\ used.repairs <= MaxRepairs /\ inner \in BOOLEAN /\ AgentRepairs \in Nat
  BY RepairAssumption DEF PlanInv, PlanTypes, RevisionIsPaid
<1>3. PICK cost \in Nat : cost = IF version > 1 THEN 1 ELSE 0
  OBVIOUS
<1>4. PICK own \in 0 .. AgentRepairs :
        LET spent == used.repairs + own + cost
        IN  /\ pc' = IF spent > MaxRepairs THEN "out_of_repairs" ELSE pc
            /\ used' = [used EXCEPT !.repairs = IF spent > MaxRepairs THEN MaxRepairs ELSE spent]
            /\ inner' = (inner \/ own > 0)
            /\ \/ spent <= MaxRepairs /\ \E x \in Source : Record(s, "done", x)
               \/ Record(s, "failed", Nothing)
  BY <1>3 DEF Code
<1>5. PICK spent \in Nat : spent = used.repairs + own + cost
  BY <1>2
<1>6. PICK rest \in Nat : rest = IF spent > MaxRepairs THEN MaxRepairs ELSE spent
  BY <1>2, <1>5
<1>7. /\ pc' = IF spent > MaxRepairs THEN "out_of_repairs" ELSE pc
      /\ used' = [used EXCEPT !.repairs = rest]
      /\ inner' = (inner \/ own > 0)
      /\ \/ \E x \in Source : Record(s, "done", x)
         \/ Record(s, "failed", Nothing)
  BY <1>4, <1>5, <1>6
<1>8. used' \in [replans : Nat, repairs : Nat] /\ used'.repairs = rest /\ rest <= MaxRepairs
  BY <1>2, <1>5, <1>6, <1>7
<1>9. inner' \in BOOLEAN /\ pc' \in {"executor", "out_of_repairs"}
  BY <1>1, <1>2, <1>7
<1>10. ~inner' => spent <= MaxRepairs /\ spent = used.repairs + cost /\ ~inner
  <2>1. SUFFICES ASSUME ~inner' PROVE spent <= MaxRepairs /\ spent = used.repairs + cost /\ ~inner
    OBVIOUS
  <2>2. ~inner /\ ~(own > 0)
    BY <1>7, <2>1
  <2>3. spent = used.repairs + cost
    BY <1>2, <1>5, <2>2
  <2>4. CASE version > 1
    <3>1. s \in CodeToWrite /\ CodeToWrite \in SUBSET Step
      BY <1>1 DEF Ready, CodeToWrite, OfKind, PlanInv, PlanTypes, PlanShape
    <3>2. IsFiniteSet(CodeToWrite) /\ Cardinality(CodeToWrite) \in Nat /\ Cardinality(CodeToWrite) # 0
      BY <3>1, StepsAreFinite, FS_EmptySet
    <3>3. used.repairs + Cardinality(CodeToWrite) <= MaxRepairs
      BY <1>1, <2>2, <2>4 DEF PlanInv, RevisionIsPaid
    <3> QED  BY <1>2, <1>3, <2>2, <2>3, <3>2, <3>3
  <2>5. CASE ~(version > 1)
    BY <1>2, <1>3, <2>2, <2>3, <2>5
  <2> QED  BY <2>4, <2>5
<1>11. pc' = "out_of_repairs" => inner'
  <2>1. pc' = "out_of_repairs" => spent > MaxRepairs
    BY <1>1, <1>7
  <2> QED  BY <1>2, <1>5, <1>10, <2>1
<1>12. ~inner' => /\ ~inner
                  /\ \/ used'.repairs = used.repairs
                     \/ plan.kind[s] = "coding" /\ used'.repairs = used.repairs + 1
  BY <1>1, <1>2, <1>3, <1>5, <1>6, <1>8, <1>10
<1>13. {"done", "failed"} \subseteq Outcomes \ {"none"} /\ Nothing \in Source \cup {Nothing}
  BY DEF Outcomes
<1>14. used'.repairs <= MaxRepairs
  BY <1>8
<1>15. ASSUME NEW x \in Source, Record(s, "done", x) PROVE PlanInv'
  BY <1>1, <1>8, <1>9, <1>11, <1>12, <1>13, <1>14, <1>15, RecordKeeps
<1>16. CASE Record(s, "failed", Nothing)
  BY <1>1, <1>8, <1>9, <1>11, <1>12, <1>13, <1>14, <1>16, RecordKeeps
<1> QED  BY <1>7, <1>15, <1>16

LEMMA TrainKeeps == ASSUME PlanInv, NEW s \in Step, Train(s) PROVE PlanInv'
<1>1. /\ Ready(s) /\ plan.kind[s] = "experiment" /\ UNCHANGED <<pc, used, inner>> /\ pc = "executor"
      /\ \A d \in plan.deps[s] : ~Failed(d)
  BY DEF Train, May, Ready
<1>2. PICK x : x = results[CodeOf(s)].source
  OBVIOUS
<1>3. x \in Source
  <2>1. plan \in PlanShape /\ IsGraph(plan) /\ s \in OfKind(plan, "experiment")
    BY <1>1 DEF PlanInv, PlanTypes, Ready, OfKind
  <2>2. CodeOf(s) \in plan.deps[s] /\ plan.kind[CodeOf(s)] = "coding" /\ CodeOf(s) \in plan.ids
    BY <2>1, CodeOfIs
  <2>3. results[CodeOf(s)] # NoResult /\ ~Failed(CodeOf(s))
    BY <1>1, <2>2 DEF Ready
  <2>4. FitsItsSources(CodeOf(s))
    BY <2>2, <2>3 DEF PlanInv, ResultsFit
  <2> QED  BY <1>2, <2>2, <2>3, <2>4 DEF FitsItsSources
<1>4. {"done", "failed", "collection"} \subseteq Outcomes \ {"none"} /\ x \in Source \cup {Nothing}
  BY <1>3 DEF Outcomes
<1>5. ASSUME NEW outcome \in {"done", "failed"}, Record(s, outcome, x), UNCHANGED lost PROVE PlanInv'
  BY <1>1, <1>2, <1>4, <1>5, FreeRecordKeeps
<1>6. CASE Record(s, "collection", x) /\ lost' = [lost EXCEPT ![s][x] = lost[s][x] + 1]
  BY <1>1, <1>2, <1>3, <1>4, <1>6, FreeRecordKeeps
<1> QED  BY <1>2, <1>5, <1>6 DEF Train

LEMMA WriteKeeps == ASSUME PlanInv, NEW s \in Step, Write(s) PROVE PlanInv'
<1>1. /\ pc \in {"executor", "judging", "replanner", "revising"}
      /\ UNCHANGED <<pc, plan, version, results, issues, narrow, lost, used, inner>>
  BY DEF Write, PlanInv, PlanTypes, PlanNodes
<1>2. PlanTypes'
  BY <1>1 DEF PlanInv, PlanTypes
<1>3. ResultsFit'
  BY <1>1 DEF PlanInv, ResultsFit, FitsItsSources, Failed
<1>4. RevisionIsPaid'
  BY <1>1 DEF PlanInv, RevisionIsPaid, WorkFitsTogether, Affordable, CodeToWrite
<1>5. RepeatsAreCounted'
  BY <1>1 DEF PlanInv, RepeatsAreCounted, CodeIsDue, Exhausted, Uncollected, Attempts
<1> QED  BY <1>2, <1>3, <1>4, <1>5 DEF PlanInv

LEMMA ReviewStarts == ASSUME PlanInv, StartReview PROVE PlanInv'
<1>1. /\ pc = "executor" /\ \A s \in plan.ids : results[s] # NoResult
      /\ UNCHANGED <<plan, version, results, space, narrow, lost, used, inner, writes>>
  BY DEF StartReview
<1>2. CASE RunFails /\ UNCHANGED issues
  BY <1>1, <1>2, RunEndsKeep DEF RunFails
<1>3. CASE pc' = "judging" /\ issues' = [NoIssues EXCEPT !.steps = Rules]
  <2>1. issues'.steps \in SUBSET Step
    BY <1>3 DEF NoIssues, Rules, PlanInv, PlanTypes, PlanShape
  <2>2. PlanTypes'
    BY <1>1, <1>3, <2>1 DEF PlanInv, PlanTypes, PlanNodes
  <2>3. ResultsFit'
    BY <1>1, <1>3 DEF PlanInv, ResultsFit, FitsItsSources, Failed
  <2>4. RevisionIsPaid'
    BY <1>1, <1>3 DEF PlanInv, RevisionIsPaid, WorkFitsTogether
  <2>5. RepeatsAreCounted'
    BY <1>1, <1>3 DEF PlanInv, RepeatsAreCounted, CodeIsDue
  <2> QED  BY <2>2, <2>3, <2>4, <2>5 DEF PlanInv
<1> QED  BY <1>2, <1>3 DEF StartReview

\* Where nothing is blamed, every step is done, intact and made from what is there.
LEMMA ReviewEnds == ASSUME PlanInv, EndReview PROVE PlanInv'
<1>1. PICK found \in SUBSET plan.ids, plain \in BOOLEAN :
        /\ issues' = [steps |-> issues.steps \cup found \cup Rules, plain |-> plain]
        /\ pc' = IF issues'.steps = {} THEN "passed" ELSE "replanner"
  BY DEF EndReview
<1>2. pc = "judging" /\ UNCHANGED <<plan, version, results, space, narrow, lost, used, inner, writes>>
  BY DEF EndReview
<1>3. issues'.steps = issues.steps \cup found \cup Rules
  BY <1>1
<1>4. issues'.steps \in SUBSET Step
  BY <1>3 DEF Rules, PlanInv, PlanTypes, PlanShape
<1>5. PlanTypes'
  BY <1>1, <1>2, <1>4 DEF PlanInv, PlanTypes, PlanNodes
<1>6. \A s \in plan.ids : results[s] # NoResult /\ FitsItsSources(s)
  BY <1>2 DEF PlanInv, ResultsFit
<1>7. ResultsFit'
  BY <1>1, <1>2, <1>3 DEF PlanInv, ResultsFit, FitsItsSources, Failed, Rules
<1>8. WorkFitsTogether'
  <2>1. SUFFICES ASSUME pc' = "passed", NEW s \in plan.ids
                 PROVE  /\ results[s].outcome = "done" /\ Intact(s)
                        /\ results[s].seen = {<<d, results[d].version>> : d \in plan.deps[s]}
                        /\ plan.kind[s] = "experiment" => results[s].source = results[CodeOf(s)].source
    BY <1>1, <1>2 DEF WorkFitsTogether, Intact, CodeOf
  <2>2. s \notin Rules
    BY <1>1, <1>3, <2>1
  <2>3. ~Failed(s) /\ results[s].outcome # "unproven" /\ Intact(s)
    BY <2>1, <2>2 DEF Rules
  <2>4. s \in Step /\ results[s].outcome # "none" /\ results[s].outcome \in Outcomes
    BY <1>6, <2>1 DEF PlanInv, ResultsFit, PlanTypes, PlanShape, StepResult
  <2>5. results[s].outcome = "done"
    BY <2>3, <2>4 DEF Failed, Outcomes
  <2>6. ASSUME plan.kind[s] = "experiment" PROVE results[s].source = results[CodeOf(s)].source
    <3>1. CodeOf(s) \in plan.deps[s] /\ plan.kind[CodeOf(s)] = "coding"
      BY <2>1, <2>6, CodeOfIs DEF OfKind, PlanInv, PlanTypes
    <3> QED  BY <1>6, <2>1, <2>5, <2>6, <3>1 DEF FitsItsSources
  <2> QED  BY <1>6, <2>1, <2>3, <2>5, <2>6 DEF FitsItsSources
<1>9. RevisionIsPaid'
  BY <1>1, <1>2, <1>8 DEF PlanInv, RevisionIsPaid
<1>10. RepeatsAreCounted'
  BY <1>1, <1>2 DEF PlanInv, RepeatsAreCounted, CodeIsDue
<1> QED  BY <1>5, <1>7, <1>9, <1>10 DEF PlanInv

LEMMA ReplanStarts == ASSUME PlanInv, StartReplan PROVE PlanInv'
<1>1. pc = "replanner" /\ UNCHANGED <<plan, version, results, space, issues, lost, inner, writes>>
  BY DEF StartReplan
<1>2. CASE pc' \in {"failed", "out_of_replans"} /\ UNCHANGED <<used, narrow>>
  BY <1>1, <1>2, RunEndsKeep
<1>3. CASE /\ ~Exhausted /\ Affordable(plan, Downstream(plan, issues.steps))
           /\ used' = [used EXCEPT !.replans = used.replans + 1] /\ narrow' = RetrySteps /\ pc' = "revising"
  <2>1. used' \in [replans : Nat, repairs : Nat] /\ used'.repairs = used.repairs
    <3>1. used \in [replans : Nat, repairs : Nat]
      BY DEF PlanInv, PlanTypes
    <3>2. PICK more \in Nat : more = used.replans + 1
      BY <3>1
    <3>3. used' = [used EXCEPT !.replans = more]
      BY <1>3, <3>2
    <3> QED  BY <3>1, <3>3
  <2>2. narrow' # {} => version = 1 /\ narrow' = Uncollected
    BY <1>3 DEF RetrySteps, Recoverable
  <2>3. Uncollected \subseteq issues.steps
    BY <1>1 DEF Uncollected, Failed, PlanInv, ResultsFit
  <2>4. PlanTypes'
    BY <1>1, <1>3, <2>1, <2>2, <2>3 DEF PlanInv, PlanTypes, PlanNodes
  <2>5. ResultsFit'
    BY <1>1, <1>3 DEF PlanInv, ResultsFit, FitsItsSources, Failed
  <2>6. RevisionIsPaid'
    BY <1>1, <1>3, <2>1, <2>2, <2>3 DEF PlanInv, RevisionIsPaid, WorkFitsTogether, Affordable
  <2>7. RepeatsAreCounted'
    BY <1>1, <1>3, <2>1, <2>2 DEF PlanInv, RepeatsAreCounted, CodeIsDue, Exhausted, Uncollected, Attempts
  <2> QED  BY <2>4, <2>5, <2>6, <2>7 DEF PlanInv
<1> QED  BY <1>2, <1>3 DEF StartReplan, RunFails

\* The results that a revision keeps are kept with all they were made from; what it
\* gives up it can pay; and where a collection failed twice some code is given up.
LEMMA ReviseKeeps ==
  ASSUME PlanInv, pc = "revising", NEW p \in PlanShape, IsGraph(p), NEW gone \in SUBSET Step,
         HasDependants(p, gone), plan.ids \subseteq p.ids, \A s \in plan.ids : p.kind[s] = plan.kind[s],
         \A s \in p.ids \ gone : s \in plan.ids /\ p.deps[s] = plan.deps[s],
         version = 1 \/ Downstream(plan, issues.steps) \subseteq gone,
         Affordable(p, gone), Revise(p, gone), UNCHANGED <<lost, used>>
  PROVE  PlanInv'
<1>1. /\ plan' = p /\ version' = version + 1 /\ narrow' = {} /\ issues' = NoIssues /\ pc' = "executor"
      /\ inner' = FALSE
      /\ results' = [s \in Step |-> IF s \in gone THEN NoResult ELSE results[s]]
  BY DEF Revise
<1>2. /\ plan \in PlanShape /\ IsGraph(plan) /\ plan.ids \subseteq Step /\ p.ids \subseteq Step
      /\ version \in Nat \ {0} /\ results \in [Step -> StepResult] /\ issues.steps \in SUBSET Step
      /\ used.repairs \in Nat /\ used.repairs <= MaxRepairs
  BY DEF PlanInv, PlanTypes, PlanShape, RevisionIsPaid
<1>3. NoResult \in StepResult /\ NoResult.version = 0 /\ NoResult.outcome = "none"
  BY DEF NoResult, StepResult, Outcomes
<1>4. /\ \A s \in gone : results'[s] = NoResult
      /\ \A s \in Step \ gone : results'[s] = results[s]
  BY <1>1
<1>5. \A s \in plan.ids : results[s] # NoResult /\ FitsItsSources(s)
  BY DEF PlanInv, ResultsFit
<1>6. version' \in Nat \ {0} /\ version' > 1
  BY <1>1, <1>2
<1>7. PlanTypes'
  <2>1. results' \in [Step -> StepResult]
    BY <1>1, <1>2, <1>3
  <2> QED  BY <1>1, <1>6, <2>1 DEF PlanInv, PlanTypes, PlanNodes, NoIssues
<1>8. ResultsFit'
  <2>1. \A s \in Step : \/ results'[s] = NoResult
                        \/ s \in p.ids /\ results'[s].outcome # "none" /\ results'[s].version # 0
    BY <1>4 DEF PlanInv, ResultsFit
  <2>2. ASSUME NEW s \in p.ids, results'[s] # NoResult PROVE FitsItsSources(s)'
    <3>1. s \in Step /\ s \notin gone /\ s \in plan.ids /\ p.deps[s] = plan.deps[s] /\ p.kind[s] = plan.kind[s]
          /\ results'[s] = results[s]
      BY <1>2, <1>4, <2>2
    <3>2. \A d \in p.deps[s] : d \in plan.ids /\ d \in Step /\ d \notin gone
      BY <1>2, <3>1 DEF HasDependants, IsGraph
    <3>3. \A d \in p.deps[s] : results'[d] = results[d] /\ p.kind[d] = plan.kind[d]
      BY <1>4, <3>2
    <3>4. FitsItsSources(s)
      BY <1>5, <3>1
    <3>5. {<<d, results'[d].version>> : d \in p.deps[s]} = {<<d, results[d].version>> : d \in plan.deps[s]}
      BY <3>1, <3>3
    <3>6. \A d \in p.deps[s] : results'[d] # NoResult
      BY <3>1, <3>3, <3>4 DEF FitsItsSources
    <3>7. results'[s].seen = {<<d, results'[d].version>> : d \in p.deps[s]}
      BY <3>1, <3>4, <3>5 DEF FitsItsSources
    <3>8. p.kind[s] = "experiment" /\ results'[s].outcome # "skipped" =>
            \A d \in p.deps[s] : p.kind[d] = "coding" => results'[s].source = results'[d].source
      BY <3>1, <3>3, <3>4 DEF FitsItsSources
    <3>9. p.kind[s] = "coding" /\ results'[s].outcome \notin {"failed", "skipped", "collection"} =>
            results'[s].source \in Source
      BY <3>1, <3>4 DEF FitsItsSources, Failed
    <3> QED  BY <1>1, <3>6, <3>7, <3>8, <3>9 DEF FitsItsSources, Failed
  <2> QED  BY <1>1, <2>1, <2>2 DEF ResultsFit
<1>9. RevisionIsPaid'
  <2>1. CodeToWrite' = gone \cap OfKind(p, "coding")
    BY <1>1, <1>2, <1>4, <1>5 DEF CodeToWrite, OfKind
  <2>2. Cardinality(gone \cap OfKind(p, "coding")) + used.repairs <= MaxRepairs
    BY DEF Affordable, Repairs
  <2>3. Cardinality(gone \cap OfKind(p, "coding")) \in Nat
    BY StepsAreFinite
  <2>4. used'.repairs + Cardinality(CodeToWrite') <= MaxRepairs
    <3>1. PICK n \in Nat : n = Cardinality(gone \cap OfKind(p, "coding"))
      BY <2>3
    <3>2. n + used.repairs <= MaxRepairs /\ Cardinality(CodeToWrite') = n
      BY <2>1, <2>2, <3>1
    <3>3. used.repairs + n <= MaxRepairs
      BY <1>2, <3>2, RepairAssumption
    <3> QED  BY <3>2, <3>3
  <2> QED  BY <1>1, <1>2, <1>6, <2>4 DEF RevisionIsPaid, WorkFitsTogether
<1>10. \A c \in OfKind(plan, "coding") : c \in Step /\ c \in plan.ids /\ c \in OfKind(p, "coding")
  BY <1>2 DEF OfKind
<1>11. ASSUME NEW c \in OfKind(plan, "coding"), c \in gone \/ results[c].version # 1 PROVE CodeIsDue'
  <2>1. c \in OfKind(plan', "coding") /\ results'[c].version # 1
    BY <1>1, <1>3, <1>4, <1>10, <1>11
  <2> QED  BY <2>1 DEF CodeIsDue
<1>12. RepeatsAreCounted'
  <2>1. ASSUME NEW s \in Step, NEW x \in Source, lost[s][x] >= 2
        PROVE  CodeIsDue'
    <3>1. version # 1
      <4>1. version = 1 => lost[s][x] <= 1
        BY DEF PlanInv, RepeatsAreCounted
      <4>2. lost[s][x] \in Nat
        BY DEF PlanInv, PlanTypes
      <4> QED  BY <2>1, <4>1, <4>2
    <3>2. version > 1 /\ Downstream(plan, issues.steps) \subseteq gone
      BY <1>2, <3>1
    <3>3. CodeIsDue \/ (results[s].outcome = "collection" /\ results[s].source = x)
      BY <2>1 DEF PlanInv, RepeatsAreCounted
    <3>4. CASE CodeIsDue
      BY <1>11, <3>4 DEF CodeIsDue
    <3>5. CASE results[s].outcome = "collection" /\ results[s].source = x
      <4>1. s \in Uncollected /\ Attempts(s) >= 2
        BY <1>3, <2>1, <3>5 DEF Uncollected, Attempts, PlanInv, ResultsFit
      <4>2. Repairs(plan, Downstream(plan, issues.steps)) # 0
        BY <3>2, <4>1 DEF Exhausted, PlanInv, RepeatsAreCounted
      <4>3. Downstream(plan, issues.steps) \cap OfKind(plan, "coding") # {}
        BY <4>2, FS_EmptySet DEF Repairs
      <4> QED  BY <1>11, <3>2, <4>3
    <3> QED  BY <3>3, <3>4, <3>5
  <2> QED  BY <1>1, <1>6, <2>1 DEF RepeatsAreCounted
<1> QED  BY <1>7, <1>8, <1>9, <1>12 DEF PlanInv

LEMMA RetryKeeps == ASSUME PlanInv, Retry PROVE PlanInv'
<1>1. pc = "revising" /\ narrow # {} /\ UNCHANGED <<lost, used, writes>>
  BY DEF Retry
<1>2. /\ plan \in PlanShape /\ IsGraph(plan) /\ plan.ids \subseteq Step
      /\ narrow \in SUBSET Step /\ issues.steps \in SUBSET Step /\ narrow \subseteq issues.steps /\ version = 1
      /\ Affordable(plan, Downstream(plan, issues.steps))
  BY <1>1 DEF PlanInv, PlanTypes, PlanShape, RevisionIsPaid, RepeatsAreCounted
<1>3. CASE RunFails /\ UNCHANGED <<plan, version, results, space, issues, narrow, inner>>
  BY <1>1, <1>3, RunEndsKeep DEF RunFails
<1>4. CASE Revise(plan, Downstream(plan, narrow))
  <2>1. PICK gone : gone = Downstream(plan, narrow)
    OBVIOUS
  <2>2. gone \in SUBSET Step /\ HasDependants(plan, gone) /\ gone \subseteq Downstream(plan, issues.steps)
        /\ Downstream(plan, issues.steps) \in SUBSET Step
    BY <1>2, <2>1, DownstreamHas, DownstreamIsClosed, DownstreamGrows
  <2>3. \A s \in plan.ids \ gone : s \in plan.ids /\ plan.deps[s] = plan.deps[s]
    OBVIOUS
  <2>4. Affordable(plan, gone)
    <3>1. PICK all : all = Downstream(plan, issues.steps) \cap OfKind(plan, "coding")
      OBVIOUS
    <3>2. PICK some : some = gone \cap OfKind(plan, "coding")
      OBVIOUS
    <3>3. some \subseteq all /\ all \in SUBSET Step
      BY <2>2, <3>1, <3>2
    <3>4. IsFiniteSet(all) /\ Cardinality(all) \in Nat
      BY <3>3, StepsAreFinite
    <3>5. Cardinality(some) <= Cardinality(all)
      BY <3>3, <3>4, FS_Subset
    <3>6. Cardinality(some) \in Nat
      BY <3>3, StepsAreFinite
    <3>7. Cardinality(all) + used.repairs <= MaxRepairs
      BY <1>2, <3>1 DEF Affordable, Repairs
    <3>8. used.repairs \in Nat /\ MaxRepairs \in Nat
      BY RepairAssumption DEF PlanInv, PlanTypes
    <3>9. Cardinality(some) + used.repairs <= MaxRepairs
      BY <3>4, <3>5, <3>6, <3>7, <3>8
    <3> QED  BY <3>2, <3>9 DEF Affordable, Repairs
  <2> QED  BY <1>1, <1>2, <1>4, <2>1, <2>2, <2>3, <2>4, ReviseKeeps
<1> QED  BY <1>3, <1>4 DEF Retry

LEMMA ReplanKeeps == ASSUME PlanInv, Replan PROVE PlanInv'
<1>1. pc = "revising" /\ UNCHANGED <<lost, used, writes>> /\ plan \in PlanShape /\ issues.steps \in SUBSET Step
  BY DEF Replan, PlanInv, PlanTypes
<1>2. CASE RunFails /\ UNCHANGED <<plan, version, results, space, issues, narrow, inner>>
  BY <1>1, <1>2, RunEndsKeep DEF RunFails
<1>3. ASSUME NEW p \in Plans, NEW touched \in SUBSET Step, IsRevision(p, touched), Revise(p, Downstream(p, touched))
      PROVE  PlanInv'
  <2>1. p \in PlanShape /\ IsGraph(p)
    BY <1>3 DEF Plans, PlanShape, IsPlan
  <2>2. PICK gone : gone = Downstream(p, touched)
    OBVIOUS
  <2>3. /\ gone \in SUBSET Step /\ HasDependants(p, gone) /\ touched \subseteq gone
        /\ Downstream(plan, issues.steps) \subseteq gone
    BY <1>1, <1>3, <2>1, <2>2, DownstreamHas, DownstreamIsClosed, RevisionCovers
  <2>4. /\ plan.ids \subseteq p.ids /\ \A s \in plan.ids : p.kind[s] = plan.kind[s]
        /\ \A s \in p.ids \ gone : s \in plan.ids /\ p.deps[s] = plan.deps[s]
        /\ Affordable(p, gone)
    BY <1>3, <2>2, <2>3 DEF IsRevision
  <2> QED  BY <1>1, <1>3, <2>1, <2>2, <2>3, <2>4, ReviseKeeps
<1> QED  BY <1>2, <1>3 DEF Replan

LEMMA AbandonKeeps == ASSUME PlanInv, Abandon PROVE PlanInv'
  BY RunEndsKeep DEF Abandon, RunFails

LEMMA PlanInductive == ASSUME PlanInv, [PlanNext]_planVars PROVE PlanInv'
<1>1. CASE UNCHANGED planVars
  <2>1. UNCHANGED <<pc, plan, version, results, space, issues, narrow, lost, used, inner>>
    BY <1>1 DEF planVars
  <2>2. PlanTypes' /\ ResultsFit'
    BY <2>1 DEF PlanInv, PlanTypes, ResultsFit, FitsItsSources, Failed
  <2>3. RevisionIsPaid'
    BY <2>1 DEF PlanInv, RevisionIsPaid, WorkFitsTogether, Affordable, CodeToWrite, Intact, CodeOf
  <2>4. RepeatsAreCounted'
    BY <2>1 DEF PlanInv, RepeatsAreCounted, CodeIsDue, Exhausted, Uncollected, Attempts
  <2> QED  BY <2>2, <2>3, <2>4 DEF PlanInv
<1>2. CASE \E s \in Step : Skip(s) \/ Research(s) \/ Code(s) \/ Train(s) \/ Write(s)
  BY <1>2, SkipKeeps, ResearchKeeps, CodeKeeps, TrainKeeps, WriteKeeps
<1>3. CASE Planner \/ StartReview \/ EndReview \/ StartReplan \/ Retry \/ Replan \/ Abandon
  BY <1>3, PlannerPlans, ReviewStarts, ReviewEnds, ReplanStarts, RetryKeeps, ReplanKeeps, AbandonKeeps
<1> QED  BY <1>1, <1>2, <1>3 DEF PlanNext

\* Only a training whose collection fails loses one more, and only on the source of
\* the code it depends on.
LEMMA OnlyTrainingLoses ==
  ASSUME PlanInv, PlanNext, NEW s \in Step, NEW x \in Source, lost'[s][x] > lost[s][x]
  PROVE  results[s] = NoResult /\ lost'[s][x] = lost[s][x] + 1
<1>1. lost \in [Step -> [Source -> Nat]]
  BY DEF PlanInv, PlanTypes
<1>2. lost' # lost
  <2>1. lost[s][x] \in Nat
    BY <1>1
  <2>2. ~(lost[s][x] > lost[s][x])
    BY <2>1
  <2> QED  BY <2>2
<1>3. PICK t \in Step : Train(t)
  BY <1>2 DEF PlanNext, Planner, Skip, Research, Code, Write, StartReview, EndReview, StartReplan, Retry,
     Replan, Abandon
<1>4. PICK y : y = results[CodeOf(t)].source /\ lost' = [lost EXCEPT ![t][y] = lost[t][y] + 1]
  BY <1>2, <1>3 DEF Train
<1>5. results[t] = NoResult
  BY <1>3 DEF Train, May, Ready
<1>6. lost[s] \in [Source -> Nat] /\ lost[s][x] \in Nat
  BY <1>1
<1>7. PICK row : row = [lost[t] EXCEPT ![y] = lost[t][y] + 1]
  OBVIOUS
<1>8. lost' = [lost EXCEPT ![t] = row]
  BY <1>4, <1>7
<1>9. s = t
  <2>1. SUFFICES ASSUME s # t PROVE FALSE
    OBVIOUS
  <2>2. lost'[s] = lost[s]
    BY <1>1, <1>8, <2>1
  <2>3. lost[s][x] > lost[s][x]
    BY <2>2
  <2> QED  BY <1>6, <2>3
<1>10. lost'[s] = row /\ row = [lost[s] EXCEPT ![y] = lost[s][y] + 1]
  BY <1>1, <1>7, <1>8, <1>9
<1>11. x = y
  <2>1. SUFFICES ASSUME x # y PROVE FALSE
    OBVIOUS
  <2>2. row[x] = lost[s][x]
    BY <1>6, <1>10, <2>1
  <2>3. lost[s][x] > lost[s][x]
    BY <1>10, <2>2
  <2> QED  BY <1>6, <2>3
<1> QED  BY <1>5, <1>6, <1>9, <1>10, <1>11

LEMMA RepeatIsForRepair ==
  ASSUME PlanInv, [PlanNext]_planVars
  PROVE  [\A s \in Step, x \in Source :
            LostAgain(s, x) => \E c \in OfKind(plan, "coding") : results[c].version # 1]_planVars
<1>1. SUFFICES ASSUME PlanNext, NEW s \in Step, NEW x \in Source, LostAgain(s, x)
               PROVE  CodeIsDue
  BY DEF CodeIsDue
<1>2. lost'[s][x] > lost[s][x] /\ lost'[s][x] > 2
  BY <1>1 DEF LostAgain
<1>3. results[s] = NoResult /\ lost'[s][x] = lost[s][x] + 1
  BY <1>1, <1>2, OnlyTrainingLoses
<1>4. lost[s][x] \in Nat
  BY DEF PlanInv, PlanTypes
<1>5. lost[s][x] >= 2
  BY <1>1, <1>2, <1>3, <1>4
<1>6. results[s].outcome # "collection"
  BY <1>3 DEF NoResult
<1> QED  BY <1>5, <1>6 DEF PlanInv, RepeatsAreCounted

\* A run that passed rests on work that belongs together, whatever was blamed, revised
\* and given up on the way; and no coding step of an accepted revision is refused by
\* the budget of repairs unless the agent has spent some on repairs of its own under
\* the same plan: for every number of steps, replans and repairs of either kind
\* (orchestration/service.py _revision_affected, _rules, _check_code_repair_budget,
\* coding/agent.py:675).
THEOREM WorkStaysTogether == PlanSpec => []WorkFitsTogether
<1>1. PlanInit => PlanInv
  BY PlanInitial
<1>2. PlanInv /\ [PlanNext]_planVars => PlanInv'
  BY PlanInductive
<1>3. PlanInv => WorkFitsTogether
  BY PlanSound
<1> QED  BY <1>1, <1>2, <1>3, PTL DEF PlanSpec

\* No training whose collection failed twice is tried again on that source while all
\* source is that of the first plan (_check_repeated_collection_failure).
THEOREM NoIdleRepeat == PlanSpec => RepeatsAreForRepairs
<1>1. PlanInit => PlanInv
  BY PlanInitial
<1>2. PlanInv /\ [PlanNext]_planVars => PlanInv'
  BY PlanInductive
<1>3. PlanInv /\ [PlanNext]_planVars =>
        [\A s \in Step, x \in Source :
            LostAgain(s, x) => \E c \in OfKind(plan, "coding") : results[c].version # 1]_planVars
  BY RepeatIsForRepair
<1> QED  BY <1>1, <1>2, <1>3, PTL DEF PlanSpec, RepeatsAreForRepairs
=============================================================================
