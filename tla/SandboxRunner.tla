--------------------------- MODULE SandboxRunner ---------------------------
(***************************************************************************)
(* The sandbox manager and the container engine.  A request is admitted to *)
(* a slot; its execution creates a volume, a loader that receives the      *)
(* source and a runner, waits for the runner, and removes all three. Every *)
(* call of the engine may fail before or after it had its effect, and the  *)
(* caller may go away at any time.  The slot is given back when everything *)
(* was removed or the log says that it could not be.                       *)
(***************************************************************************)
EXTENDS Naturals, FiniteSets

CONSTANTS
    Op,             \* requests
    MaxConcurrent   \* sandbox_manager_max_concurrent

ASSUME SandboxAssumption == IsFiniteSet(Op) /\ MaxConcurrent \in Nat \ {0}

VARIABLES
    spc,        \* of each request
    active,     \* ManagerBoundary.active
    caller,     \* "waits", "left", "answered", or "failed"
    refs,       \* the containers the execution knows a name or an id of
    result,     \* of the execution
    objs,       \* the engine's objects
    running,    \* the containers that run
    late, tardy,    \* creations the client gave up on: to be carried out, carried out
    logged      \* sandbox_cleanup_incomplete

sandboxVars == <<spc, active, caller, refs, result, objs, running, late, tardy, logged>>
engine == <<objs, running, late, tardy>>

Kind == {"volume", "loader", "runner"}
\* The engine calls of an execution in their order, and those of its cleanup.
EngineCalls == {"create_volume", "check_volume", "create_loader", "check_loader", "start_loader",
          "upload", "unload", "create_runner", "check_runner", "start_runner",
          "wait", "kill", "logs", "artifacts"}
Cleaning == {"clean_loader", "clean_runner", "clean_volume"}
Creates == [create_volume |-> "volume", create_loader |-> "loader", create_runner |-> "runner"]
Starts == [start_loader |-> "loader", start_runner |-> "runner"]

SandboxInit ==
    /\ spc = [op \in Op |-> "out"] /\ active = 0
    /\ caller = [op \in Op |-> "waits"]
    /\ refs = [op \in Op |-> {}]
    /\ result = [op \in Op |-> "none"]
    /\ objs = {} /\ running = {} /\ late = {} /\ tardy = {}
    /\ logged = {}

(***************************************************************************)
(* The boundary and the route.                                             *)
(***************************************************************************)
TakesSlot(op) ==
    /\ spc[op] = "out" /\ active < MaxConcurrent
    /\ active' = active + 1
    /\ spc' = [spc EXCEPT ![op] = "reads"]
    /\ UNCHANGED <<caller, refs, result, engine, logged>>

Busy(op) ==
    /\ spc[op] = "out" /\ active >= MaxConcurrent
    /\ spc' = [spc EXCEPT ![op] = "gone"]
    /\ caller' = [caller EXCEPT ![op] = "failed"]
    /\ UNCHANGED <<active, refs, result, engine, logged>>

\* The body arrives in time and is valid, or the request ends here.
BodyRead(op) ==
    /\ spc[op] = "reads"
    /\ spc' \in {[spc EXCEPT ![op] = next] : next \in {"create_volume", "answer"}}
    /\ UNCHANGED <<active, caller, refs, result, engine, logged>>

\* The client's own timeout, or its end.
CallerLeaves(op) ==
    /\ caller[op] = "waits" /\ spc[op] \notin {"out", "gone"}
    /\ caller' = [caller EXCEPT ![op] = "left"]
    /\ UNCHANGED <<spc, active, refs, result, engine, logged>>

\* The route joins the execution, cleanup included, before it returns.
Joined(op) == spc[op] = "answer"

Answers(op) ==
    /\ Joined(op)
    /\ spc' = [spc EXCEPT ![op] = "gone"]
    /\ active' = active - 1
    /\ caller' = [caller EXCEPT ![op] =
            IF @ = "left" THEN "left" ELSE IF result[op] = "none" THEN "failed" ELSE "answered"]
    /\ UNCHANGED <<refs, result, engine, logged>>

(***************************************************************************)
(* DockerSandboxExecutor.run                                               *)
(***************************************************************************)
Executes(op) == spc[op] \in EngineCalls /\ caller[op] = "waits"

\* Fault: a container is known when its creation was answered.
KnownAfter(op, call) ==
    CASE call = "check_loader" -> refs[op] \cup {"loader"}
      [] call = "check_runner" -> refs[op] \cup {"runner"}
      [] call = "unload" -> refs[op] \ {"loader"}
      [] OTHER -> refs[op]

\* A name is noted before the request that uses it is sent.
Known(op, call) ==
    CASE call = "create_loader" -> refs[op] \cup {"loader"}
      [] call = "create_runner" -> refs[op] \cup {"runner"}
      [] call = "unload" -> refs[op] \ {"loader"}
      [] OTHER -> refs[op]

\* What a call does to the engine's objects when it is carried out.
Effect(op, call) ==
    /\ objs' = IF call \in DOMAIN Creates THEN objs \cup {<<op, Creates[call]>>}
               ELSE IF call = "unload" THEN objs \ {<<op, "loader">>} ELSE objs
    /\ running' = IF call \in DOMAIN Starts THEN running \cup {<<op, Starts[call]>>}
                  ELSE IF call = "unload" THEN running \ {<<op, "loader">>}
                  ELSE IF call = "kill" THEN running \ {<<op, "runner">>} ELSE running

After == [create_volume |-> "check_volume", check_volume |-> "create_loader",
          create_loader |-> "check_loader", check_loader |-> "start_loader",
          start_loader |-> "upload", upload |-> "unload", unload |-> "create_runner",
          create_runner |-> "check_runner", check_runner |-> "start_runner",
          start_runner |-> "wait", kill |-> "logs"]

CallSucceeds(op) ==
    /\ Executes(op) /\ spc[op] \in DOMAIN After
    /\ Effect(op, spc[op]) /\ UNCHANGED <<late, tardy>>
    /\ refs' = [refs EXCEPT ![op] = Known(op, spc[op])]
    /\ spc' = [spc EXCEPT ![op] = After[spc[op]]]
    /\ UNCHANGED <<active, caller, result, logged>>

\* An error, a lost answer, a label that is not the expected one, or the caller has
\* left: the execution ends, whatever the engine did, does, or will do.
CallFails(op) ==
    /\ spc[op] \in EngineCalls
    /\ \/ Effect(op, spc[op]) /\ UNCHANGED <<late, tardy>>
       \/ UNCHANGED engine
       \/ /\ spc[op] \in DOMAIN Creates
          /\ late' = late \cup {<<op, Creates[spc[op]]>>}
          /\ UNCHANGED <<objs, running, tardy>>
    /\ refs' = [refs EXCEPT ![op] = IF spc[op] = "unload" THEN @ ELSE Known(op, spc[op])]
    /\ result' = [result EXCEPT ![op] = "none"]
    /\ spc' = [spc EXCEPT ![op] = "clean_loader"]
    /\ UNCHANGED <<active, caller, logged>>

\* The program ends by itself, or not.
RunnerExits(op) ==
    /\ <<op, "runner">> \in running
    /\ running' = running \ {<<op, "runner">>}
    /\ UNCHANGED <<spc, active, caller, refs, result, objs, late, tardy, logged>>

WaitReturns(op) ==
    /\ Executes(op) /\ spc[op] = "wait" /\ <<op, "runner">> \notin running
    /\ result' \in {[result EXCEPT ![op] = status] : status \in {"succeeded", "failed"}}
    /\ spc' = [spc EXCEPT ![op] = "logs"]
    /\ UNCHANGED <<active, caller, refs, engine, logged>>

MayTimeOut(op) == Executes(op) /\ spc[op] = "wait"

WaitTimesOut(op) ==
    /\ MayTimeOut(op)
    /\ result' = [result EXCEPT ![op] = "timed_out"]
    /\ spc' = [spc EXCEPT ![op] = "kill"]
    /\ UNCHANGED <<active, caller, refs, engine, logged>>

LogsRead(op) ==
    /\ Executes(op) /\ spc[op] = "logs"
    /\ spc' = [spc EXCEPT ![op] = IF result[op] = "succeeded" THEN "artifacts" ELSE "clean_loader"]
    /\ UNCHANGED <<active, caller, refs, result, engine, logged>>

\* One that is missing makes the run fail.  (One that is invalid ends it: CallFails.)
ArtifactsCollected(op) ==
    /\ Executes(op) /\ spc[op] = "artifacts"
    /\ result' \in {result, [result EXCEPT ![op] = "failed"]}
    /\ spc' = [spc EXCEPT ![op] = "clean_loader"]
    /\ UNCHANGED <<active, caller, refs, engine, logged>>

(***************************************************************************)
(* _cleanup, shielded from cancellation, one object after the other.       *)
(***************************************************************************)
Target == [clean_loader |-> "loader", clean_runner |-> "runner", clean_volume |-> "volume"]
Following == [clean_loader |-> "clean_runner", clean_runner |-> "clean_volume",
              clean_volume |-> "answer"]
ToRemove(op, kind) == kind = "volume" \/ kind \in refs[op]
\* A volume that a container still has cannot be removed.
InUse(op, kind) == kind = "volume" /\ \E k \in Kind \ {"volume"} : <<op, k>> \in objs

CleansNothing(op) ==
    /\ spc[op] \in Cleaning
    /\ ~ToRemove(op, Target[spc[op]]) \/ <<op, Target[spc[op]]>> \notin objs
    /\ spc' = [spc EXCEPT ![op] = Following[@]]
    /\ UNCHANGED <<active, caller, refs, result, engine, logged>>

Removes(op) ==
    /\ spc[op] \in Cleaning
    /\ LET object == <<op, Target[spc[op]]>> IN
       /\ ToRemove(op, Target[spc[op]]) /\ object \in objs /\ ~InUse(op, Target[spc[op]])
       /\ objs' = objs \ {object}
       /\ running' = running \ {object}
    /\ spc' = [spc EXCEPT ![op] = Following[@]]
    /\ UNCHANGED <<active, caller, refs, result, late, tardy, logged>>

\* The answer does not come within seven seconds, or says no.
RemovalFails(op) ==
    /\ spc[op] \in Cleaning /\ ToRemove(op, Target[spc[op]])
    /\ LET object == <<op, Target[spc[op]]>> IN
       /\ logged' = logged \cup {object}
       /\ objs' \in {objs} \cup (IF InUse(op, Target[spc[op]]) THEN {} ELSE {objs \ {object}})
       /\ running' = IF object \in objs' THEN running ELSE running \ {object}
    /\ spc' = [spc EXCEPT ![op] = Following[@]]
    /\ UNCHANGED <<active, caller, refs, result, late, tardy>>

Cleans(op) == CleansNothing(op) \/ Removes(op) \/ RemovalFails(op)

EngineIsLate ==
    /\ \E object \in late :
         /\ objs' = objs \cup {object}
         /\ late' = late \ {object} /\ tardy' = tardy \cup {object}
    /\ UNCHANGED <<spc, active, caller, refs, result, running, logged>>

Works(op) ==
    \/ Answers(op) \/ BodyRead(op) \/ CallSucceeds(op) \/ CallFails(op)
    \/ WaitReturns(op) \/ WaitTimesOut(op) \/ LogsRead(op) \/ ArtifactsCollected(op)
    \/ Cleans(op)

SandboxNext ==
    \/ \E op \in Op :
         TakesSlot(op) \/ Busy(op) \/ CallerLeaves(op) \/ RunnerExits(op) \/ Works(op)
    \/ EngineIsLate

SandboxSpec == SandboxInit /\ [][SandboxNext]_sandboxVars

(***************************************************************************)
(* Properties                                                              *)
(***************************************************************************)
\* While the manager lives: what is left of a request that has ended is named in
\* the log, also when the answer of a creation was lost, the caller left, or a
\* removal timed out.  The exception is a creation that the engine carries out after
\* its client gave up, which nothing looks for: one object of a request at most, and
\* it does not run.  And a container runs for a request that has one of the slots,
\* unless the log names it: the slots bound what runs (sandbox.py:240-350,
\* 390-407; docs/security/sandbox.md:54-58; access.py:82-135, manager.py:87-107).
EngineIsAccounted ==
    /\ \A object \in objs \ tardy : spc[object[1]] = "gone" => object \in logged
    /\ \A object \in tardy :
         /\ object \notin running
         /\ \A other \in tardy : other[1] = object[1] => other = object
    /\ \A object \in running : spc[object[1]] \in {"out", "gone"} => object \in logged
    /\ Cardinality({op \in Op : spc[op] \notin {"out", "gone"}}) <= MaxConcurrent
=============================================================================
