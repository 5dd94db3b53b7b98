------------------------------ MODULE MCLimits ------------------------------
(* What is held by one or a few only, and for a time only, or is to be shared  *)
(* in order, one beside the other: the lease of a job, the slots of the API   *)
(* and those of the sandbox manager, the budget and the ledger of model       *)
(* calls, the log of a task's events with a view that follows it, the pipe to *)
(* an inference container, and the sources of a task that clones are written  *)
(* to.  A behaviour is one of one of them, chosen at its start; the others    *)
(* stay as they are.                                                          *)
EXTENDS LeaseTiming, RequestAdmission, SandboxRunner, ModelCalls, WorkflowEvents, NeuralWorker, GitImport

CONSTANTS
    w1, w2,                 \* workers of the queue; a lease of seven ticks
    r1, r2,                 \* requests for one slot, one of them not critical,
                            \* with a lease of six ticks that is renewed every two
    o1, o2,                 \* requests for one slot of the sandbox manager
    plan, review,           \* what a call of the model is for
    e1, e2, nobody,         \* transactions on the events of a task: two at once,
                            \* three events, pages of two
    a1, a2, main,           \* two callers of the models, and who starts and ends them
    g1, g2, edit, u1, u2, f1, f2   \* clones, a file written, repositories and their files;
                            \* room for one clone of two files and one file more

VARIABLE which  \* the one it is

\* What a provider reports: with or without a cached part, which may not add up.
Metered ==
    [input : {2}, output : {1}, total : {3}, hit : {-1, 1, 3}, miss : {-1, 1}]
      \cup [input : {1}, output : {0}, total : {2}, hit : {-1}, miss : {-1}]

LimitsInit ==
    /\ which \in {"lease", "admission", "sandbox", "calls", "events", "models", "git"}
    /\ Init /\ AdmissionInit /\ SandboxInit /\ CallsInit /\ EventsInit /\ NeuralInit /\ GitInit
    /\ which # "calls" => durable
    /\ which # "git" => url = [c \in {g1, g2} |-> u1]

LimitsNext ==
    /\ \/ /\ which = "lease" /\ Next
          /\ UNCHANGED <<admissionVars, sandboxVars, modelVars, eventVars, neuralVars, gitVars>>
       \/ /\ which = "admission" /\ AdmissionNext
          /\ UNCHANGED <<vars, sandboxVars, modelVars, eventVars, neuralVars, gitVars>>
       \/ /\ which = "sandbox" /\ SandboxNext
          /\ UNCHANGED <<vars, admissionVars, modelVars, eventVars, neuralVars, gitVars>>
       \/ /\ which = "calls" /\ CallsNext
          /\ UNCHANGED <<vars, admissionVars, sandboxVars, eventVars, neuralVars, gitVars>>
       \/ /\ which = "events" /\ EventsNext
          /\ UNCHANGED <<vars, admissionVars, sandboxVars, modelVars, neuralVars, gitVars>>
       \/ /\ which = "models" /\ NeuralNext
          /\ UNCHANGED <<vars, admissionVars, sandboxVars, modelVars, eventVars, gitVars>>
       \/ /\ which = "git" /\ GitNext
          /\ UNCHANGED <<vars, admissionVars, sandboxVars, modelVars, eventVars, neuralVars>>
    /\ UNCHANGED which

\* The fairness of the slots and of the events, where the behaviour is theirs.
LimitsFairness ==
    /\ \A r \in {r1, r2} :
         /\ WF_admissionVars(which = "admission" /\ RequestStep(r))
         /\ WF_admissionVars(which = "admission" /\ KeeperStep(r))
    /\ WF_admissionVars(which = "admission" /\ TimePasses)
    /\ WF_eventVars(which = "events" /\ Serve)
    /\ WF_eventVars(which = "events" /\ Watch)

LimitsSpec ==
    /\ LimitsInit
    /\ [][LimitsNext]_<<which, vars, admissionVars, sandboxVars, modelVars, eventVars,
                        neuralVars, gitVars>>
    /\ LimitsFairness

=============================================================================
