------------------------------- MODULE MCTools -------------------------------
(* The two kinds of effects a workflow has through tool services, one beside *)
(* the other: operations whose requests are delivered twice, and two         *)
(* training runs of one step, across one takeover.  A behaviour is one of    *)
(* the one or of the other, chosen at its start; they share the workflow.    *)
EXTENDS ToolOperations, ExperimentExecution

CONSTANTS write, search, first, again, nobody, train, retrain, once

VARIABLE which  \* of the two

ToolsInit == which \in {"operations", "experiments"} /\ Init /\ RunsInit

ToolsNext ==
  /\ \/ /\ which = "operations" /\ Next
        /\ UNCHANGED <<over, revoked, trainingVars, journal, taken, returned, rowVars, runVars>>
     \/ /\ which = "experiments" /\ RunsNext
        /\ UNCHANGED <<callVars, closed, pending, serviceVars>>
  /\ UNCHANGED which

ToolsSpec ==
  /\ ToolsInit /\ [][ToolsNext]_<<which, vars, experimentVars>>
  /\ Fairness
=============================================================================
