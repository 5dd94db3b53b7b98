------------------------------- MODULE MCTasks -------------------------------
(* What one task does and what it may spend, one beside the other: a plan    *)
(* and its repair, a run of the agent, a run of the coding agent or an       *)
(* experiment, and the paid evaluation campaigns.  A behaviour is one of one *)
(* of them, chosen at its start.                                             *)
EXTENDS PlanRepair, AgentRunner, CodingRun, EvaluationCampaign, TLC

CONSTANTS
    s1, s2, s3, x1, x2,     \* steps of a plan, contents of a workspace
    p1, p2, g1, g2, g3,     \* processes and approvals of the campaigns, of which
                            \* the first made one request, and the second version two
    t1, t2, u1, u2,         \* topics and pages of a search
    v1, v2, none,           \* contents of a source
    nobody

VARIABLE which  \* of the four

\* A step that writes code, one that may, and the experiment.
KindsOf ==
    [s \in {s1, s2, s3} |-> CASE s = s1 -> {"coding"}
                              [] s = s2 -> {"coding", "research"}
                              [] s = s3 -> {"experiment"}]

\* There are plans with one experiment, with and without the second step.
ASSUME Cardinality(Plans) = 20

\* What is not chosen has one initial state.  Calls are counted in snapshot mode, and
\* the experiment's own repairs in its mode, only.
TasksInit ==
    /\ PlanInit /\ AgentInit /\ CodingInit /\ CampaignInit
    /\ which \in {"plan", "agent", "coding", "campaign"}
    /\ which # "agent" => asked = [sources |-> {"web"}, search |-> [s \in {"web"} |-> "off"],
                                  documents |-> FALSE, under |-> "nothing"]
    /\ given.mode # "snapshot" => given.calls = 0 /\ ~given.replans
    /\ given.mode # "experiment" => ~given.repair
    /\ which # "coding" => /\ source = v1
                           /\ given = [mode |-> "full", repair |-> FALSE, calls |-> 0,
                                       replans |-> FALSE, reserve |-> 1]

TasksNext ==
    /\ \/ which = "plan" /\ PlanNext /\ UNCHANGED <<agentVars, codingVars, campaignVars>>
       \/ which = "agent" /\ AgentNext /\ UNCHANGED <<planVars, codingVars, campaignVars>>
       \/ which = "coding" /\ CodingNext /\ UNCHANGED <<planVars, agentVars, campaignVars>>
       \/ which = "campaign" /\ CampaignNext /\ UNCHANGED <<planVars, agentVars, codingVars>>
    /\ UNCHANGED which

TasksSpec ==
    TasksInit /\ [][TasksNext]_<<which, planVars, agentVars, codingVars, campaignVars>>

=============================================================================
