----------------------------- MODULE MCProjects -----------------------------
(* What belongs to a project, one beside the other: its documents, its tasks, *)
(* its memory, and a research report; and the deployment that holds them all. *)
(* A behaviour is one of one of them, chosen at its start; the others stay as *)
(* they are, where nothing is due of them.                                    *)
EXTENDS DocumentIngestion, ProjectTasks, ProjectMemory, ResearchQuality, Maintenance

CONSTANTS
    d1, d2, w1,             \* two uploads of the same bytes
    c1, c2, k1, b1, b2, t1, t2, t3,     \* two clients with one key, for one request or two
    r1, r2,                 \* runs that learn
    f1, f2, x1, x2,         \* material and claims of a report
    g1, g2                  \* folders for backups

VARIABLE which              \* of the five

\* The second of two uploads is refused while the first has a row.
SameBytes == [d \in Docs |-> "same"]

\* A report's bundle has room for one long text, or two short ones.  There is a
\* deployment in use and a fresh one; of the two images only one fits the database.

ProjectsInit ==
    /\ which \in {"documents", "tasks", "memory", "quality", "backup"}
    /\ Init /\ TasksInit /\ MemoryInit /\ QualityInit /\ MaintenanceInit
    /\ which # "quality" => budget = [calls |-> 1, queries |-> 0, replans |-> 0]

ProjectsNext ==
    /\ \/ /\ which = "documents" /\ Next
          /\ UNCHANGED <<taskVars, memoryVars, qualityVars, maintenanceVars>>
       \/ /\ which = "tasks" /\ TasksNext
          /\ UNCHANGED <<vars, memoryVars, qualityVars, maintenanceVars>>
       \/ /\ which = "memory" /\ MemoryNext
          /\ UNCHANGED <<vars, taskVars, qualityVars, maintenanceVars>>
       \/ /\ which = "quality" /\ QualityNext
          /\ UNCHANGED <<vars, taskVars, memoryVars, maintenanceVars>>
       \/ /\ which = "backup" /\ MaintenanceNext
          /\ UNCHANGED <<vars, taskVars, memoryVars, qualityVars>>
    /\ UNCHANGED which

ProjectsSpec ==
    /\ ProjectsInit
    /\ [][ProjectsNext]_<<which, vars, taskVars, memoryVars, qualityVars, maintenanceVars>>
    /\ Fairness
=============================================================================
