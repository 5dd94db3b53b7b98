-------------------------- MODULE MCWorkerApprovals --------------------------
(* DurableWorker on a plan of code, then an experiment that needs an         *)
(* approval, in either of two plan versions.                                 *)
EXTENDS DurableWorker

MCStep == {"code", "train"}
MCUnit == StageUnit \cup MCStep
MCPlan == <<"code", "train">>
MCDepends == [s \in MCStep |-> IF s = "train" THEN {"code"} ELSE {}]
=============================================================================
