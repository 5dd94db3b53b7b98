------------------------------ MODULE MCWorker ------------------------------
(* DurableWorker with one step to plan and a budget of one model call.      *)
EXTENDS DurableWorker

MCStep == {"read"}
MCUnit == StageUnit \cup MCStep
MCPlan == <<"read">>
MCDepends == [s \in MCStep |-> {}]
=============================================================================
