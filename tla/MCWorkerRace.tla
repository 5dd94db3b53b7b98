---------------------------- MODULE MCWorkerRace ----------------------------
(* DurableWorker with two workers, one of which may run on after its lease. *)
EXTENDS DurableWorker, TLC

MCStep == {"read"}
MCUnit == StageUnit \cup MCStep
MCPlan == <<"read">>
MCDepends == [s \in MCStep |-> {}]

Symmetry == Permutations(Owner)
=============================================================================
