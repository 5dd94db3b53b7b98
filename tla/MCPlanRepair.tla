---------------------------- MODULE MCPlanRepair ----------------------------
(* Plans of two steps that may write code and one experiment. *)
EXTENDS PlanRepair

CONSTANTS s1, s2, s3

KindsOf == [s \in {s1, s2, s3} |-> IF s = s3 THEN {"experiment"} ELSE {"coding"}]
=============================================================================
