------------------------- MODULE MCPlanCycleRunner -------------------------
(* A plan of two items, one of them with verification commands. *)
EXTENDS PlanCycleRunner

MCVerified == {2}
=============================================================================
