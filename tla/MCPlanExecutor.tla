---------------------------- MODULE MCPlanExecutor ----------------------------
(* Instances of PlanExecutor for TLC. *)
EXTENDS PlanExecutor
=============================================================================
