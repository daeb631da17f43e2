---------------------------- MODULE MCPlanShell ----------------------------
(* PlanShell on small sets of trips and requests. *)
EXTENDS PlanShell

CONSTANTS t1, t2
=============================================================================
