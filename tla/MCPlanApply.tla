----------------------------- MODULE MCPlanApply -----------------------------
(***************************************************************************)
(* PlanApply for TLC: callers are interchangeable in the safety runs.      *)
(***************************************************************************)
EXTENDS PlanApply, TLC

CallerSymmetry == Permutations(Callers)
=============================================================================
