---------------------------- MODULE MCPlanReview ----------------------------
(***************************************************************************)
(* PlanReview for TLC: two plans, one of which claims a directory that     *)
(* holds a path the other claims.                                          *)
(***************************************************************************)
EXTENDS PlanReview, TLC

CONSTANTS p1, p2

MCPaths == {<<"raw">>, <<"raw", "m31">>, <<"raw", "m42">>}
MCClaims == [p \in Plans |-> IF p = p1 THEN {<<"raw">>} ELSE {<<"raw", "m31">>}]

ReviewSymmetry == Permutations(Users)
=============================================================================
