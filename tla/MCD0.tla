-------------------------------- MODULE MCD0 --------------------------------
(* A small case matrix for D0Runner: two replays of one case, then a compile  *)
(* check of another.                                                         *)
EXTENDS D0Runner

CONSTANTS a, b, b1, b2

Matrix == <<[case |-> a, operation |-> "run"], [case |-> b, operation |-> "compile_check"]>>
MCPlan == PlanOf(Matrix, "formal", 2)
=============================================================================
