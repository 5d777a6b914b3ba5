--------------------------- MODULE MCRunDirectory --------------------------
(* A small instance of RunDirectory for TLC. *)
EXTENDS RunDirectory, TLC

CONSTANTS r1, r2

Symmetric == Permutations(Runners)
=============================================================================
