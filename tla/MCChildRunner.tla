--------------------------- MODULE MCChildRunner ---------------------------
(* A small instance of ChildRunner for TLC. *)
EXTENDS ChildRunner

CONSTANTS p1, p2, p3
=============================================================================
