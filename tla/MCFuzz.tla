------------------------------- MODULE MCFuzz -------------------------------
(* Sequences of the two fuzz targets, and the minimization of each. *)
EXTENDS FuzzCase
=============================================================================
