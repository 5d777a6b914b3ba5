---------------------------- MODULE MCJsonlSink ----------------------------
(* A small instance of JsonlSink for TLC. *)
EXTENDS JsonlSink, TLC

CONSTANTS e1, e2, e3

Symmetric == Permutations(Events)
=============================================================================
