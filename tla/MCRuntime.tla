----------------------------- MODULE MCRuntime -----------------------------
(* Small instances of Runtime for TLC. *)
EXTENDS RuntimeTrace, TLC

CONSTANTS t1, t2, k1, o1

Symmetric == Permutations(Threads)
=============================================================================
