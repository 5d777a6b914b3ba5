------------------------------ MODULE MCOracle ------------------------------
(* Small instances of Oracle for TLC. *)
EXTENDS Oracle, TLC

CONSTANTS o1, w1, c1, c2, r1, r2, b1, b2

MCApiRoles == [a \in Apis |-> IF a = "hook" THEN Roles ELSE {}]
MCAllBorrowed == [c \in Callbacks |-> [o \in Objects |-> "borrowed"]]

\* A contract with every clause, and the one of crates/bw-oracle/tests/rules.rs,
\* under which the drop of an owner is refused after it has been reduced.
MCAllClauses == ClauseKinds
MCNoOwnerDrop == ClauseKinds \ {"release_on_owner_drop"}

Symmetric == Permutations(Callbacks)
=============================================================================
