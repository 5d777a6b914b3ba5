--------------------------- MODULE MCOracleTrace ---------------------------
(* Small instances of ObservedTrace for TLC. *)
EXTENDS ObservedTrace, TLC

CONSTANTS o1, w1, c1, c2, r1, r2, b1

RunSymmetry == Permutations({r1, r2})

MCApiRoles == [a \in Apis |-> Roles]
MCAllClauses == ClauseKinds

\* The first callback borrows both objects, any other owns what it captures.
MCFirstBorrows == [c \in Callbacks |-> [o \in Objects |-> IF c = c1 THEN "borrowed" ELSE "owned"]]
=============================================================================
