SPECIFICATION Spec
CONSTANTS
    r1 = r1
    r2 = r2
    Runners = {r1, r2}
    MaxWrites = 2
SYMMETRY Symmetric
CHECK_DEADLOCK FALSE
INVARIANTS
    OneOwner
    FinalIntegrity
