SPECIFICATION Spec
CONSTANTS
    a = a
    b = b
    b1 = b1
    b2 = b2
    Builds = {b1, b2}
    Plan <- MCPlan
CHECK_DEADLOCK FALSE
INVARIANTS
    TypeOK
    FindingsOfRecords
    JudgedByItsBuild
    FailedApart
    FinalComplete
