SPECIFICATION Spec
CONSTANTS
    Scenarios <- ScenariosHere
    MaxBlocks = 4
INVARIANTS
    EveryPathIsEvery
    OriginsAreRight
    NoRetainIsSound
    CompatibleIsSafe
    LineageIsRight
CHECK_DEADLOCK FALSE
