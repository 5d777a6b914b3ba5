SPECIFICATION Spec
CONSTANTS
    MaxActions = 7
    MaxIgnored = 1
CHECK_DEADLOCK FALSE
INVARIANTS
    SearchIsSound
    MinimizedIsWitness
