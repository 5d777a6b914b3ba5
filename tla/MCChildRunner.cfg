SPECIFICATION Spec
CONSTANTS
    p1 = p1
    p2 = p2
    p3 = p3
    Leader = p1
    Others = {p2, p3}
CHECK_DEADLOCK FALSE
PROPERTY KeepsPromise
