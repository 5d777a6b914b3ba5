SPECIFICATION Spec
CONSTANTS
    e1 = e1
    e2 = e2
    e3 = e3
    Events = {e1, e2, e3}
    NoEvent = NoEvent
    Torn = Torn
    MaxPerSegment = 2
SYMMETRY Symmetric
CHECK_DEADLOCK FALSE
INVARIANTS
    IndexedFilesMatch
    AcceptedOnDisk
    FlushComplete
