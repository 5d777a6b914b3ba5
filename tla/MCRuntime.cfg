SPECIFICATION TraceSpec
CONSTANTS
    t1 = t1
    t2 = t2
    k1 = k1
    o1 = o1
    Threads = {t1, t2}
    Tokens = {k1}
    Objects = {o1}
    SinkMayFail = TRUE
    MaxEvents = 3
    MaxFinish = 3
    MaxCalls = 5
SYMMETRY Symmetric
CHECK_DEADLOCK FALSE
INVARIANTS
    TypeOK
    NumberedOnce
    ReleaseOnce
    IntroducedFirst
    NoSilentLoss
    FinishReportsRefusal
    FlattenedAccepted
