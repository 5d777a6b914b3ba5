SPECIFICATION TraceSpec
CONSTANTS
    t1 = t1
    t2 = t2
    k1 = k1
    o1 = o1
    Threads = {t1, t2}
    Tokens = {k1}
    Objects = {}
    SinkMayFail = FALSE
    MaxEvents = 3
    MaxFinish = 0
    MaxCalls = 3
CHECK_DEADLOCK FALSE
INVARIANT SeqStrictlyIncreasing
