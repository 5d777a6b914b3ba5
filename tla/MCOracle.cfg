SPECIFICATION Spec
CONSTANTS
    o1 = o1
    w1 = w1
    c1 = c1
    c2 = c2
    r1 = r1
    r2 = r2
    b1 = b1
    b2 = b2
    Objects = {o1, w1}
    Owners = {w1}
    Callbacks = {c1, c2}
    Apis = {"hook", "unknown"}
    ApiRoles <- MCApiRoles
    Clauses <- MCNoOwnerDrop
    CaptureFact <- MCAllBorrowed
    KnownObjects = {w1}
    Runs = {r1, r2}
    Builds = {b1, b2}
    StaticBuild = b1
    NoRun = NoRun
    NoBuild = NoBuild
    NoCallback = NoCallback
    NoOwner = NoOwner
    MaxEvents = 8
SYMMETRY Symmetric
INVARIANTS
    TypeOK
    RecordsOrdered
    EvidenceOrdered
    EvidenceStable
    BorrowEndsWithObject
    ExposureReportedOnce
PROPERTY LifecycleForward
