SPECIFICATION RevealSpec
CONSTANTS
    c1 = c1
    c2 = c2
    CaseOrder <- MCCaseOrder
    Versions = {"v1", "v2"}
    MaxChanges = 2
    Violations = {c1}
    Pairs <- MCPairs
    MinConfirmed = 1
CHECK_DEADLOCK FALSE
INVARIANTS
    ExecutedAsSigned
    FinalAsScanned
    NothingLeftUnsaid
    RevealedAsRun
