SPECIFICATION Spec
CONSTANTS
    Requests = {r1, r2}
    Others = others
    Strategy = "heuristic"
    NodesInUse <- MCNodes
    FailureThreshold = 1
    SummaryAfter = 2
    MaxTracked = 2
    MaxCalls = 3
    MaxAudits = 3
    MaxOutages = 1
SYMMETRY Symmetry
INVARIANTS
    AnsweredByItsTier
    LedgerIsWhole
    OutageIsBounded
    SummaryIsCurrent
CHECK_DEADLOCK FALSE
