SPECIFICATION FairSpec
CONSTANTS
    StandardDeadline = 4
    HybridDeadline = 6
    HighRiskDeadline = 11
    ValidationGrace = 4
    RepairHeadroom = 3
    HybridMin = 2
    RerankMin = 1
    TokenBudget = 160
    MaxReflections = 2
    RagRepairs = 1
    SqlRepairs = 1
    RecursionLimit = 40
    MaxElapsed = 11
INVARIANTS
    TypeOK
    ReleasedOnlyWhenCleared
    HonestReplyIsForNoReviewer
    ValidatorHasADraft
    StagesWithinGrant
    EvidenceFitsTheRoute
    NeverShortOfTokens
    OneRepairFits
    WithinRecursionLimit
PROPERTIES
    MetersOnlyGrow
    KeepsReleaseContract
    EventuallyEnds
    HighRiskReachesAReviewer
    HumanRequestReachesAReviewer
CHECK_DEADLOCK FALSE
