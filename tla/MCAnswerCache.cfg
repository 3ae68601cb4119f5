SPECIFICATION MCSpec
CONSTANTS
    a1 = a1
    a2 = a2
    a3 = a3
    Asks = {a1, a2, a3}
    Calls <- ManyCalls
    Similar <- MCSimilar
    Ends = {"certified", "uncertified", "pending", "other"}
    NoHeader = NoHeader
    NoResult = NoResult
    MaxVersion = 1
    RetrievalTTL = 1
    ResponseTTL = 1
    IdempotencyTTL = 1
    MaxEntries = 1
    MaxAge = 1
    Horizon = 6
    Faults = {"ingest", "run"}
SYMMETRY AskSymmetry
INVARIANTS
    RepliesAreRecent
    FreshAfterInvalidation
    AnswersFitTheirCall
    SharedAnswersAreCertified
