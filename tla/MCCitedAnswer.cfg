SPECIFICATION Spec
CONSTANTS
    Clauses <- MCClauses
    Extracts <- MCExtracts
    Home <- MCHome
    Document <- MCDocument
    Number <- MCNumber
    Whole = {"whole"}
    Contained <- MCContained
    Statements <- MCStatements
    Width <- MCWidth
    Shared <- MCShared
    Consistent <- MCConsistent
    Body <- MCBody
    Drafts <- MCDrafts
    Edits <- MCEdits
    MaxSiblings = 4
    MaxRepairs = 1
    NoClause = NoClause
INVARIANTS
    ReleasedClaimsAreCited
    ValidatedClaimsPassTheGuard
CHECK_DEADLOCK FALSE
