SPECIFICATION FairSpec
CONSTANTS
    Submissions = {s1, s2, s3}
    Decisions = {"accept", "reject"}
    MaxRefusals = 2
    MaxRestarts = 1
    Faults = {TRUE, FALSE}
INVARIANTS
    OneOwner
    ReleasedAtMostOnce
    RowIsConsistent
PROPERTIES
    DecisionIsFinal
    EventuallySettled
CHECK_DEADLOCK FALSE
