SPECIFICATION FairSpec
CONSTANTS
    Submissions = {s1, s2}
    Decisions = {"accept"}
    MaxRefusals = 1
    MaxRestarts = 0
    Faults = {FALSE}
PROPERTIES
    ReopenedIsReleasable
CHECK_DEADLOCK FALSE
