SPECIFICATION Spec
CONSTANTS
    Submissions = {s1, s2}
    Decisions = {"accept"}
    MaxRefusals = 0
    MaxRestarts = 0
    Faults = {FALSE}
INVARIANTS
    AskerSeesOnlyReleased
CHECK_DEADLOCK FALSE
