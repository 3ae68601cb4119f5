--------------------------- MODULE ReleaseContract ---------------------------
(***************************************************************************)
(* What one run of the graph promises whoever asked: a reason to involve a *)
(* person is never withdrawn, and an outcome that has one is never an      *)
(* answer.  AskWorkflow implements this.                                   *)
(***************************************************************************)
VARIABLES needsPerson, outcome, open
vars == <<needsPerson, outcome, open>>

Init == needsPerson \in BOOLEAN /\ outcome = "none" /\ open = TRUE

\* A step of the run may find a reason and set any outcome but a forbidden one.
Work ==
    /\ open
    /\ needsPerson' \in BOOLEAN /\ open' \in BOOLEAN
    /\ needsPerson => needsPerson'
    /\ outcome' \in {"none", "answered", "escalated", "refused",
                     "clarification_required"}
    /\ outcome' = "answered" => ~needsPerson' /\ ~open'

Spec == Init /\ [][Work]_vars
=============================================================================
