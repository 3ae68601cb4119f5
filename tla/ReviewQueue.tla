---------------------------- MODULE ReviewQueue ----------------------------
(***************************************************************************)
(* One escalated request after its run reached escalation_manager: the     *)
(* escalation_queue row (backend/src/api/escalation_service.py), the       *)
(* LangGraph checkpoint the run left, the POST /review submissions racing  *)
(* to decide it (submit_review and _apply_review_to_checkpoint in          *)
(* backend/src/api/routes.py), the asker polling GET /requests, and        *)
(* restarts of the server between any two steps.                           *)
(*                                                                         *)
(* A submission is one HTTP request, so one thread; each action is the     *)
(* part of its handler between two accesses to shared state.  "accept"     *)
(* stands for accept and edit, which differ only in the text they release. *)
(***************************************************************************)
EXTENDS Naturals, FiniteSets

CONSTANTS
    Submissions,    \* concurrent POST /review/{request_id} calls
    Decisions,      \* what reviewers may submit, a subset of {"accept", "reject"}
    MaxRefusals,    \* answers the graph's own output guardrail refuses (bound)
    MaxRestarts,    \* server restarts (bound)
    Faults          \* the values of faulty to look at

ASSUME SubmissionAssumption == IsFiniteSet(Submissions)
ASSUME DecisionAssumption == Decisions \subseteq {"accept", "reject"}
ASSUME BoundAssumption ==
    MaxRefusals \in Nat /\ MaxRestarts \in Nat /\ Faults \subseteq BOOLEAN

VARIABLES
    run,        \* the /ask run: about to enqueue, notifying, checkpointed, or cut off
    row,        \* the escalation_queue row
    ckpt,       \* where the request's checkpoint stands
    pc,         \* each submission's next step
    choice,     \* each submission's decision
    shown,      \* the answers the asker's polls have been given
    releases,   \* store_released_answer calls
    refusals, restarts,
    faulty      \* whether LangGraph calls may fail and the row insert be lost
vars == <<run, row, ckpt, pc, choice, shown, releases, refusals, restarts, faulty>>

\* "running": the last checkpoint is of the node before escalation_manager.
\* "awaiting": interrupted after escalation_manager.
\* "forked": a decision was written over a checkpoint that is not the interrupt.
\* "resumable": the decision is in and output_guardrail is next.
\* "ended": output_guardrail or a reject was the last node; nothing is next.
Checkpoints == {"running", "awaiting", "forked", "resumable", "ended", "lost"}
Steps == {"idle", "fetched", "record", "update", "resume", "reopen", "store", "gone"}
Statuses == {"none", "pending", "reviewed"}
Rows == [status : Statuses, decision : {"none", "accept", "reject"},
         answer : {"none", "raw", "released"}]

EmptyRow == [status |-> "none", decision |-> "none", answer |-> "none"]
PendingRow == [EmptyRow EXCEPT !.status = "pending"]

Init ==
    /\ run = "escalating"
    /\ row = EmptyRow
    /\ ckpt = "running"
    /\ pc = [s \in Submissions |-> "idle"]
    /\ choice \in [Submissions -> Decisions]
    /\ shown = {}
    /\ releases = 0 /\ refusals = 0 /\ restarts = 0
    /\ faulty \in Faults

-----------------------------------------------------------------------------
(* The run's last node.  The row is visible before the e-mail is sent and   *)
(* before LangGraph saves the node's checkpoint.                            *)

\* INSERT ... ON CONFLICT DO NOTHING; a failed insert is logged and forgotten.
Enqueue ==
    /\ run = "escalating"
    /\ run' = "notifying"
    /\ \/ row' = IF row.status = "none" THEN PendingRow ELSE row
       \/ faulty /\ row' = row
    /\ UNCHANGED <<ckpt, pc, choice, shown, releases, refusals, restarts, faulty>>

\* The e-mail is out, the node returns and its checkpoint becomes the latest.
Interrupt ==
    /\ run = "notifying"
    /\ run' = "done"
    /\ ckpt' = "awaiting"
    /\ UNCHANGED <<row, pc, choice, shown, releases, refusals, restarts, faulty>>

-----------------------------------------------------------------------------
(* One submission. *)

Goto(s, step) == pc' = [pc EXCEPT ![s] = step]

\* fetch_package, by a call with any decision: 404 or 409 ends the call here.
Fetch(s) ==
    /\ pc[s] = "idle"
    /\ row.status = "pending"
    /\ \E decision \in Decisions : choice' = [choice EXCEPT ![s] = decision]
    /\ Goto(s, "fetched")
    /\ UNCHANGED <<run, row, ckpt, shown, releases, refusals, restarts, faulty>>

\* release_check: the gate before the decision refuses with 422, recording
\* nothing, or lets the answer through; a reject has nothing to check.
Check(s) ==
    /\ pc[s] = "fetched"
    /\ \/ Goto(s, "record")
       \/ choice[s] = "accept" /\ faulty /\ Goto(s, "idle")
    /\ UNCHANGED <<run, row, ckpt, choice, shown, releases, refusals, restarts, faulty>>

\* Mutant: the UPDATE has no "AND status = 'pending'".
MutRecord(s) ==
    /\ pc[s] = "record"
    /\ row' = [status |-> "reviewed", decision |-> choice[s],
               answer |-> IF choice[s] = "accept" THEN "raw" ELSE "none"]
    /\ Goto(s, "update")
    /\ UNCHANGED <<run, ckpt, choice, shown, releases, refusals, restarts, faulty>>

\* record_decision: the UPDATE that only one submission wins; losing is a 409.
\* The answer it stores is the one that was submitted, not the scrubbed one.
Record(s) ==
    /\ pc[s] = "record"
    /\ IF row.status = "pending"
       THEN /\ row' = [status |-> "reviewed", decision |-> choice[s],
                       answer |-> IF choice[s] = "accept" THEN "raw" ELSE "none"]
            /\ Goto(s, "update")
       ELSE Goto(s, "idle") /\ UNCHANGED row
    /\ UNCHANGED <<run, ckpt, choice, shown, releases, refusals, restarts, faulty>>

\* Mutant: the decision is not in the update, so the edge waits as before.
MutUpdated(decision) ==
    CASE ckpt = "awaiting" -> "awaiting"
      [] ckpt = "running"  -> "forked"
      [] OTHER             -> ckpt

\* graph.update_state runs the edge of the last node again on the new state: at
\* the interrupt a release leads to output_guardrail and a reject to the end;
\* after output_guardrail, whose outcome was just cleared, it leads to the end.
\* Over a run that is still notifying it forks that run instead.
Updated(decision) ==
    CASE ckpt = "awaiting" -> IF decision = "accept" THEN "resumable" ELSE "ended"
      [] ckpt = "running"  -> "forked"
      [] OTHER             -> ckpt

\* Without a checkpoint, or when the update fails, nothing is resumed: an
\* accepted answer is then released on the strength of the first check.
Update(s) ==
    /\ pc[s] = "update"
    /\ \/ /\ ckpt # "lost"
          /\ ckpt' = Updated(choice[s])
          /\ Goto(s, IF choice[s] = "accept" THEN "resume" ELSE "idle")
       \/ /\ ckpt = "lost" \/ faulty
          /\ Goto(s, IF choice[s] = "accept" THEN "store" ELSE "idle")
          /\ UNCHANGED ckpt
    /\ UNCHANGED <<run, row, choice, shown, releases, refusals, restarts, faulty>>

\* graph.invoke(None).  Only output_guardrail can produce an answer: from a
\* checkpoint where it is not next, the outcome is anything but "answered".
\* A fork's run ends interrupted again, or at the end of output_guardrail.
\* An invoke that raises releases on the strength of the first check.
Resume(s) ==
    /\ pc[s] = "resume"
    /\ \/ ckpt = "resumable" /\ ckpt' = "ended" /\ Goto(s, "store") /\ UNCHANGED refusals
       \/ /\ ckpt = "resumable" /\ refusals < MaxRefusals
          /\ ckpt' = "ended" /\ refusals' = refusals + 1 /\ Goto(s, "reopen")
       \/ /\ ckpt = "forked"
          /\ ckpt' \in {"awaiting", "ended"} /\ Goto(s, "reopen") /\ UNCHANGED refusals
       \/ /\ ckpt \in {"awaiting", "ended"}
          /\ Goto(s, "reopen") /\ UNCHANGED <<ckpt, refusals>>
       \/ faulty /\ Goto(s, "store") /\ UNCHANGED <<ckpt, refusals>>
    /\ UNCHANGED <<run, row, choice, shown, releases, restarts, faulty>>

\* Mutant: a reopened row keeps the decision and the answer that failed.
MutReopen(s) ==
    /\ pc[s] = "reopen"
    /\ row' = IF row.status = "reviewed" THEN [row EXCEPT !.status = "pending"] ELSE row
    /\ Goto(s, "idle")
    /\ UNCHANGED <<run, ckpt, choice, shown, releases, refusals, restarts, faulty>>

\* reopen: WHERE status = 'reviewed'.
Reopen(s) ==
    /\ pc[s] = "reopen"
    /\ row' = IF row.status = "reviewed" THEN PendingRow ELSE row
    /\ Goto(s, "idle")
    /\ UNCHANGED <<run, ckpt, choice, shown, releases, refusals, restarts, faulty>>

\* store_released_answer: WHERE status = 'reviewed'.
Store(s) ==
    /\ pc[s] = "store"
    /\ row' = IF row.status = "reviewed" THEN [row EXCEPT !.answer = "released"] ELSE row
    /\ releases' = releases + 1
    /\ Goto(s, "idle")
    /\ UNCHANGED <<run, ckpt, choice, shown, refusals, restarts, faulty>>

-----------------------------------------------------------------------------
(* The asker and the server. *)

\* GET /requests: "answered" with whatever answer the row holds.
Poll ==
    /\ row.status = "reviewed" /\ row.decision # "reject"
    /\ shown' = shown \cup {row.answer}
    /\ UNCHANGED <<run, row, ckpt, pc, choice, releases, refusals, restarts, faulty>>

\* The threads in a handler are gone; an in-memory checkpointer loses everything,
\* PostgreSQL nothing.
Restart ==
    /\ restarts < MaxRestarts
    /\ restarts' = restarts + 1
    /\ run' = IF run = "done" THEN "done" ELSE "cut"
    /\ ckpt' \in {ckpt, "lost"}
    /\ pc' = [s \in Submissions |-> IF pc[s] = "idle" THEN "idle" ELSE "gone"]
    /\ UNCHANGED <<row, choice, shown, releases, refusals, faulty>>

InHandler(s) ==
    Check(s) \/ Record(s) \/ Update(s) \/ Resume(s) \/ Reopen(s) \/ Store(s)

Next ==
    \/ Enqueue \/ Interrupt \/ Poll \/ Restart
    \/ \E s \in Submissions : Fetch(s) \/ InHandler(s)

Spec == Init /\ [][Next]_vars

\* The run and every handler that has started keep running; reviewers who see
\* the request in the queue keep trying to decide it.
FairSpec ==
    /\ Spec
    /\ WF_vars(Enqueue) /\ WF_vars(Interrupt)
    /\ \A s \in Submissions : WF_vars(InHandler(s)) /\ SF_vars(Fetch(s))

-----------------------------------------------------------------------------
(* Properties. *)

TypeOK ==
    /\ run \in {"escalating", "notifying", "done", "cut"}
    /\ row \in Rows
    /\ ckpt \in Checkpoints
    /\ pc \in [Submissions -> Steps]
    /\ choice \in [Submissions -> Decisions]
    /\ shown \subseteq {"none", "raw", "released"}
    /\ releases \in Nat
    /\ refusals \in 0..MaxRefusals
    /\ restarts \in 0..MaxRestarts
    /\ faulty \in BOOLEAN

Owning(s) == pc[s] \in {"update", "resume", "reopen", "store"}

\* The submission that recorded its decision is alone between that UPDATE and
\* its last one, and the row carries its decision all that time ("that UPDATE is
\* what stops two reviewers releasing the same request").
OneOwner ==
    /\ \A s, t \in Submissions : Owning(s) /\ Owning(t) => s = t
    /\ \A s \in Submissions : Owning(s) =>
          /\ row.status = "reviewed" /\ row.decision = choice[s]
          /\ row.answer # "released"
          /\ pc[s] \in {"resume", "reopen", "store"} => choice[s] = "accept"

\* However many submissions race, and however often the request is reopened,
\* its answer is released at most once.
ReleasedAtMostOnce == releases <= 1

\* A pending row shows nothing of an earlier decision, and a rejected one holds
\* no answer (REOPEN clears every column RECORD_DECISION sets).
RowIsConsistent ==
    /\ row.status # "reviewed" => row.decision = "none" /\ row.answer = "none"
    /\ row.decision = "reject" => row.answer = "none"
    /\ row.decision = "accept" => row.answer # "none"

\* A released answer and a rejection are final: no later submission, reopen or
\* restart changes the row again.
Settled == row.answer = "released" \/ row.decision = "reject"
DecisionIsFinal == [][Settled => row' = row]_vars

\* "Keep the answer the output guardrail released (PII scrubbed), which is what
\* the asker is shown": no poll returns the answer as it was submitted.
AskerSeesOnlyReleased == "raw" \notin shown

\* A queued request is decided for good in the end, whatever the e-mail and the
\* reviewers do in between, if the graph's guardrail agrees with the first check
\* and nothing fails (the reopen of a decision taken too early included).
Disturbed == faulty \/ refusals > 0 \/ restarts > 0
EventuallySettled == (row.status = "pending") ~> (Settled \/ Disturbed)

\* "put the request back so the reviewer can try again": as long as reviewers
\* keep accepting, an answer the guardrail refused once is released in the end.
ReopenedIsReleasable == (refusals > 0) ~> (row.answer = "released")
=============================================================================
