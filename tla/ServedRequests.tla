--------------------------- MODULE ServedRequests ---------------------------
(***************************************************************************)
(* What a page of the web client sees of the server: POST /ask answers     *)
(* each question once, an escalated one waits in the review queue, and     *)
(* GET /requests/{id} reads what has become of it so far.                  *)
(*                                                                         *)
(* AskWorkflow has the detail of the reply, and ReviewQueue, which         *)
(* implements these steps, that of an escalated request.  A question       *)
(* stands for its request id as well.                                      *)
(***************************************************************************)
EXTENDS Naturals, Sequences, FiniteSets

CONSTANTS
    Asks,       \* questions the user may ask
    Nothing     \* no question, no text, no thread

VARIABLES
    sent,       \* the thread each question was sent with, in a set, or {}
    reply,      \* what POST /ask answered each question
    review      \* whether GET /requests answers each request that is said to be escalated
serverVars == <<sent, reply, review>>

Replies == {"answered", "pending_review", "clarification_required", "refused", "failed"}

ServerInit ==
    /\ sent = [m \in Asks |-> {}]
    /\ reply = [m \in Asks |-> "none"]
    /\ review = [m \in Asks |-> "none"]

\* The thread a question belongs to: one without a thread begins its own.
ThreadOf(m) == LET t == CHOOSE t \in sent[m] : TRUE IN IF t = Nothing THEN m ELSE t

\* ask: every question is answered, whether or not a page still waits for it.  When
\* an escalated one is, a reviewer may have been faster.
Serve(m) ==
    /\ sent[m] # {} /\ reply[m] = "none"
    /\ \E r \in Replies :
          /\ reply' = [reply EXCEPT ![m] = r]
          /\ IF r = "pending_review"
             THEN \E status \in {"unanswered", "answered"} :
                     review' = [review EXCEPT ![m] = status]
             ELSE UNCHANGED review
    /\ UNCHANGED sent

\* record_decision: an accepted answer is given out at once, and a request that is
\* pending, rejected or lost has none ...
Review(m) ==
    /\ review[m] = "unanswered"
    /\ review' = [review EXCEPT ![m] = "answered"]
    /\ UNCHANGED <<sent, reply>>

\* ... until the request is put back because its release has failed.
Reopen(m) ==
    /\ review[m] = "answered"
    /\ review' = [review EXCEPT ![m] = "unanswered"]
    /\ UNCHANGED <<sent, reply>>
=============================================================================
