------------------------------ MODULE ChatPage ------------------------------
(***************************************************************************)
(* The chat page (frontend/src/pages/ChatPage.tsx) over the server, and    *)
(* the conversations it keeps in the browser (threadStore.ts).             *)
(*                                                                         *)
(* The page is one thread of many tasks: send and checkStatus wait for the *)
(* server and then reveal a text piece by piece, fetchQuality asks for the *)
(* scores again and again.  An action is what runs between two awaits,     *)
(* with the effects that follow it: what is stored is always what the last *)
(* action left.  A button is pressed only while the page shows it enabled. *)
(***************************************************************************)
EXTENDS ServedRequests

CONSTANTS
    Chats,      \* conversations the user may begin (bound)
    Checks,     \* checks of a status under way at one time (bound)
    Parts,      \* pieces of a revealed text
    Polls,      \* length of EVAL_RETRY_DELAYS_MS
    Stored      \* conversations saveThreads keeps

ASSUME ChatAssumption ==
    {Parts, Polls, Stored} \subseteq Nat \ {0} /\ IsFiniteSet(Chats) /\ IsFiniteSet(Asks)
ASSUME NameAssumption == Nothing \notin Asks \cup Chats /\ Asks \cap Checks = {}

VARIABLES
    list,       \* the conversations, the newest first
    used,       \* those that have ever been in the list
    active,     \* the one shown
    thread,     \* conversation -> its thread on the server
    message,    \* question -> the assistant's message
    sending, checking,  \* what disables the buttons
    task,       \* sends and checks -> how far they are
    scoring,    \* question -> polls its fetchQuality has left
    disturbed   \* ghost: messages a reload cut short, or checked twice at a time
chatVars == <<list, used, active, thread>>
taskVars == <<sending, checking, task, scoring, disturbed>>
vars == <<serverVars, chatVars, message, taskVars>>

Tasks == Asks \cup Checks

NoMessage == [in |-> Nothing, status |-> "none", kind |-> "none", content |-> <<>>,
              released |-> FALSE, scored |-> FALSE]
Deleted == [NoMessage EXCEPT !.status = "deleted"]
NoTask == [pc |-> "idle", ask |-> Nothing, text |-> Nothing, next |-> 1]

Init ==
    /\ ServerInit
    /\ \E c \in Chats : list = <<c>> /\ used = {c} /\ active = c
    /\ thread = [c \in Chats |-> Nothing]
    /\ message = [m \in Asks |-> NoMessage]
    /\ sending = FALSE /\ checking = Nothing
    /\ task = [t \in Tasks |-> NoTask]
    /\ scoring = [m \in Asks |-> 0]
    /\ disturbed = {}

Listed(chats) == {chats[i] : i \in 1..Len(chats)}
Whole(text) == [i \in 1..Parts |-> <<text, i>>]

\* updateMessage finds nothing of a deleted conversation.
Kept(m) == message[m].in # Nothing
Update(m, new) == message' = IF Kept(m) THEN [message EXCEPT ![m] = new] ELSE message
Without(chats) ==
    message' = [m \in Asks |-> IF message[m].in \in chats THEN Deleted ELSE message[m]]

-----------------------------------------------------------------------------
(* Conversations. *)

\* startNewThread
NewChat(c) ==
    /\ c \notin used
    /\ list' = <<c>> \o list
    /\ used' = used \cup {c} /\ active' = c
    /\ UNCHANGED <<serverVars, thread, message, taskVars>>

Select(c) ==
    /\ c \in Listed(list) \ {active}
    /\ active' = c
    /\ UNCHANGED <<serverVars, list, used, thread, message, taskVars>>

\* deleteThread: the first that is left is shown in place of the active one, a
\* new one when none is.
Delete(c) ==
    /\ \E i \in 1..Len(list) :
       LET rest == SubSeq(list, 1, i - 1) \o SubSeq(list, i + 1, Len(list)) IN
       /\ list[i] = c
       /\ \/ rest # <<>> /\ list' = rest /\ UNCHANGED used
          \/ /\ rest = <<>>
             /\ \E d \in Chats \ used : list' = <<d>> /\ used' = used \cup {d}
    /\ active' = IF c = active THEN Head(list') ELSE active
    /\ Without({c})
    /\ UNCHANGED <<serverVars, thread, taskVars>>

-----------------------------------------------------------------------------
(* Revealing a text, as part of the task t. *)

\* Mutant: what the message said before stays in front.
MutOpening(m, text) == message[m].content \o <<<<text, 1>>>>

\* revealAnswer empties the message, and the first piece follows at once.
Opening(m, text) == <<<<text, 1>>>>

Revealing(t, m, text) ==
    task' = [task EXCEPT ![t] = [pc |-> "revealing", ask |-> m, text |-> text, next |-> 2]]

Ended(t) == task' = [task EXCEPT ![t] = NoTask]

\* streamText: the next piece ...
Piece(t) ==
    LET m == task[t].ask IN
    /\ task[t].pc = "revealing" /\ task[t].next <= Parts
    /\ Update(m, [message[m] EXCEPT !.content = @ \o <<<<task[t].text, task[t].next>>>>])
    /\ task' = [task EXCEPT ![t].next = @ + 1]
    /\ UNCHANGED <<serverVars, chatVars, sending, checking, scoring, disturbed>>

\* ... or all are out.  A check then frees the button, whosoever it shows busy.
RevealEnds(t) ==
    LET m == task[t].ask IN
    /\ task[t].pc = "revealing" /\ task[t].next > Parts
    /\ Update(m, [message[m] EXCEPT !.status = "done"])
    /\ checking' = IF t \in Checks THEN Nothing ELSE checking
    /\ Ended(t)
    /\ UNCHANGED <<serverVars, chatVars, sending, scoring, disturbed>>

-----------------------------------------------------------------------------
(* Asking. *)

\* Mutant: a second question may be sent while the first is out.
MutMaySend(m) == TRUE

\* send returns at once while another question is out.
MaySend(m) == ~sending

\* It is sent with the thread of the conversation shown.
Send(m) ==
    /\ message[m].status = "none" /\ MaySend(m)
    /\ message' = [message EXCEPT ![m] = [NoMessage EXCEPT !.in = active,
                                                           !.status = "thinking"]]
    /\ sent' = [sent EXCEPT ![m] = {thread[active]}]
    /\ task' = [task EXCEPT ![m].pc = "waiting", ![m].ask = m]
    /\ sending' = TRUE
    /\ UNCHANGED <<reply, review, chatVars, checking, scoring, disturbed>>

\* Mutant: an error leaves the page waiting.
MutStillSending(m) == reply[m] = "failed"

\* Every branch of send frees the page as soon as the reply is there.
StillSending(m) == FALSE

\* An answer is revealed and its scores are fetched beside it; the other replies
\* are shown as they are.  Refusals and errors bring no thread.
Returned(m) ==
    /\ task[m].pc = "waiting" /\ reply[m] # "none"
    /\ sending' = StillSending(m)
    /\ thread' = IF reply[m] \in {"refused", "failed"} \/ ~Kept(m) THEN thread
                 ELSE [thread EXCEPT ![message[m].in] = ThreadOf(m)]
    /\ \/ /\ reply[m] = "answered"
          /\ Update(m, [message[m] EXCEPT !.kind = "answer", !.status = "streaming",
                                          !.content = Opening(m, <<m, "answer">>)])
          /\ Revealing(m, m, <<m, "answer">>)
          /\ scoring' = [scoring EXCEPT ![m] = Polls]
       \/ /\ reply[m] # "answered"
          /\ Update(m, [message[m] EXCEPT !.kind = reply[m],
                                          !.status = IF reply[m] = "failed" THEN "error"
                                                     ELSE "done",
                                          !.content = Whole(<<m, "reason">>)])
          /\ Ended(m) /\ UNCHANGED scoring
    /\ UNCHANGED <<serverVars, list, used, active, checking, disturbed>>

\* fetchQuality: scores that are there are kept; the last poll gives up.
Poll(m) ==
    /\ scoring[m] > 0
    /\ \E left \in {0, scoring[m] - 1} :
          /\ scoring' = [scoring EXCEPT ![m] = left]
          /\ Update(m, [message[m] EXCEPT !.scored = (left = 0)])
    /\ UNCHANGED <<serverVars, chatVars, sending, checking, task, disturbed>>

-----------------------------------------------------------------------------
(* Checking whether an escalated answer was released. *)

Checkable(m) ==
    /\ message[m].kind = "pending_review" /\ ~message[m].released
    /\ message[m].in = active /\ checking # m

Check(t, m) ==
    /\ t \in Checks /\ task[t].pc = "idle" /\ Checkable(m)
    /\ checking' = m
    /\ task' = [task EXCEPT ![t].pc = "waiting", ![t].ask = m]
    /\ disturbed' = IF \E c \in Checks : task[c].ask = m THEN disturbed \cup {m}
                    ELSE disturbed
    /\ UNCHANGED <<serverVars, chatVars, message, sending, scoring>>

\* checkStatus: a released answer is revealed in place of the reason; any other
\* status, or an error, ends the check.
Checked(t) ==
    LET m == task[t].ask IN
    /\ t \in Checks /\ task[t].pc = "waiting"
    /\ \/ /\ review[m] = "answered"
          /\ Update(m, [message[m] EXCEPT !.released = TRUE, !.status = "streaming",
                                          !.content = Opening(m, <<m, "released">>)])
          /\ Revealing(t, m, <<m, "released">>)
          /\ UNCHANGED checking
       \/ /\ Ended(t)
          /\ checking' = Nothing /\ UNCHANGED message
    /\ UNCHANGED <<serverVars, chatVars, sending, scoring, disturbed>>

-----------------------------------------------------------------------------
(* The page is left or reloaded: every task is lost, and what comes back is *)
(* what saveThreads kept, with nothing thinking or streaming.               *)

Cut == {m \in Asks : message[m].status \in {"thinking", "streaming"}}

\* clean, in saveThreads
Cleaned(m) == IF m \in Cut THEN [message[m] EXCEPT !.status = "done"] ELSE message[m]

Reload ==
    LET kept == SubSeq(list, 1, IF Len(list) < Stored THEN Len(list) ELSE Stored)
        Back(m) == message[m].in \in Listed(kept)
    IN  /\ list' = kept /\ active' = Head(kept)
        /\ message' = [m \in Asks |->
                          IF Back(m) THEN Cleaned(m)
                          ELSE IF Kept(m) THEN Deleted ELSE message[m]]
        \* Answers that have no scores yet ask for them again.
        /\ scoring' = [m \in Asks |->
                          IF Back(m) /\ message[m].kind = "answer" /\ ~message[m].scored
                          THEN Polls ELSE 0]
        /\ task' = [t \in Tasks |-> NoTask]
        /\ sending' = FALSE /\ checking' = Nothing
        /\ disturbed' = disturbed \cup Cut
        /\ UNCHANGED <<serverVars, used, thread>>

-----------------------------------------------------------------------------
Server(m) ==
    /\ Serve(m) \/ Review(m) \/ Reopen(m)
    /\ UNCHANGED <<chatVars, message, taskVars>>
Task(t) == Piece(t) \/ RevealEnds(t) \/ Checked(t)

Next ==
    \/ \E c \in Chats : NewChat(c) \/ Select(c) \/ Delete(c)
    \/ \E m \in Asks : Server(m) \/ Send(m) \/ Returned(m) \/ Poll(m)
    \/ \E t \in Tasks : Task(t) \/ \E m \in Asks : Check(t, m)
    \/ Reload

\* The server answers every call, and the browser delivers every answer and runs
\* every timer of a page that stays open.
Fairness ==
    /\ \A m \in Asks : WF_vars(Serve(m) /\ UNCHANGED <<chatVars, message, taskVars>>)
                       /\ WF_vars(Returned(m)) /\ WF_vars(Poll(m))
    /\ \A t \in Tasks : WF_vars(Task(t))

Spec == Init /\ [][Next]_vars /\ Fairness
-----------------------------------------------------------------------------
(* Properties. *)

\* A message that is done shows, in whole and in order, what its own question was
\* answered or, of an escalated one, what a check was told it was answered, and
\* nothing of the reason that stood there before: however sends, checks and reveals of several messages
\* interleave.  Only a reload in the middle and two checks of it at once tear one.
DoneMessagesAreWhole ==
    \A m \in Asks : message[m].status = "done" /\ m \notin disturbed =>
        /\ message[m].kind = "answer" => message[m].content = Whole(<<m, "answer">>)
        /\ message[m].released =>
               message[m].kind = "pending_review"
               /\ message[m].content = Whole(<<m, "released">>)

\* Whatever is shown, begun, deleted or reloaded while a question is out, all that
\* was answered in one conversation belongs to the thread its follow-ups go to.
ConversationIsOneThread ==
    \A m \in Asks :
        message[m].kind \in {"answer", "pending_review", "clarification_required"} =>
            thread[message[m].in] = ThreadOf(m)

\* The page never stays busy: a question frees it, a check its button, a reveal
\* ends and the wait for scores too, whatever fails and whichever other task runs.
\* A user who reloads without end starts the polls anew without end.
NothingStaysBusy ==
    /\ sending ~> ~sending
    /\ \A m \in Asks :
          /\ checking = m ~> checking # m
          /\ message[m].status = "streaming" ~> message[m].status # "streaming"
          /\ <>[][~Reload]_vars =>
                (message[m].kind = "answer" ~> message[m].scored \/ ~Kept(m))
=============================================================================
