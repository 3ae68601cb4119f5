-------------------------- MODULE ReviewQueueProofs --------------------------
(***************************************************************************)
(* What ReviewQueue keeps for any number of submissions, refusals and      *)
(* restarts, whatever fails.  The safety properties are inductive together *)
(* with the count of the releases.  What the asker sees is a request of    *)
(* ServedRequests.                                                         *)
(***************************************************************************)
EXTENDS ReviewQueue, TLAPS

\* The request was released once if its row says so, and not at all otherwise.
ReleaseIsCounted ==
    releases = IF row.answer = "released" THEN 1 ELSE 0

IInv == TypeOK /\ OneOwner /\ RowIsConsistent /\ ReleaseIsCounted

\* Nothing is owned and the row is empty when the run reaches its last node.
LEMMA InitInvariant == Init => IInv
BY SubmissionAssumption, BoundAssumption
   DEF Init, IInv, TypeOK, OneOwner, Owning, RowIsConsistent, ReleaseIsCounted,
       EmptyRow, Rows, Statuses, Checkpoints, Steps

\* Types are kept by every step on their own.
LEMMA TypesKept == TypeOK /\ [Next]_vars => TypeOK'
<1> SUFFICES ASSUME TypeOK, [Next]_vars PROVE TypeOK'
  OBVIOUS
<1> USE BoundAssumption DEF TypeOK, Rows, Statuses, Checkpoints, Steps, Goto
<1>1. CASE Enqueue
  BY <1>1 DEF Enqueue, PendingRow, EmptyRow
<1>2. CASE Interrupt
  BY <1>2 DEF Interrupt
<1>3. ASSUME NEW s \in Submissions, Fetch(s) PROVE TypeOK'
  BY <1>3 DEF Fetch
<1>4. ASSUME NEW s \in Submissions, Check(s) PROVE TypeOK'
  BY <1>4 DEF Check
<1>5. ASSUME NEW s \in Submissions, Record(s) PROVE TypeOK'
  <2>1. choice[s] \in {"accept", "reject"}
    BY DecisionAssumption
  <2>2. QED
    BY <1>5, <2>1 DEF Record
<1>6. ASSUME NEW s \in Submissions, Update(s) PROVE TypeOK'
  <2>1. Updated(choice[s]) \in Checkpoints
    BY DEF Updated
  <2>2. QED
    BY <1>6, <2>1 DEF Update
<1>7. ASSUME NEW s \in Submissions, Resume(s) PROVE TypeOK'
  BY <1>7 DEF Resume
<1>8. ASSUME NEW s \in Submissions, Reopen(s) PROVE TypeOK'
  BY <1>8 DEF Reopen, PendingRow, EmptyRow
<1>9. ASSUME NEW s \in Submissions, Store(s) PROVE TypeOK'
  BY <1>9 DEF Store
<1>10. CASE Poll
  BY <1>10 DEF Poll
<1>11. CASE Restart
  BY <1>11 DEF Restart
<1>12. CASE UNCHANGED vars
  BY <1>12 DEF vars
<1>13. QED
  BY <1>1, <1>2, <1>3, <1>4, <1>5, <1>6, <1>7, <1>8, <1>9, <1>10, <1>11, <1>12
     DEF Next, InHandler

\* The rest of the invariant: a submission owns the row from the UPDATE that made
\* it "reviewed" to its own last UPDATE, and no other can take it meanwhile.
LEMMA InvariantKept == IInv /\ [Next]_vars => IInv'
<1> SUFFICES ASSUME IInv, [Next]_vars PROVE IInv'
  OBVIOUS
<1>t. TypeOK'
  BY TypesKept DEF IInv
<1>i. TypeOK /\ OneOwner /\ RowIsConsistent /\ ReleaseIsCounted
  BY DEF IInv
<1> USE DEF Rows, Statuses, Checkpoints, Steps, Goto
<1>1. CASE Enqueue
  <2>1. row' = row \/ (row.status = "none" /\ row' = PendingRow)
    BY <1>1 DEF Enqueue
  <2>2. UNCHANGED <<pc, choice, releases>>
    BY <1>1 DEF Enqueue
  <2>3. CASE row' = row
    BY <1>i, <1>t, <2>2, <2>3 DEF IInv, OneOwner, Owning, RowIsConsistent, ReleaseIsCounted
  <2>4. CASE row.status = "none" /\ row' = PendingRow
    <3>1. \A s \in Submissions : ~Owning(s) /\ ~Owning(s)'
      BY <1>i, <2>2, <2>4 DEF OneOwner, Owning
    <3>2. OneOwner'
      BY <3>1 DEF OneOwner
    <3>3. RowIsConsistent' /\ ReleaseIsCounted'
      BY <1>i, <2>2, <2>4 DEF RowIsConsistent, ReleaseIsCounted, PendingRow, EmptyRow
    <3>4. QED
      BY <1>t, <3>2, <3>3 DEF IInv
  <2>5. QED
    BY <2>1, <2>3, <2>4
<1>2. CASE Interrupt \/ Poll \/ UNCHANGED vars
  <2>1. UNCHANGED <<row, pc, choice, releases>>
    BY <1>2 DEF Interrupt, Poll, vars
  <2>2. QED
    BY <1>i, <1>t, <2>1 DEF IInv, OneOwner, Owning, RowIsConsistent, ReleaseIsCounted
<1>3. ASSUME NEW s \in Submissions, Fetch(s) \/ Check(s) PROVE IInv'
  \* Neither owning nor taking the row.
  <2>1. UNCHANGED <<row, releases>>
    BY <1>3 DEF Fetch, Check
  <2>2. /\ pc' = [pc EXCEPT ![s] = pc'[s]]
        /\ ~Owning(s) /\ ~Owning(s)'
        /\ \A t \in Submissions \ {s} : choice'[t] = choice[t]
    BY <1>3, <1>i, <1>t DEF Fetch, Check, Owning, TypeOK
  <2>3. \A t \in Submissions : Owning(t)' =>
            t # s /\ Owning(t) /\ pc'[t] = pc[t] /\ choice'[t] = choice[t]
    BY <2>2, <1>i DEF Owning, TypeOK
  <2>4. QED
    BY <1>i, <1>t, <2>1, <2>3 DEF IInv, OneOwner, RowIsConsistent, ReleaseIsCounted
<1>4. ASSUME NEW s \in Submissions, Record(s) PROVE IInv'
  <2>1. UNCHANGED <<choice, releases>>
    BY <1>4 DEF Record
  <2>2. CASE row.status = "pending"
    <3>1. \A t \in Submissions : ~Owning(t)
      BY <1>i, <2>2 DEF OneOwner
    <3>2. /\ pc' = [pc EXCEPT ![s] = "update"]
          /\ row' = [status |-> "reviewed", decision |-> choice[s],
                     answer |-> IF choice[s] = "accept" THEN "raw" ELSE "none"]
      BY <1>4, <2>2 DEF Record
    <3>3. \A t \in Submissions : Owning(t)' => t = s
      BY <1>i, <3>1, <3>2 DEF Owning, TypeOK
    <3>4. choice[s] \in {"accept", "reject"} /\ pc'[s] = "update"
      BY <1>i, <3>2, DecisionAssumption DEF TypeOK
    <3>5. OneOwner'
      BY <2>1, <3>2, <3>3, <3>4 DEF OneOwner
    <3>6. RowIsConsistent' /\ ReleaseIsCounted'
      BY <1>i, <2>1, <2>2, <3>2, <3>4 DEF RowIsConsistent, ReleaseIsCounted
    <3>7. QED
      BY <1>t, <3>5, <3>6 DEF IInv
  <2>3. CASE row.status # "pending"
    <3>1. row' = row /\ pc' = [pc EXCEPT ![s] = "idle"]
      BY <1>4, <2>3 DEF Record
    <3>2. \A t \in Submissions : Owning(t)' => Owning(t) /\ pc'[t] = pc[t]
      BY <1>i, <3>1 DEF Owning, TypeOK
    <3>3. QED
      BY <1>i, <1>t, <2>1, <3>1, <3>2 DEF IInv, OneOwner, RowIsConsistent, ReleaseIsCounted
  <2>4. QED
    BY <2>2, <2>3
<1>5. ASSUME NEW s \in Submissions, Update(s) \/ Resume(s) PROVE IInv'
  \* The owner goes on, or lets go of a row that is reviewed for good.
  <2>1. UNCHANGED <<row, choice, releases>>
    BY <1>5 DEF Update, Resume
  <2>2. Owning(s)
    BY <1>5 DEF Update, Resume, Owning
  <2>3. \A t \in Submissions \ {s} : pc'[t] = pc[t]
    BY <1>5, <1>i DEF Update, Resume, TypeOK
  <2>4. pc'[s] \in {"resume", "reopen", "store"} => choice[s] = "accept"
    BY <1>5, <1>i, <2>2 DEF Update, Resume, TypeOK, OneOwner
  <2>5. \A t \in Submissions : Owning(t)' => t = s
    BY <1>i, <2>2, <2>3 DEF Owning, OneOwner
  <2>6. QED
    BY <1>i, <1>t, <2>1, <2>2, <2>4, <2>5 DEF IInv, OneOwner, RowIsConsistent, ReleaseIsCounted
<1>6. ASSUME NEW s \in Submissions, Reopen(s) \/ Store(s) PROVE IInv'
  \* The owner's last step: nobody owns the row afterwards.
  <2>1. Owning(s)
    BY <1>6 DEF Reopen, Store, Owning
  <2>2. pc' = [pc EXCEPT ![s] = "idle"]
    BY <1>6 DEF Reopen, Store
  <2>3. \A t \in Submissions : ~Owning(t)'
    BY <1>i, <2>1, <2>2 DEF Owning, OneOwner, TypeOK
  <2>4. OneOwner'
    BY <2>3 DEF OneOwner
  <2>5. row.status = "reviewed" /\ row.decision = "accept" /\ row.answer # "released"
    BY <1>6, <1>i, <2>1 DEF OneOwner, Reopen, Store
  <2>6. RowIsConsistent' /\ ReleaseIsCounted'
    <3>1. CASE Reopen(s)
      BY <3>1, <1>i, <2>5 DEF Reopen, RowIsConsistent, ReleaseIsCounted, PendingRow, EmptyRow
    <3>2. CASE Store(s)
      BY <3>2, <1>i, <2>5 DEF Store, RowIsConsistent, ReleaseIsCounted, TypeOK
    <3>3. QED
      BY <1>6, <3>1, <3>2
  <2>7. QED
    BY <1>t, <2>4, <2>6 DEF IInv
<1>7. CASE Restart
  <2>1. UNCHANGED <<row, choice, releases>>
    BY <1>7 DEF Restart
  <2>2. \A t \in Submissions : ~Owning(t)'
    BY <1>7 DEF Restart, Owning
  <2>3. QED
    BY <1>i, <1>t, <2>1, <2>2 DEF IInv, OneOwner, RowIsConsistent, ReleaseIsCounted
<1>8. QED
  BY <1>1, <1>2, <1>3, <1>4, <1>5, <1>6, <1>7 DEF Next, InHandler

\* The invariant holds of every reachable state.
THEOREM Invariant == Spec => []IInv
BY InitInvariant, InvariantKept, PTL DEF Spec

\* Every variable keeps its type.
THEOREM TypeCorrect == Spec => []TypeOK
<1>1. IInv => TypeOK
  BY DEF IInv
<1>2. QED
  BY <1>1, Invariant, PTL

\* The submission whose UPDATE won owns the row until its own last UPDATE.
THEOREM OwnedByOne == Spec => []OneOwner
<1>1. IInv => OneOwner
  BY DEF IInv
<1>2. QED
  BY <1>1, Invariant, PTL

\* No row shows anything of a decision that was taken back.
THEOREM RowConsistent == Spec => []RowIsConsistent
<1>1. IInv => RowIsConsistent
  BY DEF IInv
<1>2. QED
  BY <1>1, Invariant, PTL

\* However many reviewers race and however often the request is reopened, one
\* answer is released at most.
THEOREM ReleasedOnce == Spec => []ReleasedAtMostOnce
<1>1. IInv => ReleasedAtMostOnce
  BY DEF IInv, ReleaseIsCounted, ReleasedAtMostOnce
<1>2. QED
  BY <1>1, Invariant, PTL

\* A step from a state of the invariant leaves a settled row alone.
LEMMA SettledKept == IInv /\ [Next]_vars => (Settled => row' = row)
<1> SUFFICES ASSUME IInv, [Next]_vars, Settled PROVE row' = row
  OBVIOUS
<1>1. row.status = "reviewed"
  BY DEF IInv, TypeOK, Rows, Statuses, RowIsConsistent, Settled
<1>2. CASE Enqueue
  BY <1>1, <1>2 DEF Enqueue
<1>3. ASSUME NEW s \in Submissions, Record(s) PROVE row' = row
  BY <1>1, <1>3 DEF Record
<1>4. ASSUME NEW s \in Submissions, Reopen(s) \/ Store(s) PROVE row' = row
  \* Impossible: the row of an owner past "update" is an unreleased accept.
  BY <1>4 DEF IInv, OneOwner, Owning, Reopen, Store, Settled
<1>5. QED
  BY <1>2, <1>3, <1>4
     DEF Next, InHandler, Interrupt, Poll, Restart, Fetch, Check, Update, Resume, vars

\* A release and a rejection are final, for any number of submissions.
THEOREM FinalDecisions == Spec => DecisionIsFinal
BY SettledKept, Invariant, PTL DEF Spec, DecisionIsFinal

-----------------------------------------------------------------------------
(* What the asker sees: one request of ServedRequests, from the question on  *)
(* that was sent without a thread.                                           *)

\* The call replies when its run is over: with an error when the server was
\* restarted under it.  GET /requests is of use from then on.
ServedReply ==
    IF run = "done" THEN "pending_review" ELSE IF run = "cut" THEN "failed" ELSE "none"
ServedReview ==
    IF run # "done" THEN "none"
    ELSE IF row.status = "reviewed" /\ row.decision # "reject" THEN "answered"
    ELSE "unanswered"

Served == INSTANCE ServedRequests
    WITH Asks <- {"request"}, Nothing <- "nothing",
         sent <- [m \in {"request"} |-> {"nothing"}],
         reply <- [m \in {"request"} |-> ServedReply],
         review <- [m \in {"request"} |-> ServedReview]

ServedStep ==
    \/ Served!Serve("request") \/ Served!Review("request") \/ Served!Reopen("request")
    \/ UNCHANGED Served!serverVars

\* Which change of the two is a step of ServedRequests.
LEMMA ServedSteps ==
    ASSUME \/ UNCHANGED <<ServedReply, ServedReview>>
           \/ /\ ServedReply = "none" /\ ServedReply' = "failed"
              /\ UNCHANGED ServedReview
           \/ /\ ServedReply = "none" /\ ServedReply' = "pending_review"
              /\ ServedReview' \in {"unanswered", "answered"}
           \/ /\ UNCHANGED ServedReply
              /\ \/ ServedReview = "unanswered" /\ ServedReview' = "answered"
                 \/ ServedReview = "answered" /\ ServedReview' = "unanswered"
    PROVE  ServedStep
<1> HIDE DEF ServedReply, ServedReview
<1>1. CASE UNCHANGED <<ServedReply, ServedReview>>
  BY <1>1 DEF ServedStep, Served!serverVars
<1>2. CASE ServedReply = "none" /\ ServedReply' = "failed" /\ UNCHANGED ServedReview
  BY <1>2 DEF ServedStep, Served!Serve, Served!Replies
<1>3. CASE /\ ServedReply = "none" /\ ServedReply' = "pending_review"
           /\ ServedReview' \in {"unanswered", "answered"}
  BY <1>3 DEF ServedStep, Served!Serve, Served!Replies
<1>4. CASE UNCHANGED ServedReply /\ ServedReview = "unanswered" /\ ServedReview' = "answered"
  BY <1>4 DEF ServedStep, Served!Review
<1>5. CASE UNCHANGED ServedReply /\ ServedReview = "answered" /\ ServedReview' = "unanswered"
  BY <1>5 DEF ServedStep, Served!Reopen
<1>6. QED
  BY <1>1, <1>2, <1>3, <1>4, <1>5

LEMMA StepIsServed == TypeOK /\ [Next]_vars => ServedStep
<1> SUFFICES ASSUME TypeOK, [Next]_vars PROVE ServedStep
  OBVIOUS
<1>1. run \in {"escalating", "notifying", "done", "cut"} /\ row \in Rows
  BY DEF TypeOK
<1>2. CASE UNCHANGED <<run, row>>
  BY <1>2, ServedSteps DEF ServedReply, ServedReview
<1>3. CASE Enqueue
  BY <1>3, ServedSteps DEF Enqueue, ServedReply, ServedReview
<1>4. CASE Interrupt
  BY <1>4, ServedSteps DEF Interrupt, ServedReply, ServedReview
<1>5. CASE Restart
  <2>1. row' = row /\ run' = IF run = "done" THEN "done" ELSE "cut"
    BY <1>5 DEF Restart
  <2>2. QED
    BY <1>1, <2>1, ServedSteps DEF ServedReply, ServedReview
<1>6. ASSUME NEW s \in Submissions, Record(s) \/ Reopen(s) PROVE ServedStep
  <2>1. run' = run
    BY <1>6 DEF Record, Reopen
  <2>2. QED
    BY <2>1, ServedSteps DEF ServedReply, ServedReview
<1>7. ASSUME NEW s \in Submissions, Store(s) PROVE ServedStep
  <2>1. run' = run /\ row'.status = row.status /\ row'.decision = row.decision
    BY <1>1, <1>7 DEF Store, Rows
  <2>2. QED
    BY <2>1, ServedSteps DEF ServedReply, ServedReview
<1>8. QED
  BY <1>2, <1>3, <1>4, <1>5, <1>6, <1>7
     DEF Next, InHandler, Poll, Fetch, Check, Update, Resume, vars

\* Whatever submissions, faults and restarts there are, an escalated request goes
\* through the steps that ServedRequests shows the page: an answer may be taken back
\* and given again, and a call that was cut off has failed for good.
THEOREM ImplementsServed == Spec => [][ServedStep]_(Served!serverVars)
BY StepIsServed, TypeCorrect, PTL DEF Spec
=============================================================================
