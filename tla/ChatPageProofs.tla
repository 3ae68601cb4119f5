--------------------------- MODULE ChatPageProofs ---------------------------
(***************************************************************************)
(* What the chat page keeps however its sends, checks and reveals          *)
(* interleave, for any number of questions, conversations, checks under    *)
(* way and pieces of a text.  That nothing stays busy is left to TLC.      *)
(***************************************************************************)
EXTENDS ChatPage, TLAPS, SequenceTheorems

-----------------------------------------------------------------------------
(* Types.                                                                   *)

Texts == Asks \X {"answer", "released", "reason"}
Statuses == {"none", "thinking", "streaming", "done", "error", "deleted"}
Kinds == {"none", "answer"} \cup Replies
Pieces == (Texts \cup {Nothing}) \X Nat
Messages == [in : Chats \cup {Nothing}, status : Statuses, kind : Kinds,
             content : Seq(Pieces), released : BOOLEAN, scored : BOOLEAN]
TaskStates == [pc : {"idle", "waiting", "revealing"}, ask : Asks \cup {Nothing},
               text : Texts \cup {Nothing}, next : Nat]

ServerTypes ==
    /\ sent \in [Asks -> SUBSET (Asks \cup {Nothing})]
    /\ reply \in [Asks -> Replies \cup {"none"}]
    /\ review \in [Asks -> {"none", "unanswered", "answered"}]

ChatTypes ==
    /\ list \in Seq(Chats) /\ list # <<>>
    /\ used \subseteq Chats /\ active \in Chats

PageTypes ==
    /\ thread \in [Chats -> Asks \cup {Nothing}]
    /\ message \in [Asks -> Messages]
    /\ sending \in BOOLEAN /\ checking \in Asks \cup {Nothing}
    /\ task \in [Tasks -> TaskStates]
    /\ scoring \in [Asks -> Nat]
    /\ disturbed \subseteq Asks

TypeOK == ServerTypes /\ ChatTypes /\ PageTypes

-----------------------------------------------------------------------------
(* The invariant.                                                           *)

Prefix(text, n) == [i \in 1..n |-> <<text, i>>]

\* What a message's kind says of the rest of it.
MessageFits(m) ==
    /\ message[m].kind # "none" => Kept(m)
    /\ Kept(m) => message[m].status \notin {"none", "deleted"}
    /\ message[m].released => message[m].kind = "pending_review"

\* A send is the task of its own question, a check one of an escalated one; a task
\* outlives the message when its conversation is deleted.
TaskFits(t) ==
    /\ task[t].pc = "idle" => task[t] = NoTask
    /\ task[t].pc # "idle" =>
        /\ task[t].ask \in Asks /\ message[task[t].ask].status # "none"
        /\ t \in Asks => task[t].ask = t /\ sent[t] # {}
        /\ Kept(task[t].ask) =>
            message[task[t].ask].kind =
                IF t \in Checks THEN "pending_review"
                ELSE IF task[t].pc = "revealing" THEN "answer" ELSE "none"

\* What has been revealed of a text is all that the message shows.
RevealFits(t) ==
    LET m == task[t].ask IN
    task[t].pc = "revealing" /\ Kept(m) /\ m \notin disturbed =>
        /\ task[t].next \in 2..(Parts + 1)
        /\ message[m].status = "streaming"
        /\ message[m].content = Prefix(task[t].text, task[t].next - 1)
        /\ t \in Asks => task[t].text = <<m, "answer">>
        /\ t \in Checks => message[m].released /\ task[t].text = <<m, "released">>

\* One task at a time works on a message that nothing disturbed.
OneTaskEach ==
    \A t, o \in Tasks :
        task[t].pc # "idle" /\ task[t].ask \notin disturbed /\ task[o].ask = task[t].ask => o = t

RevealInv ==
    /\ \A m \in Asks : MessageFits(m)
    /\ \A t \in Tasks : TaskFits(t) /\ RevealFits(t)
    /\ OneTaskEach
    /\ DoneMessagesAreWhole

\* At most one question is out, and it carries the thread its conversation has.
QuestionIsOut(m) == task[m].pc = "waiting"
OneQuestionOut ==
    \A m \in Asks : QuestionIsOut(m) =>
        /\ sending
        /\ \A o \in Asks : QuestionIsOut(o) => o = m
        /\ Kept(m) => sent[m] = {thread[message[m].in]}

ThreadInv ==
    /\ OneQuestionOut
    /\ \A m \in Asks :
        message[m].kind \in {"answer", "pending_review", "clarification_required"} =>
            thread[message[m].in] # Nothing /\ thread[message[m].in] = ThreadOf(m)

IInv == TypeOK /\ RevealInv /\ ThreadInv

-----------------------------------------------------------------------------
(* What the helpers return.                                                 *)

LEMMA PrefixIsTyped ==
    ASSUME NEW text \in Texts \cup {Nothing}, NEW n \in Nat
    PROVE  Prefix(text, n) \in Seq(Pieces) /\ Len(Prefix(text, n)) = n
<1>1. Prefix(text, n) \in [1..n -> Pieces]
  BY DEF Prefix, Pieces
<1>2. QED
  BY <1>1 DEF Prefix

LEMMA PrefixGrows ==
    ASSUME NEW text \in Texts \cup {Nothing}, NEW n \in Nat
    PROVE  Prefix(text, n) \o <<<<text, n + 1>>>> = Prefix(text, n + 1)
<1> DEFINE p == Prefix(text, n)
           q == Prefix(text, n + 1)
<1>1. p \in Seq(Pieces) /\ Len(p) = n /\ q \in Seq(Pieces) /\ Len(q) = n + 1
  BY PrefixIsTyped
<1>2. /\ \A i \in 1..n : p[i] = <<text, i>>
      /\ \A i \in 1..(n + 1) : q[i] = <<text, i>>
  BY DEF Prefix
<1> DEFINE last == <<<<text, n + 1>>>>
<1>3. last \in Seq(Pieces) /\ Len(last) = 1 /\ last[1] = <<text, n + 1>>
  BY DEF Pieces
<1> HIDE DEF p, q, last
<1>4. /\ p \o last \in Seq(Pieces) /\ Len(p \o last) = n + 1
      /\ \A i \in 1..(n + 1) : (p \o last)[i] = IF i <= n THEN p[i] ELSE last[i - n]
  <2>1. /\ p \o last \in Seq(Pieces) /\ Len(p \o last) = Len(p) + Len(last)
        /\ \A i \in 1..(Len(p) + Len(last)) :
              (p \o last)[i] = IF i <= Len(p) THEN p[i] ELSE last[i - Len(p)]
    BY <1>1, <1>3, ConcatProperties
  <2>2. QED
    BY <2>1, <1>1, <1>3
<1>5. \A i \in 1..(n + 1) : (p \o last)[i] = q[i]
  <2> SUFFICES ASSUME NEW i \in 1..(n + 1) PROVE (p \o last)[i] = q[i]
    OBVIOUS
  <2>0. i <= n \/ i = n + 1
    OBVIOUS
  <2>1. CASE i <= n
    <3>1. i \in 1..n
      BY <2>1
    <3>2. p[i] = q[i]
      BY <3>1, <1>2
    <3>3. QED
      BY <2>1, <3>2, <1>4
  <2>2. CASE i = n + 1
    <3>1. (p \o last)[i] = last[1]
      BY <2>2, <1>4
    <3>2. QED
      BY <2>2, <3>1, <1>2, <1>3
  <2>3. QED
    BY <2>0, <2>1, <2>2
<1>6. p \o last = q
  BY <1>1, <1>4, <1>5, SeqEqual
<1>7. QED
  BY <1>6 DEF last, p, q

LEMMA OpeningIsPrefix ==
    ASSUME NEW m, NEW text \in Texts
    PROVE  Opening(m, text) = Prefix(text, 1) /\ Opening(m, text) \in Seq(Pieces)
<1>1. Opening(m, text) \in Seq(Pieces) /\ Len(Opening(m, text)) = 1
      /\ Opening(m, text)[1] = <<text, 1>>
  BY DEF Opening, Pieces
<1>2. Prefix(text, 1) \in Seq(Pieces) /\ Len(Prefix(text, 1)) = 1 /\ Prefix(text, 1)[1] = <<text, 1>>
  BY PrefixIsTyped DEF Prefix
<1>3. QED
  BY <1>1, <1>2, SeqEqual

LEMMA WholeIsPrefix ==
    ASSUME NEW text \in Texts
    PROVE  Whole(text) = Prefix(text, Parts) /\ Whole(text) \in Seq(Pieces)
<1>1. Whole(text) = Prefix(text, Parts)
  BY DEF Whole, Prefix
<1>2. QED
  BY <1>1, PrefixIsTyped, ChatAssumption

LEMMA UpdateChanges ==
    ASSUME message \in [Asks -> Messages], NEW m \in Asks, NEW new \in Messages, Update(m, new)
    PROVE  /\ message' \in [Asks -> Messages]
           /\ \A o \in Asks : message'[o] = IF o = m /\ Kept(m) THEN new ELSE message[o]
BY DEF Update

-----------------------------------------------------------------------------
(* Types are kept.                                                          *)

LEMMA NamesAreTyped ==
    /\ NoMessage \in Messages /\ Deleted \in Messages /\ NoTask \in TaskStates
    /\ \A m \in Asks : m \in Tasks /\ {<<m, "answer">>, <<m, "released">>, <<m, "reason">>} \subseteq Texts
    /\ \A t \in Checks : t \in Tasks
<1>1. << >> \in Seq(Pieces)
  OBVIOUS
<1>2. NoMessage \in Messages
  BY <1>1 DEF NoMessage, Messages, Statuses, Kinds
<1>3. Deleted \in Messages
  BY <1>2 DEF Deleted, Messages, Statuses
<1>4. NoTask \in TaskStates
  BY DEF NoTask, TaskStates
<1>5. QED
  BY <1>2, <1>3, <1>4 DEF Texts, Tasks

LEMMA ThreadIsTyped ==
    ASSUME ServerTypes, NEW m \in Asks, sent[m] # {}
    PROVE  ThreadOf(m) \in Asks
<1>1. (CHOOSE t \in sent[m] : TRUE) \in Asks \cup {Nothing}
  BY DEF ServerTypes
<1>2. QED
  BY <1>1 DEF ThreadOf

LEMMA InitTypes == Init => TypeOK
<1> SUFFICES ASSUME Init PROVE TypeOK
  OBVIOUS
<1>1. ServerTypes
  BY DEF Init, ServerInit, ServerTypes
<1>2. ChatTypes
  <2>1. PICK c \in Chats : list = <<c>> /\ used = {c} /\ active = c
    BY DEF Init
  <2>2. QED
    BY <2>1 DEF ChatTypes
<1>3. PageTypes
  BY NamesAreTyped DEF Init, PageTypes
<1>4. QED
  BY <1>1, <1>2, <1>3 DEF TypeOK

LEMMA ServerKeepsTypes ==
    ASSUME TypeOK, NEW m \in Asks, Server(m)
    PROVE  TypeOK'
<1>1. ServerTypes'
  BY DEF Server, Serve, Review, Reopen, Replies, TypeOK, ServerTypes
<1>2. QED
  BY <1>1 DEF Server, TypeOK, ChatTypes, PageTypes, chatVars, taskVars

LEMMA NewChatKeepsTypes ==
    ASSUME TypeOK, NEW c \in Chats, NewChat(c)
    PROVE  TypeOK'
<1>1. list' = <<c>> \o list /\ list \in Seq(Chats) /\ <<c>> \in Seq(Chats) /\ Len(<<c>>) = 1
  BY DEF NewChat, TypeOK, ChatTypes
<1>2. list' \in Seq(Chats) /\ Len(list') = 1 + Len(list)
  BY <1>1, ConcatProperties
<1>3. list' # <<>>
  BY <1>1, <1>2
<1>4. ChatTypes'
  BY <1>2, <1>3 DEF NewChat, TypeOK, ChatTypes
<1>5. QED
  BY <1>4 DEF NewChat, TypeOK, ServerTypes, PageTypes, serverVars, taskVars

LEMMA SelectKeepsTypes ==
    ASSUME TypeOK, NEW c \in Chats, Select(c)
    PROVE  TypeOK'
BY DEF Select, TypeOK, ServerTypes, ChatTypes, PageTypes, serverVars, taskVars

LEMMA DeleteKeepsTypes ==
    ASSUME TypeOK, NEW c \in Chats, Delete(c)
    PROVE  TypeOK'
<1>1. PICK i \in 1..Len(list) :
       LET rest == SubSeq(list, 1, i - 1) \o SubSeq(list, i + 1, Len(list)) IN
       /\ list[i] = c
       /\ \/ rest # <<>> /\ list' = rest /\ UNCHANGED used
          \/ /\ rest = <<>>
             /\ \E d \in Chats \ used : list' = <<d>> /\ used' = used \cup {d}
  BY DEF Delete
<1> DEFINE before == SubSeq(list, 1, i - 1)
           after == SubSeq(list, i + 1, Len(list))
<1>2. list \in Seq(Chats) /\ Len(list) \in Nat /\ \A j \in 1..Len(list) : list[j] \in Chats
  BY DEF TypeOK, ChatTypes
<1>3. before \in Seq(Chats)
  <2>1. \A j \in 1..(i - 1) : list[j] \in Chats
    BY <1>2
  <2>2. i - 1 \in Int
    BY <1>2
  <2>3. QED
    BY <2>1, <2>2, SubSeqProperties
<1>4. after \in Seq(Chats)
  <2>1. \A j \in (i + 1)..Len(list) : list[j] \in Chats
    BY <1>2
  <2>2. i + 1 \in Int /\ Len(list) \in Int
    BY <1>2
  <2>3. QED
    BY <2>1, <2>2, SubSeqProperties
<1>5. before \o after \in Seq(Chats)
  BY <1>3, <1>4, ConcatProperties
<1> HIDE DEF before, after
<1>6. list' \in Seq(Chats) /\ list' # <<>> /\ used' \subseteq Chats
  <2>1. CASE before \o after # <<>> /\ list' = before \o after /\ UNCHANGED used
    BY <2>1, <1>5 DEF TypeOK, ChatTypes
  <2>2. CASE \E d \in Chats \ used : list' = <<d>> /\ used' = used \cup {d}
    BY <2>2 DEF TypeOK, ChatTypes
  <2>3. QED
    BY <1>1, <2>1, <2>2 DEF before, after
<1>7. active' \in Chats
  <2>1. Head(list') \in Chats
    BY <1>6, HeadTailProperties
  <2>2. QED
    BY <2>1 DEF Delete, TypeOK, ChatTypes
<1>8. message' \in [Asks -> Messages]
  BY NamesAreTyped DEF Delete, Without, TypeOK, PageTypes
<1>9. QED
  BY <1>6, <1>7, <1>8 DEF Delete, TypeOK, ServerTypes, ChatTypes, PageTypes, serverVars, taskVars

LEMMA PieceKeepsTypes ==
    ASSUME TypeOK, NEW t \in Tasks, task[t].ask \in Asks, Piece(t)
    PROVE  TypeOK'
<1> DEFINE m == task[t].ask
           last == <<<<task[t].text, task[t].next>>>>
           new == [message[m] EXCEPT !.content = message[m].content \o last]
<1>1. task[t] \in TaskStates /\ message[m] \in Messages
  BY DEF TypeOK, PageTypes
<1>2. last \in Seq(Pieces) /\ message[m].content \in Seq(Pieces)
  BY <1>1 DEF TaskStates, Messages, Pieces
<1>3. message[m].content \o last \in Seq(Pieces)
  BY <1>2, ConcatProperties
<1>4. new \in Messages
  BY <1>1, <1>3 DEF Messages
<1>5. Update(m, new)
  BY DEF Piece
<1> HIDE DEF new
<1>6. message' \in [Asks -> Messages]
  BY <1>4, <1>5, UpdateChanges DEF TypeOK, PageTypes
<1>7. task' \in [Tasks -> TaskStates]
  <2>1. [task[t] EXCEPT !.next = task[t].next + 1] \in TaskStates
    BY <1>1 DEF TaskStates
  <2>2. task' = [task EXCEPT ![t] = [task[t] EXCEPT !.next = task[t].next + 1]]
    BY DEF Piece
  <2>3. QED
    BY <2>1, <2>2 DEF TypeOK, PageTypes
<1>8. QED
  BY <1>6, <1>7 DEF Piece, TypeOK, ServerTypes, ChatTypes, PageTypes, serverVars, chatVars

LEMMA RevealEndsKeepsTypes ==
    ASSUME TypeOK, NEW t \in Tasks, task[t].ask \in Asks, RevealEnds(t)
    PROVE  TypeOK'
<1> DEFINE m == task[t].ask
           new == [message[m] EXCEPT !.status = "done"]
<1>1. message[m] \in Messages
  BY DEF TypeOK, PageTypes
<1>2. new \in Messages
  BY <1>1 DEF Messages, Statuses
<1>3. Update(m, new)
  BY DEF RevealEnds
<1> HIDE DEF new
<1>4. message' \in [Asks -> Messages]
  BY <1>2, <1>3, UpdateChanges DEF TypeOK, PageTypes
<1>5. task' \in [Tasks -> TaskStates]
  BY NamesAreTyped DEF RevealEnds, Ended, TypeOK, PageTypes
<1>6. QED
  BY <1>4, <1>5 DEF RevealEnds, TypeOK, ServerTypes, ChatTypes, PageTypes, serverVars, chatVars

LEMMA SendKeepsTypes ==
    ASSUME TypeOK, NEW m \in Asks, Send(m)
    PROVE  TypeOK'
<1>1. [NoMessage EXCEPT !.in = active, !.status = "thinking"] \in Messages
  BY NamesAreTyped DEF TypeOK, ChatTypes, Messages, Statuses
<1>2. message' \in [Asks -> Messages]
  BY <1>1 DEF Send, TypeOK, PageTypes
<1>3. sent' \in [Asks -> SUBSET (Asks \cup {Nothing})]
  BY DEF Send, TypeOK, ServerTypes, PageTypes, ChatTypes
<1>4. m \in Tasks /\ task[m] \in TaskStates
  BY NamesAreTyped DEF TypeOK, PageTypes
<1>5. task' \in [Tasks -> TaskStates]
  BY <1>4 DEF Send, TypeOK, PageTypes, TaskStates
<1>6. QED
  BY <1>2, <1>3, <1>5 DEF Send, TypeOK, ServerTypes, ChatTypes, PageTypes, chatVars

LEMMA ReturnedKeepsTypes ==
    ASSUME TypeOK, NEW m \in Asks, sent[m] # {}, Returned(m)
    PROVE  TypeOK'
<1> DEFINE shown == [message[m] EXCEPT !.kind = "answer", !.status = "streaming",
                                       !.content = Opening(m, <<m, "answer">>)]
           told == [message[m] EXCEPT !.kind = reply[m],
                                      !.status = IF reply[m] = "failed" THEN "error" ELSE "done",
                                      !.content = Whole(<<m, "reason">>)]
<1>1. message[m] \in Messages /\ reply[m] \in Replies \cup {"none"}
  BY DEF TypeOK, PageTypes, ServerTypes
<1>2. Opening(m, <<m, "answer">>) \in Seq(Pieces) /\ Whole(<<m, "reason">>) \in Seq(Pieces)
  BY OpeningIsPrefix, WholeIsPrefix, NamesAreTyped
<1>3. shown \in Messages
  BY <1>1, <1>2 DEF Messages, Statuses, Kinds
<1>4. told \in Messages
  BY <1>1, <1>2 DEF Messages, Statuses, Kinds
<1>5. Update(m, shown) \/ Update(m, told)
  BY DEF Returned
<1> HIDE DEF shown, told
<1>6. message' \in [Asks -> Messages]
  BY <1>3, <1>4, <1>5, UpdateChanges DEF TypeOK, PageTypes
<1>7. task' \in [Tasks -> TaskStates]
  <2>1. [pc |-> "revealing", ask |-> m, text |-> <<m, "answer">>, next |-> 2] \in TaskStates
    BY NamesAreTyped DEF TaskStates
  <2>2. QED
    BY <2>1, NamesAreTyped DEF Returned, Revealing, Ended, TypeOK, PageTypes
<1>8. thread' \in [Chats -> Asks \cup {Nothing}]
  BY ThreadIsTyped DEF Returned, TypeOK, PageTypes
<1>9. scoring' \in [Asks -> Nat] /\ sending' \in BOOLEAN
  BY ChatAssumption DEF Returned, StillSending, TypeOK, PageTypes
<1>10. QED
  BY <1>6, <1>7, <1>8, <1>9 DEF Returned, TypeOK, ServerTypes, ChatTypes, PageTypes, serverVars

LEMMA PollKeepsTypes ==
    ASSUME TypeOK, NEW m \in Asks, Poll(m)
    PROVE  TypeOK'
<1>1. PICK left \in {0, scoring[m] - 1} :
          /\ scoring' = [scoring EXCEPT ![m] = left]
          /\ Update(m, [message[m] EXCEPT !.scored = (left = 0)])
  BY DEF Poll
<1> DEFINE new == [message[m] EXCEPT !.scored = (left = 0)]
<1>2. message[m] \in Messages /\ scoring[m] \in Nat /\ scoring[m] > 0
  BY DEF Poll, TypeOK, PageTypes
<1>3. new \in Messages
  BY <1>2 DEF Messages
<1>4. Update(m, new)
  BY <1>1
<1> HIDE DEF new
<1>5. message' \in [Asks -> Messages]
  BY <1>3, <1>4, UpdateChanges DEF TypeOK, PageTypes
<1>6. left \in Nat
  BY <1>2
<1>7. scoring' \in [Asks -> Nat]
  BY <1>1, <1>6 DEF TypeOK, PageTypes
<1>8. QED
  BY <1>5, <1>7 DEF Poll, TypeOK, ServerTypes, ChatTypes, PageTypes, serverVars, chatVars

LEMMA CheckKeepsTypes ==
    ASSUME TypeOK, NEW t \in Tasks, NEW m \in Asks, Check(t, m)
    PROVE  TypeOK'
<1>1. task[t] \in TaskStates
  BY DEF TypeOK, PageTypes
<1>2. task' \in [Tasks -> TaskStates]
  BY <1>1 DEF Check, TypeOK, PageTypes, TaskStates
<1>3. QED
  BY <1>2 DEF Check, TypeOK, ServerTypes, ChatTypes, PageTypes, serverVars, chatVars

LEMMA CheckedKeepsTypes ==
    ASSUME TypeOK, NEW t \in Tasks, task[t].ask \in Asks, Checked(t)
    PROVE  TypeOK'
<1> DEFINE m == task[t].ask
           new == [message[m] EXCEPT !.released = TRUE, !.status = "streaming",
                                     !.content = Opening(m, <<m, "released">>)]
<1>1. message[m] \in Messages /\ Opening(m, <<m, "released">>) \in Seq(Pieces)
  BY OpeningIsPrefix, NamesAreTyped DEF TypeOK, PageTypes
<1>2. new \in Messages
  BY <1>1 DEF Messages, Statuses
<1>3. Update(m, new) \/ UNCHANGED message
  BY DEF Checked
<1> HIDE DEF new
<1>4. message' \in [Asks -> Messages]
  BY <1>2, <1>3, UpdateChanges DEF TypeOK, PageTypes
<1>5. [pc |-> "revealing", ask |-> m, text |-> <<m, "released">>, next |-> 2] \in TaskStates
  BY NamesAreTyped DEF TaskStates
<1>6. task' \in [Tasks -> TaskStates]
  BY <1>5, NamesAreTyped DEF Checked, Revealing, Ended, TypeOK, PageTypes
<1>7. QED
  BY <1>4, <1>6 DEF Checked, TypeOK, ServerTypes, ChatTypes, PageTypes, serverVars, chatVars

LEMMA ReloadKeepsTypes ==
    ASSUME TypeOK, Reload
    PROVE  TypeOK'
<1> DEFINE n == IF Len(list) < Stored THEN Len(list) ELSE Stored
           kept == SubSeq(list, 1, n)
<1>1. /\ list \in Seq(Chats) /\ Len(list) \in Nat \ {0} /\ Stored \in Nat \ {0}
      /\ \A j \in 1..Len(list) : list[j] \in Chats
  BY ChatAssumption, EmptySeq DEF TypeOK, ChatTypes
<1>2. n \in 1..Len(list)
  BY <1>1
<1> HIDE DEF n
<1>3. kept \in Seq(Chats) /\ Len(kept) = n
  <2>1. \A j \in 1..n : list[j] \in Chats
    BY <1>1, <1>2
  <2>2. 1 <= n /\ n \in Int /\ n - 1 + 1 = n
    BY <1>1, <1>2
  <2>3. QED
    BY <2>1, <2>2, SubSeqProperties
<1>4. kept # <<>>
  BY <1>1, <1>2, <1>3
<1> HIDE DEF kept
<1>5. list' = kept /\ active' = Head(kept)
  BY DEF Reload, kept, n
<1>6. ChatTypes'
  BY <1>3, <1>4, <1>5, HeadTailProperties DEF Reload, TypeOK, ChatTypes
<1>7. \A m \in Asks : message'[m] \in {Cleaned(m), Deleted, message[m]} /\ Cleaned(m) \in Messages
  BY DEF Reload, Cleaned, TypeOK, PageTypes, Messages, Statuses
<1>8. message' \in [Asks -> Messages]
  <2>1. \A m \in Asks : message'[m] \in Messages
    BY <1>7, NamesAreTyped DEF TypeOK, PageTypes
  <2>2. DOMAIN message' = Asks /\ message' = [m \in Asks |-> message'[m]]
    BY DEF Reload
  <2>3. QED
    BY <2>1, <2>2
<1>9. scoring' \in [Asks -> Nat]
  BY ChatAssumption DEF Reload
<1>10. task' \in [Tasks -> TaskStates]
  BY NamesAreTyped DEF Reload
<1>11. disturbed' \subseteq Asks
  BY DEF Reload, Cut, TypeOK, PageTypes
<1>12. QED
  BY <1>6, <1>8, <1>9, <1>10, <1>11 DEF Reload, TypeOK, ServerTypes, PageTypes, serverVars

LEMMA TypesKept ==
    TypeOK /\ (\A t \in Tasks : TaskFits(t)) /\ [Next]_vars => TypeOK'
<1> SUFFICES ASSUME TypeOK, \A t \in Tasks : TaskFits(t), [Next]_vars PROVE TypeOK'
  OBVIOUS
<1>1. \A t \in Tasks : task[t].pc # "idle" => task[t].ask \in Asks
  BY DEF TaskFits
<1>2. \A m \in Asks : task[m].pc # "idle" => sent[m] # {}
  BY NamesAreTyped DEF TaskFits
<1>3. ASSUME NEW c \in Chats, NewChat(c) \/ Select(c) \/ Delete(c) PROVE TypeOK'
  BY <1>3, NewChatKeepsTypes, SelectKeepsTypes, DeleteKeepsTypes
<1>4. ASSUME NEW m \in Asks, Server(m) \/ Send(m) \/ Returned(m) \/ Poll(m) PROVE TypeOK'
  <2>1. CASE Returned(m)
    BY <2>1, <1>2, ReturnedKeepsTypes DEF Returned
  <2>2. QED
    BY <1>4, <2>1, ServerKeepsTypes, SendKeepsTypes, PollKeepsTypes
<1>5. ASSUME NEW t \in Tasks, Task(t) PROVE TypeOK'
  <2>1. task[t].ask \in Asks
    BY <1>1, <1>5 DEF Task, Piece, RevealEnds, Checked
  <2>2. QED
    BY <1>5, <2>1, PieceKeepsTypes, RevealEndsKeepsTypes, CheckedKeepsTypes DEF Task
<1>6. ASSUME NEW t \in Tasks, NEW m \in Asks, Check(t, m) PROVE TypeOK'
  BY <1>6, CheckKeepsTypes
<1>7. CASE UNCHANGED vars
  BY <1>7 DEF vars, serverVars, chatVars, taskVars, TypeOK, ServerTypes, ChatTypes, PageTypes
<1>8. QED
  BY <1>3, <1>4, <1>5, <1>6, <1>7, ReloadKeepsTypes DEF Next

-----------------------------------------------------------------------------
(* One thread per conversation.                                             *)

Begun(threads, m) == LET t == CHOOSE t \in threads : TRUE IN IF t = Nothing THEN m ELSE t

LEMMA ThreadOfOne ==
    ASSUME NEW m \in Asks, NEW x, sent[m] = {x}
    PROVE  ThreadOf(m) = IF x = Nothing THEN m ELSE x
<1>1. (CHOOSE t \in sent[m] : TRUE) = x
  OBVIOUS
<1>2. QED
  BY <1>1 DEF ThreadOf

\* No step but a send and its return writes a thread or lets a question wait.
LEMMA ThreadFrame ==
    ASSUME IInv, UNCHANGED <<sent, thread>>,
           \A m \in Asks : QuestionIsOut(m)' => QuestionIsOut(m) /\ sending',
           \A m \in Asks : \/ message'[m].in = message[m].in /\ message'[m].kind = message[m].kind
                           \/ message'[m].in = Nothing /\ message'[m].kind = "none"
    PROVE  ThreadInv'
<1>1. \A m \in Asks : ThreadOf(m)' = ThreadOf(m)
  BY DEF ThreadOf
<1>2. \A m \in Asks : Kept(m)' => Kept(m) /\ message'[m].in = message[m].in
  BY DEF Kept
<1>3. OneQuestionOut'
  BY <1>2 DEF IInv, ThreadInv, OneQuestionOut
<1>4. QED
  BY <1>1, <1>3 DEF IInv, ThreadInv

LEMMA SendKeepsThread ==
    ASSUME IInv, NEW m \in Asks, Send(m)
    PROVE  ThreadInv'
<1>1. m \in Tasks /\ \A o \in Asks : o \in Tasks
  BY DEF Tasks
<1>2. \A o \in Asks : ~QuestionIsOut(o)
  BY DEF Send, MaySend, IInv, ThreadInv, OneQuestionOut
<1>3. \A o \in Asks \ {m} : task'[o] = task[o] /\ message'[o] = message[o] /\ sent'[o] = sent[o]
  BY <1>1 DEF Send, IInv, TypeOK, ServerTypes, PageTypes
<1>4. message'[m].in = active /\ message'[m].kind = "none" /\ sent'[m] = {thread[active]}
  BY DEF Send, NoMessage, IInv, TypeOK, ServerTypes, PageTypes
<1>5. thread' = thread /\ sending'
  BY DEF Send, chatVars
<1>6. \A o \in Asks : QuestionIsOut(o)' => o = m
  BY <1>2, <1>3 DEF QuestionIsOut
<1>7. OneQuestionOut'
  BY <1>4, <1>5, <1>6 DEF OneQuestionOut
<1>8. ASSUME NEW o \in Asks \ {m} PROVE ThreadOf(o)' = ThreadOf(o)
  <2>1. sent'[o] = sent[o]
    BY <1>3
  <2>2. ThreadOf(o) = Begun(sent[o], o) /\ ThreadOf(o)' = Begun(sent'[o], o)
    BY DEF ThreadOf, Begun
  <2>3. QED
    BY <2>1, <2>2
<1>9. QED
  BY <1>3, <1>4, <1>5, <1>7, <1>8 DEF IInv, ThreadInv

LEMMA ReturnedKeepsThread ==
    ASSUME IInv, NEW m \in Asks, Returned(m)
    PROVE  ThreadInv'
<1> DEFINE c == message[m].in
           bare == reply[m] \in {"refused", "failed"} \/ ~Kept(m)
<1>1. QuestionIsOut(m) /\ m \in Tasks /\ \A o \in Asks : o \in Tasks
  BY DEF Returned, QuestionIsOut, Tasks
<1>2. \A o \in Asks \ {m} : task'[o] = task[o] /\ message'[o] = message[o]
  BY <1>1 DEF Returned, Revealing, Ended, Update, IInv, TypeOK, PageTypes
<1>3. \A o \in Asks : ~QuestionIsOut(o)'
  <2>1. task'[m].pc # "waiting"
    BY <1>1 DEF Returned, Revealing, Ended, NoTask, IInv, TypeOK, PageTypes
  <2>2. QED
    BY <1>1, <1>2, <2>1 DEF QuestionIsOut, IInv, ThreadInv, OneQuestionOut
<1>4. OneQuestionOut'
  BY <1>3 DEF OneQuestionOut
<1>5. message[m] \in Messages /\ (~Kept(m) => message'[m] = message[m])
  BY DEF Returned, Update, IInv, TypeOK, PageTypes
<1>6. Kept(m) => message'[m].in = c /\ (message'[m].kind = reply[m] \/ message'[m].kind = "answer")
                 /\ (message'[m].kind = "answer" => reply[m] = "answered" \/ reply[m] = "answer")
  BY <1>5 DEF Returned, Update, IInv, TypeOK, PageTypes, Messages
<1>7. \A o \in Asks : ThreadOf(o)' = ThreadOf(o)
  BY DEF Returned, serverVars, ThreadOf
<1>8. message[m].kind # "none" => Kept(m)
  BY DEF IInv, RevealInv, MessageFits
<1>9. CASE bare
  <2>1. thread' = thread
    BY <1>9 DEF Returned
  <2>2. message'[m].kind \notin {"answer", "pending_review", "clarification_required"}
        \/ message'[m] = message[m]
    BY <1>5, <1>6, <1>9
  <2>3. QED
    BY <1>2, <1>4, <1>7, <2>1, <2>2 DEF IInv, ThreadInv
<1>10. CASE ~bare
  <2>1. Kept(m) /\ c \in Chats
    BY <1>5, <1>10 DEF Messages, Kept
  <2>2. thread' = [thread EXCEPT ![c] = ThreadOf(m)]
    BY <1>10 DEF Returned
  <2>3. sent[m] = {thread[c]}
    BY <1>1, <2>1 DEF IInv, ThreadInv, OneQuestionOut
  <2>4. ThreadOf(m) = IF thread[c] = Nothing THEN m ELSE thread[c]
    BY <2>3, ThreadOfOne
  <2>5. thread'[c] = ThreadOf(m) /\ thread'[c] # Nothing
        /\ \A d \in Chats \ {c} : thread'[d] = thread[d]
    BY <2>1, <2>2, <2>4, NameAssumption DEF IInv, TypeOK, PageTypes
  <2>6. ASSUME NEW o \in Asks \ {m},
               message'[o].kind \in {"answer", "pending_review", "clarification_required"}
        PROVE  thread'[message'[o].in] # Nothing /\ thread'[message'[o].in] = ThreadOf(o)'
    <3>1. message'[o] = message[o]
      BY <1>2
    <3>2. thread[message[o].in] # Nothing /\ thread[message[o].in] = ThreadOf(o)
      BY <2>6, <3>1 DEF IInv, ThreadInv
    <3>3. message[o].in \in Chats
      <4>1. Kept(o) /\ message[o] \in Messages
        BY <2>6, <3>1 DEF IInv, RevealInv, MessageFits, TypeOK, PageTypes
      <4>2. QED
        BY <4>1 DEF Kept, Messages
    <3>4. QED
      BY <1>7, <2>4, <2>5, <3>1, <3>2, <3>3
  <2>7. thread'[message'[m].in] # Nothing /\ thread'[message'[m].in] = ThreadOf(m)'
    BY <1>6, <1>7, <2>1, <2>5
  <2>8. QED
    BY <1>4, <2>6, <2>7 DEF ThreadInv
<1>11. QED
  BY <1>9, <1>10

\* What a task does to its message leaves the conversation and the kind alone.
LEMMA TaskKeepsThread ==
    ASSUME IInv, NEW t \in Tasks, Task(t)
    PROVE  ThreadInv'
<1> DEFINE m == task[t].ask
<1>1. m \in Asks
  BY DEF Task, Piece, RevealEnds, Checked, IInv, RevealInv, TaskFits
<1>2. message[m] \in Messages /\ message \in [Asks -> Messages]
  BY <1>1 DEF IInv, TypeOK, PageTypes
<1>3. \A o \in Asks : message'[o].in = message[o].in /\ message'[o].kind = message[o].kind
  <2>1. CASE Piece(t)
    BY <2>1, <1>1, <1>2 DEF Piece, Update, Messages
  <2>2. CASE RevealEnds(t)
    BY <2>2, <1>1, <1>2 DEF RevealEnds, Update, Messages
  <2>3. CASE Checked(t)
    <3> DEFINE new == [message[m] EXCEPT !.released = TRUE, !.status = "streaming",
                                         !.content = Opening(m, <<m, "released">>)]
    <3>1. new.in = message[m].in /\ new.kind = message[m].kind
      BY <1>2 DEF Messages
    <3>2. Update(m, new) \/ UNCHANGED message
      BY <2>3 DEF Checked
    <3> HIDE DEF new
    <3>3. QED
      BY <3>1, <3>2, <1>1, <1>2 DEF Update
  <2>4. QED
    BY <2>1, <2>2, <2>3 DEF Task
<1>4. UNCHANGED <<sent, thread, sending>>
  BY DEF Task, Piece, RevealEnds, Checked, serverVars, chatVars
<1>5. \A o \in Asks : o \in Tasks /\ (QuestionIsOut(o)' => QuestionIsOut(o))
  <2>1. \A o \in Tasks \ {t} : task'[o] = task[o]
    BY DEF Task, Piece, RevealEnds, Checked, Revealing, Ended, IInv, TypeOK, PageTypes
  <2>2. t \in Asks => task'[t].pc # "waiting"
    <3>1. task[t] \in TaskStates /\ task \in [Tasks -> TaskStates]
      BY DEF IInv, TypeOK, PageTypes
    <3>2. CASE Piece(t)
      BY <3>1, <3>2 DEF Piece, TaskStates
    <3>3. CASE RevealEnds(t)
      BY <3>1, <3>3 DEF RevealEnds, Ended, NoTask
    <3>4. CASE Checked(t)
      BY <3>4, NameAssumption DEF Checked
    <3>5. QED
      BY <3>2, <3>3, <3>4 DEF Task
  <2>3. QED
    BY <2>1, <2>2 DEF QuestionIsOut, Tasks
<1>6. \A o \in Asks : QuestionIsOut(o)' => sending'
  BY <1>4, <1>5 DEF IInv, ThreadInv, OneQuestionOut
<1>7. QED
  BY <1>3, <1>4, <1>5, <1>6, ThreadFrame

LEMMA ThreadKept == IInv /\ [Next]_vars => ThreadInv'
<1> SUFFICES ASSUME IInv, [Next]_vars PROVE ThreadInv'
  OBVIOUS
<1>0. \A o \in Asks : o \in Tasks /\ (QuestionIsOut(o) => sending)
  BY DEF IInv, ThreadInv, OneQuestionOut, Tasks
<1>1. ASSUME UNCHANGED <<sent, thread, task, sending, message>>
      PROVE  ThreadInv'
  BY <1>1, <1>0, ThreadFrame DEF QuestionIsOut
<1>2. ASSUME NEW m \in Asks, Server(m) PROVE ThreadInv'
  BY <1>2, <1>1 DEF Server, Serve, Review, Reopen, chatVars, taskVars
<1>3. ASSUME NEW m \in Asks, Poll(m) PROVE ThreadInv'
  <2>1. \A o \in Asks : message'[o].in = message[o].in /\ message'[o].kind = message[o].kind
    BY <1>3 DEF Poll, Update, IInv, TypeOK, PageTypes, Messages
  <2>2. QED
    BY <2>1, <1>0, <1>3, ThreadFrame DEF Poll, serverVars, chatVars, QuestionIsOut
<1>4. ASSUME NEW c \in Chats, NewChat(c) \/ Select(c) PROVE ThreadInv'
  BY <1>4, <1>1 DEF NewChat, Select, serverVars, taskVars
<1>5. ASSUME NEW c \in Chats, Delete(c) PROVE ThreadInv'
  <2>1. \A o \in Asks : message'[o] = message[o] \/ message'[o] = Deleted
    BY <1>5 DEF Delete, Without
  <2>2. Deleted.in = Nothing /\ Deleted.kind = "none"
    BY DEF Deleted, NoMessage
  <2>3. UNCHANGED <<sent, thread, task, sending>>
    BY <1>5 DEF Delete, serverVars, taskVars
  <2>4. QED
    BY <2>1, <2>2, <2>3, <1>0, ThreadFrame DEF QuestionIsOut
<1>6. ASSUME NEW t \in Tasks, NEW m \in Asks, Check(t, m) PROVE ThreadInv'
  <2>1. UNCHANGED <<sent, thread, sending, message>>
    BY <1>6 DEF Check, serverVars, chatVars
  <2>2. \A o \in Asks : QuestionIsOut(o)' => QuestionIsOut(o)
    BY <1>0, <1>6, NameAssumption DEF Check, QuestionIsOut, IInv, TypeOK, PageTypes
  <2>3. QED
    BY <2>1, <2>2, <1>0, ThreadFrame
<1>7. CASE Reload
  <2>1. \A o \in Asks : ~QuestionIsOut(o)'
    BY <1>0, <1>7 DEF Reload, QuestionIsOut, NoTask
  <2>2. \A o \in Asks : message'[o] \in {Cleaned(o), Deleted, message[o]}
    BY <1>7 DEF Reload
  <2>3. \A o \in Asks : Cleaned(o).in = message[o].in /\ Cleaned(o).kind = message[o].kind
    BY DEF Cleaned, IInv, TypeOK, PageTypes, Messages
  <2>4. Deleted.in = Nothing /\ Deleted.kind = "none"
    BY DEF Deleted, NoMessage
  <2>5. \A o \in Asks : \/ message'[o].in = message[o].in /\ message'[o].kind = message[o].kind
                        \/ message'[o].in = Nothing /\ message'[o].kind = "none"
    BY <2>2, <2>3, <2>4
  <2>6. UNCHANGED <<sent, thread>>
    BY <1>7 DEF Reload, serverVars
  <2>7. QED
    BY <2>1, <2>5, <2>6, ThreadFrame
<1>8. CASE UNCHANGED vars
  BY <1>8, <1>1 DEF vars, serverVars, chatVars, taskVars
<1>9. QED
  BY <1>2, <1>3, <1>4, <1>5, <1>6, <1>7, <1>8, SendKeepsThread, ReturnedKeepsThread,
     TaskKeepsThread DEF Next

-----------------------------------------------------------------------------
(* Whole messages.                                                          *)

DoneIsWhole(m) ==
    message[m].status = "done" /\ m \notin disturbed =>
        /\ message[m].kind = "answer" => message[m].content = Whole(<<m, "answer">>)
        /\ message[m].released =>
               message[m].kind = "pending_review" /\ message[m].content = Whole(<<m, "released">>)

LEMMA DoneMessages == DoneMessagesAreWhole <=> \A m \in Asks : DoneIsWhole(m)
BY DEF DoneMessagesAreWhole, DoneIsWhole

\* A step that leaves a message alone, and the tasks that work on it or on
\* another, leaves what is said of them.
ServerStays ==
    /\ \A m \in Asks : sent[m] # {} => sent'[m] # {}
    /\ disturbed \subseteq disturbed'

LEMMA MessageStays ==
    ASSUME IInv, NEW m \in Asks, disturbed \subseteq disturbed',
           message'[m] = message[m]
    PROVE  MessageFits(m)' /\ DoneIsWhole(m)'
BY DoneMessages DEF IInv, RevealInv, MessageFits, DoneIsWhole, Kept

LEMMA TaskStays ==
    ASSUME IInv, NEW t \in Tasks, ServerStays, task'[t] = task[t],
           task[t].pc # "idle" => message'[task[t].ask] = message[task[t].ask]
    PROVE  TaskFits(t)' /\ RevealFits(t)'
<1>1. TaskFits(t) /\ RevealFits(t)
  BY DEF IInv, RevealInv
<1>2. CASE task[t].pc = "idle"
  BY <1>1, <1>2 DEF TaskFits, RevealFits
<1>3. CASE task[t].pc # "idle"
  BY <1>1, <1>3 DEF TaskFits, RevealFits, ServerStays, Kept
<1>4. QED
  BY <1>2, <1>3

\* A task that goes on or ends does not meet another.
LEMMA OneTaskStays ==
    ASSUME IInv, NEW t \in Tasks, disturbed \subseteq disturbed',
           \A o \in Tasks \ {t} : task'[o] = task[o],
           \/ task[t].pc # "idle" /\ task'[t].ask = task[t].ask
           \/ task'[t] = NoTask
    PROVE  OneTaskEach'
<1> SUFFICES ASSUME NEW a \in Tasks, NEW o \in Tasks, task'[a].pc # "idle",
                    task'[a].ask \notin disturbed', task'[o].ask = task'[a].ask
             PROVE  o = a
  BY DEF OneTaskEach
<1>1. NoTask.pc = "idle" /\ NoTask.ask = Nothing
  BY DEF NoTask
<1>2. task[a].pc # "idle" /\ task'[a].ask = task[a].ask
  BY <1>1
<1>3. task[a].ask \in Asks
  BY <1>2 DEF IInv, RevealInv, TaskFits
<1>4. task[o].ask = task[a].ask
  BY <1>1, <1>2, <1>3, NameAssumption
<1>5. QED
  BY <1>2, <1>4 DEF IInv, RevealInv, OneTaskEach

LEMMA SendKeepsReveals ==
    ASSUME IInv, NEW m \in Asks, Send(m)
    PROVE  RevealInv'
<1> DEFINE new == [NoMessage EXCEPT !.in = active, !.status = "thinking"]
<1>1. /\ m \in Tasks /\ m \notin Checks /\ active \in Chats /\ active # Nothing
      /\ message \in [Asks -> Messages] /\ task \in [Tasks -> TaskStates]
  BY NameAssumption DEF Tasks, IInv, TypeOK, ChatTypes, PageTypes
<1>2. message[m].status = "none" /\ ~Kept(m)
  BY DEF Send, IInv, RevealInv, MessageFits
<1>3. \A t \in Tasks : task[t].ask # m
  <2> SUFFICES ASSUME NEW t \in Tasks, task[t].ask = m PROVE FALSE
    OBVIOUS
  <2>1. task[t].pc = "idle"
    BY <1>2 DEF IInv, RevealInv, TaskFits
  <2>2. task[t] = NoTask
    BY <2>1 DEF IInv, RevealInv, TaskFits
  <2>3. QED
    BY <2>2, NameAssumption DEF NoTask
<1>4. /\ \A o \in Asks \ {m} : message'[o] = message[o]
      /\ message'[m] = new
      /\ \A t \in Tasks \ {m} : task'[t] = task[t]
      /\ task'[m].pc = "waiting" /\ task'[m].ask = m
  BY <1>1 DEF Send, TaskStates
<1>5. new.in = active /\ new.status = "thinking" /\ new.kind = "none" /\ new.released = FALSE
  BY DEF NoMessage
<1>6. ServerStays /\ UNCHANGED disturbed /\ sent'[m] # {}
  BY DEF Send, ServerStays, IInv, TypeOK, ServerTypes
<1> HIDE DEF new
<1>7. \A o \in Asks : MessageFits(o)' /\ DoneIsWhole(o)'
  <2>1. MessageFits(m)' /\ DoneIsWhole(m)'
    BY <1>1, <1>4, <1>5 DEF MessageFits, DoneIsWhole, Kept
  <2>2. QED
    BY <2>1, <1>4, <1>6, MessageStays DEF ServerStays
<1>8. ASSUME NEW t \in Tasks PROVE TaskFits(t)' /\ RevealFits(t)'
  <2>1. CASE t = m
    BY <2>1, <1>1, <1>4, <1>5, <1>6 DEF TaskFits, RevealFits
  <2>2. CASE t # m
    <3>1. task[t].pc # "idle" => task[t].ask \in Asks \ {m}
      BY <1>3 DEF IInv, RevealInv, TaskFits
    <3>2. QED
      BY <2>2, <3>1, <1>4, <1>6, TaskStays
  <2>3. QED
    BY <2>1, <2>2
<1>9. OneTaskEach'
  <2> SUFFICES ASSUME NEW a \in Tasks, NEW o \in Tasks, task'[a].pc # "idle",
                      task'[a].ask \notin disturbed', task'[o].ask = task'[a].ask
               PROVE  o = a
    BY DEF OneTaskEach
  <2>1. QED
    BY <1>3, <1>4, <1>6 DEF IInv, RevealInv, OneTaskEach
<1>10. DoneMessagesAreWhole'
  BY <1>7 DEF DoneMessagesAreWhole, DoneIsWhole
<1>11. QED
  BY <1>7, <1>8, <1>9, <1>10 DEF RevealInv

\* The others that work on a message when a task of it takes a step: none, unless
\* the message was disturbed or deleted, and then no send.
LEMMA Company ==
    ASSUME IInv, NEW t \in Tasks, task[t].pc # "idle", NEW o \in Tasks \ {t},
           task[o].pc # "idle", task[o].ask = task[t].ask, Kept(task[t].ask)
    PROVE  /\ task[t].ask \in disturbed
           /\ o \in Checks /\ t \in Checks
           /\ message[task[t].ask].kind = "pending_review"
<1>1. task[t].ask \in disturbed
  BY DEF IInv, RevealInv, OneTaskEach
<1>2. /\ t \in Asks => task[t].ask = t
      /\ o \in Asks => task[o].ask = o
  BY DEF IInv, RevealInv, TaskFits
<1>3. t \in Checks \/ o \in Checks
  BY <1>2 DEF Tasks
<1>4. message[task[t].ask].kind = "pending_review"
  BY <1>3 DEF IInv, RevealInv, TaskFits
<1>5. t \in Checks /\ o \in Checks
  BY <1>4 DEF IInv, RevealInv, TaskFits
<1>6. QED
  BY <1>1, <1>4, <1>5

LEMMA ReturnedKeepsReveals ==
    ASSUME IInv, NEW m \in Asks, Returned(m)
    PROVE  RevealInv'
<1> DEFINE shown == [message[m] EXCEPT !.kind = "answer", !.status = "streaming",
                                       !.content = Opening(m, <<m, "answer">>)]
           told == [message[m] EXCEPT !.kind = reply[m],
                                      !.status = IF reply[m] = "failed" THEN "error" ELSE "done",
                                      !.content = Whole(<<m, "reason">>)]
           reveal == [pc |-> "revealing", ask |-> m, text |-> <<m, "answer">>, next |-> 2]
<1>1. /\ m \in Tasks /\ m \notin Checks /\ Parts \in Nat \ {0}
      /\ message[m] \in Messages /\ message \in [Asks -> Messages]
      /\ task \in [Tasks -> TaskStates] /\ reply[m] \in Replies
  BY NameAssumption, ChatAssumption
     DEF Returned, Tasks, IInv, TypeOK, PageTypes, ServerTypes
<1>2. task[m].pc = "waiting" /\ task[m].ask = m /\ sent[m] # {} /\ message[m].status # "none"
  BY <1>1 DEF Returned, IInv, RevealInv, TaskFits
<1>3. Kept(m) => message[m].kind = "none" /\ message[m].released = FALSE
  BY <1>1, <1>2 DEF IInv, RevealInv, TaskFits, MessageFits, Messages
<1>4. \A t \in Tasks \ {m} : task'[t] = task[t]
  BY <1>1 DEF Returned, Revealing, Ended
<1>5. ServerStays /\ UNCHANGED <<disturbed, sent>>
  BY DEF Returned, ServerStays, serverVars
<1>6. \/ task'[m] = reveal /\ reply[m] = "answered" /\ Update(m, shown)
      \/ task'[m] = NoTask /\ reply[m] # "answered" /\ Update(m, told)
  BY <1>1 DEF Returned, Revealing, Ended
<1>7. /\ shown.in = message[m].in /\ shown.kind = "answer" /\ shown.status = "streaming"
      /\ shown.released = message[m].released /\ shown.content = Prefix(<<m, "answer">>, 1)
  BY <1>1, OpeningIsPrefix, NamesAreTyped DEF Messages
<1>8. /\ told.in = message[m].in /\ told.kind = reply[m] /\ told.status \in {"error", "done"}
      /\ told.released = message[m].released
  BY <1>1 DEF Messages
<1>9. /\ reveal.pc = "revealing" /\ reveal.ask = m /\ reveal.text = <<m, "answer">>
      /\ reveal.next = 2
      /\ NoTask.pc = "idle"
  BY DEF NoTask
<1>10. /\ \A o \in Asks \ {m} : message'[o] = message[o]
       /\ message'[m] = IF ~Kept(m) THEN message[m]
                        ELSE IF reply[m] = "answered" THEN shown ELSE told
  BY <1>1, <1>6 DEF Update
<1> HIDE DEF shown, told, reveal
<1>11. reply[m] # "answer" /\ reply[m] # "none"
  BY <1>1 DEF Replies
<1>12. MessageFits(m)' /\ DoneIsWhole(m)'
  <2>1. CASE ~Kept(m)
    BY <2>1, <1>5, <1>10, MessageStays DEF ServerStays
  <2>2. CASE Kept(m)
    BY <2>2, <1>3, <1>7, <1>8, <1>10, <1>11 DEF MessageFits, DoneIsWhole, Kept
  <2>3. QED
    BY <2>1, <2>2
<1>13. TaskFits(m)' /\ RevealFits(m)'
  <2>1. CASE task'[m] = NoTask
    BY <2>1, <1>9 DEF TaskFits, RevealFits
  <2>2. CASE task'[m] = reveal /\ reply[m] = "answered"
    <3>1. message'[m].status # "none" /\ sent'[m] # {}
      BY <2>2, <1>2, <1>5, <1>7, <1>10
    <3>2. TaskFits(m)'
      BY <2>2, <3>1, <1>1, <1>7, <1>9, <1>10 DEF TaskFits, Kept
    <3>3. 2 \in 2..(Parts + 1) /\ 2 - 1 = 1
      BY <1>1
    <3>4. RevealFits(m)'
      BY <2>2, <3>3, <1>1, <1>7, <1>9, <1>10 DEF RevealFits, Kept
    <3>5. QED
      BY <3>2, <3>4
  <2>3. QED
    BY <2>1, <2>2, <1>6
<1>14. ASSUME NEW t \in Tasks \ {m} PROVE TaskFits(t)' /\ RevealFits(t)'
  <2>1. CASE task[t].pc # "idle" => message'[task[t].ask] = message[task[t].ask]
    BY <2>1, <1>4, <1>5, TaskStays
  <2>2. CASE task[t].pc # "idle" /\ message'[task[t].ask] # message[task[t].ask]
    <3>1. task[t].ask = m /\ Kept(m)
      BY <2>2, <1>10 DEF IInv, RevealInv, TaskFits
    <3>2. m \in Checks
      BY <3>1, <2>2, <1>1, <1>2, Company
    <3>3. QED
      BY <3>2, <1>1
  <2>3. QED
    BY <2>1, <2>2
<1>15. OneTaskEach'
  BY <1>1, <1>2, <1>4, <1>5, <1>6, <1>9, OneTaskStays
<1>16. \A o \in Asks \ {m} : MessageFits(o)' /\ DoneIsWhole(o)'
  BY <1>5, <1>10, MessageStays DEF ServerStays
<1>17. DoneMessagesAreWhole'
  BY <1>12, <1>16 DEF DoneMessagesAreWhole, DoneIsWhole
<1>18. QED
  BY <1>12, <1>13, <1>14, <1>15, <1>16, <1>17 DEF RevealInv

\* A step of task t that writes its message m: what is left to show is what holds
\* of the two; the others on the message are checks of a disturbed one.
LEMMA TaskStepKeepsReveals ==
    ASSUME IInv, NEW t \in Tasks, task[t].pc # "idle", NEW m \in Asks, m = task[t].ask,
           ServerStays,
           \A o \in Tasks \ {t} : task'[o] = task[o],
           task'[t] = NoTask \/ task'[t].ask = m,
           \A o \in Asks \ {m} : message'[o] = message[o],
           ~Kept(m) => message'[m] = message[m],
           message'[m].in = message[m].in, message'[m].kind = message[m].kind,
           message'[m].status # "none",
           MessageFits(m)', DoneIsWhole(m)', TaskFits(t)', RevealFits(t)'
    PROVE  RevealInv'
<1>1. ASSUME NEW o \in Tasks \ {t} PROVE TaskFits(o)' /\ RevealFits(o)'
  <2>1. CASE task[o].pc # "idle" => message'[task[o].ask] = message[task[o].ask]
    BY <2>1, TaskStays
  <2>2. CASE task[o].pc # "idle" /\ message'[task[o].ask] # message[task[o].ask]
    <3>1. task[o].ask = m /\ Kept(m)
      BY <2>2 DEF IInv, RevealInv, TaskFits
    <3>2. m \in disturbed /\ o \in Checks /\ o \notin Asks
      BY <3>1, <2>2, Company, NameAssumption
    <3>3. TaskFits(o)'
      BY <3>1, <3>2, <2>2 DEF IInv, RevealInv, TaskFits, Kept
    <3>4. RevealFits(o)'
      BY <3>1, <3>2 DEF RevealFits, ServerStays
    <3>5. QED
      BY <3>3, <3>4
  <2>3. QED
    BY <2>1, <2>2
<1>2. OneTaskEach'
  BY OneTaskStays DEF ServerStays
<1>3. \A o \in Asks \ {m} : MessageFits(o)' /\ DoneIsWhole(o)'
  BY MessageStays DEF ServerStays
<1>4. DoneMessagesAreWhole'
  BY <1>3 DEF DoneMessagesAreWhole, DoneIsWhole
<1>5. QED
  BY <1>1, <1>2, <1>3, <1>4 DEF RevealInv

LEMMA PieceKeepsReveals ==
    ASSUME IInv, NEW t \in Tasks, NEW m, m = task[t].ask, Piece(t)
    PROVE  RevealInv'
<1> DEFINE text == task[t].text
           n == task[t].next
           longer == message[m].content \o <<<<text, n>>>>
           new == [message[m] EXCEPT !.content = longer]
<1>1. /\ task[t].pc = "revealing" /\ n <= Parts /\ n \in Nat
      /\ task[t] \in TaskStates /\ task \in [Tasks -> TaskStates]
      /\ text \in Texts \cup {Nothing} /\ Parts \in Nat
  BY ChatAssumption DEF Piece, IInv, TypeOK, PageTypes, TaskStates
<1>2. /\ m \in Asks /\ message[m].status # "none"
      /\ message \in [Asks -> Messages] /\ message[m] \in Messages
  BY <1>1 DEF IInv, RevealInv, TaskFits, TypeOK, PageTypes
<1>3. /\ task'[t].pc = "revealing" /\ task'[t].ask = m /\ task'[t].text = text
      /\ task'[t].next = n + 1
      /\ \A o \in Tasks \ {t} : task'[o] = task[o]
  <2>1. task' = [task EXCEPT ![t] = [task[t] EXCEPT !.next = n + 1]]
    BY DEF Piece
  <2>2. QED
    BY <2>1, <1>1 DEF TaskStates
<1>4. ServerStays /\ UNCHANGED <<disturbed, sent>>
  BY DEF Piece, ServerStays, serverVars
<1>5. /\ new.in = message[m].in /\ new.kind = message[m].kind /\ new.status = message[m].status
      /\ new.released = message[m].released /\ new.content = longer
  BY <1>2 DEF Messages
<1>6. Update(m, new)
  BY DEF Piece
<1> HIDE DEF new
<1>7. /\ \A o \in Asks \ {m} : message'[o] = message[o]
      /\ message'[m] = IF Kept(m) THEN new ELSE message[m]
  BY <1>2, <1>6 DEF Update
<1>8. MessageFits(m)'
  <2>1. MessageFits(m)
    BY <1>2 DEF IInv, RevealInv
  <2>2. /\ message'[m].in = message[m].in /\ message'[m].kind = message[m].kind
        /\ message'[m].status = message[m].status /\ message'[m].released = message[m].released
    BY <1>5, <1>7
  <2>3. QED
    BY <2>1, <2>2 DEF MessageFits, Kept
<1>9. Kept(m) /\ m \notin disturbed =>
        /\ n \in 2..(Parts + 1) /\ message[m].status = "streaming"
        /\ message[m].content = Prefix(text, n - 1)
        /\ t \in Asks => text = <<m, "answer">>
        /\ t \in Checks => message[m].released /\ text = <<m, "released">>
  BY <1>1 DEF IInv, RevealInv, RevealFits
<1>10. DoneIsWhole(m)'
  <2>1. CASE Kept(m) /\ m \notin disturbed
    BY <2>1, <1>5, <1>7, <1>9 DEF DoneIsWhole
  <2>2. CASE ~Kept(m)
    BY <2>2, <1>2, <1>4, <1>7, MessageStays
  <2>3. CASE m \in disturbed
    BY <2>3, <1>4 DEF DoneIsWhole
  <2>4. QED
    BY <2>1, <2>2, <2>3
<1>11. TaskFits(t)'
  BY <1>1, <1>2, <1>3, <1>4, <1>5, <1>7 DEF IInv, RevealInv, TaskFits, Kept
<1>12. RevealFits(t)'
  <2>1. CASE Kept(m) /\ m \notin disturbed
    <3>1. n - 1 \in Nat /\ (n - 1) + 1 = n /\ (n + 1) - 1 = n /\ n + 1 \in 2..(Parts + 1)
      BY <1>1, <1>9, <2>1
    <3>2. longer = Prefix(text, n)
      BY <3>1, <1>1, <1>9, <2>1, PrefixGrows
    <3>3. QED
      BY <2>1, <3>1, <3>2, <1>3, <1>4, <1>5, <1>7, <1>9 DEF RevealFits
  <2>2. CASE ~(Kept(m) /\ m \notin disturbed)
    BY <2>2, <1>2, <1>3, <1>4, <1>5, <1>7 DEF RevealFits, Kept
  <2>3. QED
    BY <2>1, <2>2
<1>13. message'[m].in = message[m].in /\ message'[m].kind = message[m].kind
       /\ message'[m].status # "none"
  BY <1>2, <1>5, <1>7
<1>14. QED
  BY <1>1, <1>2, <1>3, <1>4, <1>7, <1>8, <1>10, <1>11, <1>12, <1>13, TaskStepKeepsReveals

LEMMA RevealEndsKeepsReveals ==
    ASSUME IInv, NEW t \in Tasks, NEW m, m = task[t].ask, RevealEnds(t)
    PROVE  RevealInv'
<1> DEFINE text == task[t].text
           n == task[t].next
           new == [message[m] EXCEPT !.status = "done"]
<1>1. /\ task[t].pc = "revealing" /\ n > Parts /\ n \in Nat
      /\ task[t] \in TaskStates /\ task \in [Tasks -> TaskStates] /\ Parts \in Nat
  BY ChatAssumption DEF RevealEnds, IInv, TypeOK, PageTypes, TaskStates
<1>2. /\ m \in Asks /\ message[m].status # "none"
      /\ message \in [Asks -> Messages] /\ message[m] \in Messages
  BY <1>1 DEF IInv, RevealInv, TaskFits, TypeOK, PageTypes
<1>3. task'[t] = NoTask /\ \A o \in Tasks \ {t} : task'[o] = task[o]
  BY <1>1 DEF RevealEnds, Ended
<1>4. ServerStays /\ UNCHANGED <<disturbed, sent>>
  BY DEF RevealEnds, ServerStays, serverVars
<1>5. /\ new.in = message[m].in /\ new.kind = message[m].kind /\ new.status = "done"
      /\ new.released = message[m].released /\ new.content = message[m].content
  BY <1>2 DEF Messages
<1>6. Update(m, new)
  BY DEF RevealEnds
<1> HIDE DEF new
<1>7. /\ \A o \in Asks \ {m} : message'[o] = message[o]
      /\ message'[m] = IF Kept(m) THEN new ELSE message[m]
  BY <1>2, <1>6 DEF Update
<1>8. MessageFits(m)'
  BY <1>2, <1>4, <1>5, <1>7 DEF IInv, RevealInv, MessageFits, Kept
<1>9. DoneIsWhole(m)'
  <2>1. CASE Kept(m) /\ m \notin disturbed
    <3>1. /\ n \in 2..(Parts + 1)
          /\ message[m].content = Prefix(text, n - 1)
          /\ t \in Asks => text = <<m, "answer">>
          /\ t \in Checks => message[m].released /\ text = <<m, "released">>
      BY <1>1, <2>1 DEF IInv, RevealInv, RevealFits
    <3>2. n - 1 = Parts
      BY <1>1, <3>1
    <3>3. /\ message[m].kind = IF t \in Checks THEN "pending_review" ELSE "answer"
          /\ message[m].released => message[m].kind = "pending_review"
      BY <1>1, <2>1 DEF IInv, RevealInv, TaskFits, MessageFits
    <3>4. Prefix(text, Parts) = Whole(text)
      BY DEF Prefix, Whole
    <3>5. QED
      BY <2>1, <3>1, <3>2, <3>3, <3>4, <1>4, <1>5, <1>7 DEF DoneIsWhole, Tasks
  <2>2. CASE ~Kept(m)
    BY <2>2, <1>2, <1>4, <1>7, MessageStays
  <2>3. CASE m \in disturbed
    BY <2>3, <1>4 DEF DoneIsWhole
  <2>4. QED
    BY <2>1, <2>2, <2>3
<1>10. TaskFits(t)' /\ RevealFits(t)'
  BY <1>3 DEF TaskFits, RevealFits, NoTask
<1>11. message'[m].in = message[m].in /\ message'[m].kind = message[m].kind
       /\ message'[m].status # "none"
  BY <1>2, <1>5, <1>7
<1>12. QED
  BY <1>1, <1>2, <1>3, <1>4, <1>7, <1>8, <1>9, <1>10, <1>11, TaskStepKeepsReveals

LEMMA CheckedKeepsReveals ==
    ASSUME IInv, NEW t \in Tasks, NEW m, m = task[t].ask, Checked(t)
    PROVE  RevealInv'
<1> DEFINE new == [message[m] EXCEPT !.released = TRUE, !.status = "streaming",
                                     !.content = Opening(m, <<m, "released">>)]
           reveal == [pc |-> "revealing", ask |-> m, text |-> <<m, "released">>, next |-> 2]
<1>1. /\ task[t].pc = "waiting" /\ t \in Checks /\ t \notin Asks
      /\ task \in [Tasks -> TaskStates] /\ Parts \in Nat \ {0}
  BY ChatAssumption, NameAssumption DEF Checked, IInv, TypeOK, PageTypes
<1>2. /\ m \in Asks /\ message[m].status # "none"
      /\ message \in [Asks -> Messages] /\ message[m] \in Messages
      /\ Kept(m) => message[m].kind = "pending_review"
  BY <1>1 DEF IInv, RevealInv, TaskFits, TypeOK, PageTypes
<1>3. \/ task'[t] = reveal /\ Update(m, new)
      \/ task'[t] = NoTask /\ UNCHANGED message
  BY <1>1 DEF Checked, Revealing, Ended
<1>4. \A o \in Tasks \ {t} : task'[o] = task[o]
  BY <1>1 DEF Checked, Revealing, Ended
<1>5. ServerStays /\ UNCHANGED <<disturbed, sent>>
  BY DEF Checked, ServerStays, serverVars
<1>6. /\ new.in = message[m].in /\ new.kind = message[m].kind /\ new.status = "streaming"
      /\ new.released = TRUE /\ new.content = Prefix(<<m, "released">>, 1)
  BY <1>2, OpeningIsPrefix, NamesAreTyped DEF Messages
<1>7. /\ reveal.pc = "revealing" /\ reveal.ask = m /\ reveal.text = <<m, "released">>
      /\ reveal.next = 2
  OBVIOUS
<1> HIDE DEF new, reveal
<1>8. CASE task'[t] = reveal /\ Update(m, new)
  <2>1. /\ \A o \in Asks \ {m} : message'[o] = message[o]
        /\ message'[m] = IF Kept(m) THEN new ELSE message[m]
    BY <1>2, <1>8 DEF Update
  <2>2. MessageFits(m)'
    BY <2>1, <1>2, <1>5, <1>6, <1>8 DEF IInv, RevealInv, MessageFits, Kept
  <2>3. DoneIsWhole(m)'
    <3>1. CASE Kept(m)
      BY <3>1, <2>1, <1>6 DEF DoneIsWhole
    <3>2. CASE ~Kept(m)
      BY <3>2, <2>1, <1>2, <1>5, MessageStays
    <3>3. QED
      BY <3>1, <3>2
  <2>4. TaskFits(t)'
    BY <2>1, <1>1, <1>2, <1>6, <1>7, <1>8 DEF TaskFits, Kept
  <2>5. RevealFits(t)'
    <3>1. 2 \in 2..(Parts + 1) /\ 2 - 1 = 1
      BY <1>1
    <3>2. QED
      BY <3>1, <2>1, <1>1, <1>2, <1>6, <1>7, <1>8 DEF RevealFits, Kept
  <2>6. message'[m].in = message[m].in /\ message'[m].kind = message[m].kind
        /\ message'[m].status # "none"
    BY <2>1, <1>2, <1>6
  <2>7. QED
    BY <2>1, <2>2, <2>3, <2>4, <2>5, <2>6, <1>1, <1>2, <1>4, <1>5, <1>7, <1>8,
       TaskStepKeepsReveals
<1>9. CASE task'[t] = NoTask /\ UNCHANGED message
  <2>1. MessageFits(m)' /\ DoneIsWhole(m)'
    BY <1>2, <1>5, <1>9, MessageStays
  <2>2. TaskFits(t)' /\ RevealFits(t)'
    BY <1>9 DEF TaskFits, RevealFits, NoTask
  <2>3. QED
    BY <2>1, <2>2, <1>1, <1>2, <1>4, <1>5, <1>9, TaskStepKeepsReveals
<1>10. QED
  BY <1>3, <1>8, <1>9

LEMMA CheckKeepsReveals ==
    ASSUME IInv, NEW t \in Tasks, NEW m \in Asks, Check(t, m)
    PROVE  RevealInv'
<1>1. /\ t \in Checks /\ t \notin Asks /\ task[t].pc = "idle"
      /\ message[m].kind = "pending_review" /\ Kept(m)
      /\ task \in [Tasks -> TaskStates] /\ disturbed \subseteq disturbed'
  BY NameAssumption DEF Check, Checkable, IInv, TypeOK, ChatTypes, PageTypes, Kept
<1>2. /\ task'[t].pc = "waiting" /\ task'[t].ask = m
      /\ \A o \in Tasks \ {t} : task'[o] = task[o]
  BY <1>1 DEF Check, TaskStates
<1>3. ServerStays /\ UNCHANGED message
  BY <1>1 DEF Check, ServerStays, serverVars
<1>4. \A o \in Asks : MessageFits(o)' /\ DoneIsWhole(o)'
  BY <1>3, MessageStays DEF ServerStays
<1>5. ASSUME NEW o \in Tasks PROVE TaskFits(o)' /\ RevealFits(o)'
  <2>1. CASE o = t
    <3>1. message[m].status # "none"
      BY <1>1 DEF IInv, RevealInv, MessageFits
    <3>2. QED
      BY <2>1, <3>1, <1>1, <1>2, <1>3 DEF TaskFits, RevealFits
  <2>2. CASE o # t
    BY <2>2, <1>2, <1>3, TaskStays
  <2>3. QED
    BY <2>1, <2>2
<1>6. m \notin disturbed' => \A o \in Tasks : task[o].ask # m
  <2> SUFFICES ASSUME m \notin disturbed', NEW o \in Tasks, task[o].ask = m PROVE FALSE
    OBVIOUS
  <2>1. o \notin Checks
    BY DEF Check
  <2>2. o \in Asks /\ task[o].pc # "idle"
    BY <2>1, NameAssumption DEF Tasks, IInv, RevealInv, TaskFits, NoTask
  <2>3. message[m].kind # "pending_review"
    BY <2>1, <2>2, <1>1 DEF IInv, RevealInv, TaskFits
  <2>4. QED
    BY <2>3, <1>1
<1>7. OneTaskEach'
  <2> SUFFICES ASSUME NEW a \in Tasks, NEW o \in Tasks, task'[a].pc # "idle",
                      task'[a].ask \notin disturbed', task'[o].ask = task'[a].ask
               PROVE  o = a
    BY DEF OneTaskEach
  <2>1. QED
    BY <1>1, <1>2, <1>6 DEF IInv, RevealInv, OneTaskEach
<1>8. DoneMessagesAreWhole'
  BY <1>4 DEF DoneMessagesAreWhole, DoneIsWhole
<1>9. QED
  BY <1>4, <1>5, <1>7, <1>8 DEF RevealInv

LEMMA DeleteKeepsReveals ==
    ASSUME IInv, NEW c \in Chats, Delete(c)
    PROVE  RevealInv'
<1>1. ServerStays /\ UNCHANGED <<task, disturbed, sent>>
  BY DEF Delete, ServerStays, serverVars, taskVars
<1>2. \A m \in Asks : message'[m] = IF message[m].in = c THEN Deleted ELSE message[m]
  BY DEF Delete, Without
<1>3. /\ Deleted.in = Nothing /\ Deleted.kind = "none" /\ Deleted.status = "deleted"
      /\ Deleted.released = FALSE
  BY DEF Deleted, NoMessage
<1>4. ASSUME NEW m \in Asks PROVE MessageFits(m)' /\ DoneIsWhole(m)'
  <2>1. CASE message[m].in = c
    BY <2>1, <1>2, <1>3 DEF MessageFits, DoneIsWhole, Kept
  <2>2. CASE message[m].in # c
    BY <2>2, <1>1, <1>2, MessageStays
  <2>3. QED
    BY <2>1, <2>2
<1>5. ASSUME NEW t \in Tasks PROVE TaskFits(t)' /\ RevealFits(t)'
  <2>1. CASE task[t].pc # "idle" => message'[task[t].ask] = message[task[t].ask]
    BY <2>1, <1>1, TaskStays
  <2>2. CASE task[t].pc # "idle" /\ message'[task[t].ask] # message[task[t].ask]
    <3>1. task[t].ask \in Asks /\ message'[task[t].ask] = Deleted
      BY <2>2, <1>2 DEF IInv, RevealInv, TaskFits
    <3>2. TaskFits(t) /\ task'[t] = task[t] /\ sent' = sent
      BY <1>1 DEF IInv, RevealInv
    <3>3. QED
      BY <3>1, <3>2, <1>3 DEF TaskFits, RevealFits, Kept
  <2>3. QED
    BY <2>1, <2>2
<1>6. OneTaskEach'
  BY <1>1 DEF IInv, RevealInv, OneTaskEach
<1>7. DoneMessagesAreWhole'
  BY <1>4 DEF DoneMessagesAreWhole, DoneIsWhole
<1>8. QED
  BY <1>4, <1>5, <1>6, <1>7 DEF RevealInv

LEMMA ReloadKeepsReveals ==
    ASSUME IInv, Reload
    PROVE  RevealInv'
<1>1. \A t \in Tasks : task'[t] = NoTask
  BY DEF Reload
<1>2. /\ NoTask.pc = "idle" /\ Deleted.in = Nothing /\ Deleted.kind = "none"
      /\ Deleted.status = "deleted" /\ Deleted.released = FALSE
  BY DEF NoTask, Deleted, NoMessage
<1>3. \A t \in Tasks : TaskFits(t)' /\ RevealFits(t)'
  BY <1>1, <1>2 DEF TaskFits, RevealFits
<1>4. OneTaskEach'
  BY <1>1, <1>2 DEF OneTaskEach
<1>5. disturbed' = disturbed \cup Cut
  BY DEF Reload, serverVars
<1>6. ASSUME NEW m \in Asks PROVE MessageFits(m)' /\ DoneIsWhole(m)'
  <2>1. message'[m] \in {Cleaned(m), Deleted, message[m]} /\ message[m] \in Messages
    BY DEF Reload, IInv, TypeOK, PageTypes
  <2>2. CASE message'[m] = message[m]
    BY <2>2, <1>5, MessageStays
  <2>3. CASE message'[m] = Deleted
    BY <2>3, <1>2 DEF MessageFits, DoneIsWhole, Kept
  <2>4. CASE message'[m] = Cleaned(m) /\ message'[m] # message[m]
    <3>1. m \in Cut /\ message'[m] = [message[m] EXCEPT !.status = "done"]
      BY <2>4 DEF Cleaned
    <3>2. /\ message'[m].in = message[m].in /\ message'[m].kind = message[m].kind
          /\ message'[m].status = "done" /\ message'[m].released = message[m].released
      BY <3>1, <2>1 DEF Messages
    <3>3. m \in disturbed'
      BY <3>1, <1>5
    <3>4. MessageFits(m)
      BY DEF IInv, RevealInv
    <3>5. QED
      BY <3>2, <3>3, <3>4, <1>5 DEF MessageFits, DoneIsWhole, Kept
  <2>5. QED
    BY <2>1, <2>2, <2>3, <2>4
<1>7. DoneMessagesAreWhole'
  BY <1>6 DEF DoneMessagesAreWhole, DoneIsWhole
<1>8. QED
  BY <1>3, <1>4, <1>6, <1>7 DEF RevealInv

LEMMA PollKeepsReveals ==
    ASSUME IInv, NEW m \in Asks, Poll(m)
    PROVE  RevealInv'
<1>1. /\ message \in [Asks -> Messages]
      /\ UNCHANGED <<sent, task, disturbed>>
  BY DEF Poll, serverVars, IInv, TypeOK, PageTypes
<1>2. \A o \in Asks :
        /\ message'[o].in = message[o].in /\ message'[o].kind = message[o].kind
        /\ message'[o].status = message[o].status
        /\ message'[o].content = message[o].content
        /\ message'[o].released = message[o].released
  BY <1>1 DEF Poll, Update, Messages
<1>3. ASSUME NEW o \in Asks PROVE MessageFits(o)' /\ DoneIsWhole(o)'
  BY <1>1, <1>2, DoneMessages DEF IInv, RevealInv, MessageFits, DoneIsWhole, Kept
<1>4. ASSUME NEW t \in Tasks PROVE TaskFits(t)' /\ RevealFits(t)'
  <2>1. TaskFits(t) /\ RevealFits(t)
    BY DEF IInv, RevealInv
  <2>2. CASE task[t].pc = "idle"
    BY <2>1, <2>2, <1>1 DEF TaskFits, RevealFits
  <2>3. CASE task[t].pc # "idle"
    <3>1. task[t].ask \in Asks
      BY <2>1, <2>3 DEF TaskFits
    <3>2. QED
      BY <2>1, <2>3, <3>1, <1>1, <1>2 DEF TaskFits, RevealFits, Kept
  <2>4. QED
    BY <2>2, <2>3
<1>5. OneTaskEach'
  BY <1>1 DEF IInv, RevealInv, OneTaskEach
<1>6. DoneMessagesAreWhole'
  BY <1>3 DEF DoneMessagesAreWhole, DoneIsWhole
<1>7. QED
  BY <1>3, <1>4, <1>5, <1>6 DEF RevealInv

\* Neither a late reply nor what reviewers do changes what a page shows.
LEMMA ServerKeepsReveals ==
    ASSUME IInv, NEW m \in Asks, Server(m)
    PROVE  RevealInv'
<1>1. UNCHANGED <<message, task, disturbed, sent>>
  BY DEF Server, Serve, Review, Reopen, taskVars
<1>2. ASSUME NEW o \in Asks PROVE MessageFits(o)' /\ DoneIsWhole(o)'
  BY <1>1, DoneMessages DEF IInv, RevealInv, MessageFits, DoneIsWhole, Kept
<1>3. ASSUME NEW t \in Tasks PROVE TaskFits(t)' /\ RevealFits(t)'
  BY <1>1 DEF IInv, RevealInv, TaskFits, RevealFits, Kept
<1>4. OneTaskEach'
  BY <1>1 DEF IInv, RevealInv, OneTaskEach
<1>5. DoneMessagesAreWhole'
  BY <1>2 DEF DoneMessagesAreWhole, DoneIsWhole
<1>6. QED
  BY <1>2, <1>3, <1>4, <1>5 DEF RevealInv

LEMMA RevealsKept == IInv /\ [Next]_vars => RevealInv'
<1> SUFFICES ASSUME IInv, [Next]_vars PROVE RevealInv'
  OBVIOUS
<1>1. ASSUME UNCHANGED <<serverVars, message, task, disturbed>>
      PROVE  RevealInv'
  BY <1>1 DEF serverVars, IInv, RevealInv, MessageFits, TaskFits, RevealFits,
              OneTaskEach, DoneMessagesAreWhole, Kept
<1>2. ASSUME NEW c \in Chats, NewChat(c) \/ Select(c) PROVE RevealInv'
  BY <1>2, <1>1 DEF NewChat, Select, taskVars
<1>3. CASE UNCHANGED vars
  BY <1>3, <1>1 DEF vars, taskVars
<1>4. QED
  BY <1>2, <1>3, DeleteKeepsReveals, ServerKeepsReveals, SendKeepsReveals,
     ReturnedKeepsReveals, PollKeepsReveals, PieceKeepsReveals, RevealEndsKeepsReveals,
     CheckedKeepsReveals, CheckKeepsReveals, ReloadKeepsReveals DEF Next, Task

-----------------------------------------------------------------------------
(* The theorems.                                                            *)

LEMMA InvariantHolds == Spec => []IInv
<1>1. Init => IInv
  <2> SUFFICES ASSUME Init PROVE RevealInv /\ ThreadInv
    BY InitTypes DEF IInv
  <2>1. /\ \A m \in Asks : message[m] = NoMessage
        /\ \A t \in Tasks : task[t] = NoTask
        /\ \A m \in Asks : task[m] = NoTask
    BY DEF Init, ServerInit, Tasks
  <2>2. /\ NoMessage.in = Nothing /\ NoMessage.kind = "none" /\ NoMessage.status = "none"
        /\ NoMessage.released = FALSE /\ NoTask.pc = "idle"
    BY DEF NoMessage, NoTask
  <2>3. RevealInv
    BY <2>1, <2>2 DEF RevealInv, MessageFits, TaskFits, RevealFits,
                      OneTaskEach, DoneMessagesAreWhole, Kept
  <2>4. ThreadInv
    BY <2>1, <2>2 DEF ThreadInv, OneQuestionOut, QuestionIsOut
  <2>5. QED
    BY <2>3, <2>4
<1>2. IInv /\ [Next]_vars => IInv'
  <2>1. IInv => TypeOK /\ \A t \in Tasks : TaskFits(t)
    BY DEF IInv, RevealInv
  <2>2. QED
    BY <2>1, TypesKept, RevealsKept, ThreadKept DEF IInv
<1>3. QED
  BY <1>1, <1>2, PTL DEF Spec

\* Types of the page's state, which hold only together with what a task may be
\* doing: a reply without a thread would otherwise be one of no type.
THEOREM TypeCorrect == Spec => []TypeOK
BY InvariantHolds, PTL DEF IInv

\* A message that is done shows what its question was answered or what was released
\* for it, in whole, whatever sends, checks, reveals, deletions and reloads there
\* were: for any number of questions, of checks under way and of pieces.
THEOREM MessagesAreWhole == Spec => []DoneMessagesAreWhole
<1>1. IInv => DoneMessagesAreWhole
  BY DEF IInv, RevealInv
<1>2. QED
  BY <1>1, InvariantHolds, PTL

\* All that was answered in one conversation belongs to the thread its follow-ups
\* go to, since one question is out at a time and it carries that thread.
THEOREM OneThreadHolds == Spec => []ConversationIsOneThread
<1>1. IInv => ConversationIsOneThread
  BY DEF IInv, ThreadInv, ConversationIsOneThread
<1>2. QED
  BY <1>1, InvariantHolds, PTL
=============================================================================
