------------------------- MODULE BookkeepingProofs -------------------------
(* Proofs about Bookkeeping: for every set of requests, routing strategy and *)
(* bound, the tier that answers, the length of an outage's queue, the        *)
(* summary of the thread and the rows of the cost ledger.                    *)
EXTENDS Bookkeeping, TLAPS, FiniteSetTheorems

USE DEF Goto, routingVars, ledgerVars, circuitVars, threadVars

-----------------------------------------------------------------------------
(* The router.                                                              *)

\* Whatever the strategy, the words of the question and the budget, a node that
\* writes or judges the answer of a High-risk request is given the strong tier
\* (router.py, route_tier).
THEOREM HighRiskRoutesStrong ==
    ASSUME NEW node \in Answering, NEW triggers \in BOOLEAN, NEW pressure \in BOOLEAN
    PROVE  RouteTier(node, "High", triggers, pressure) = "strong"
<1>1. ~Downgraded("High", pressure)
  BY DEF Downgraded
<1>2. Assessed("High", triggers) = "strong"
  BY StrategyAssumption DEF Assessed, Complex
<1>3. QED
  BY <1>1, <1>2 DEF RouteTier, Answering

LEMMA RouteIsTier ==
    ASSUME NEW node, NEW l, NEW triggers, NEW pressure
    PROVE  RouteTier(node, l, triggers, pressure) \in Tiers
<1>1. Assessed(l, triggers) \in Tiers
  BY StrategyAssumption DEF Assessed, Tiers
<1>2. QED
  BY <1>1 DEF RouteTier, Tiers

-----------------------------------------------------------------------------
(* Types.                                                                   *)

LEMMA InitTypes == Init => TypeOK
<1>1. NoCall \in Calls
  BY DEF NoCall, Calls, Nodes, Tiers, FIXED_SMALL
<1> SUFFICES ASSUME Init PROVE TypeOK
  OBVIOUS
<1>2. level \in [Requests -> Levels]
  BY DEF Init, Levels
<1>3. step \in [Requests -> Steps] /\ call \in [Requests -> Calls] /\ work \in [Requests -> Nat]
  BY <1>1 DEF Init, Steps
<1>4. QED
  BY <1>2, <1>3 DEF Init, TypeOK

LEMMA NodesAreKnown == NodesInUse \subseteq Nodes /\ "thread_summary" \in Nodes
BY NodeAssumption DEF Nodes, FIXED_SMALL

LEMMA NoCallIsTyped == NoCall \in Calls
BY DEF NoCall, Calls, Nodes, Tiers, FIXED_SMALL

LEMMA CallTypes ==
    ASSUME TypeOK, NEW r \in Requests, NEW node \in NodesInUse, Call(r, node)
    PROVE  TypeOK'
<1>1. PICK triggers \in BOOLEAN, pressure \in BOOLEAN :
        LET tier == RouteTier(node, level[r], triggers, pressure) IN
        \/ \E c \in Stored(node, tier, 0) :
            /\ call' = [call EXCEPT ![r] = [node |-> node, tier |-> tier, by |-> c.by]]
            /\ Hit(r, c)
            /\ UNCHANGED step
        \/ /\ Stored(node, tier, 0) = {}
           /\ call' = [call EXCEPT ![r] = [node |-> node, tier |-> tier, by |-> tier]]
           /\ Goto(r, "billing")
           /\ UNCHANGED ledgerVars
  BY DEF Call
<1> DEFINE tier == RouteTier(node, level[r], triggers, pressure)
<1>2. tier \in Tiers /\ node \in Nodes
  BY RouteIsTier, NodesAreKnown
<1>3. \A c \in Stored(node, tier, 0) : c.by \in Tiers
  BY DEF Stored, TypeOK, Completions
<1>4. call' \in [Requests -> Calls] /\ step' \in [Requests -> Steps]
  <2> HIDE DEF tier
  <2>1. CASE \E c \in Stored(node, tier, 0) :
            /\ call' = [call EXCEPT ![r] = [node |-> node, tier |-> tier, by |-> c.by]]
            /\ UNCHANGED step
    BY <2>1, <1>2, <1>3 DEF TypeOK, Calls
  <2>2. CASE /\ call' = [call EXCEPT ![r] = [node |-> node, tier |-> tier, by |-> tier]]
             /\ Goto(r, "billing")
    BY <2>2, <1>2 DEF TypeOK, Calls, Steps
  <2>3. QED
    BY <1>1, <2>1, <2>2 DEF tier
<1>5. QED
  BY <1>4 DEF Call, TypeOK

LEMMA AnswerTypes ==
    ASSUME TypeOK, NEW r \in Requests, Answer(r)
    PROVE  TypeOK'
<1>1. call[r] \in Calls
  BY DEF TypeOK
<1>2. [node |-> call[r].node, tier |-> call[r].tier, prompt |-> 0, by |-> call[r].by] \in Completions
  BY <1>1 DEF Calls, Completions
<1>3. store' \subseteq Completions
  BY <1>2 DEF Answer, TypeOK
<1>4. QED
  BY <1>3 DEF Answer, TypeOK, Steps

LEMMA SummariseTypes ==
    ASSUME TypeOK, NEW r \in Requests, Summarise(r)
    PROVE  TypeOK'
<1> DEFINE tier == RouteTier("thread_summary", level[r], FALSE, FALSE)
           new == [node |-> "thread_summary", tier |-> tier, prompt |-> work[r], by |-> tier]
<1>1. new \in Completions
  BY RouteIsTier, NodesAreKnown DEF TypeOK, Completions
<1>2. store' = store \/ store' = store \cup {new}
  BY DEF Summarise, GiveUp
<1>3. store' \subseteq Completions
  BY <1>1, <1>2 DEF TypeOK
<1>4. step' \in [Requests -> Steps]
  BY DEF Summarise, GiveUp, TypeOK, Steps
<1>9. work' = work \/ work' = [work EXCEPT ![r] = 0]
  BY DEF Summarise, GiveUp
<1>5. work' \in [Requests -> Nat]
  BY <1>9 DEF TypeOK
<1>6. excused' = excused \/ excused' = TRUE
  BY DEF Summarise, GiveUp
<1>7. excused' \in BOOLEAN
  BY <1>6 DEF TypeOK
<1>8. QED
  BY <1>3, <1>4, <1>5, <1>7 DEF Summarise, TypeOK

LEMMA TypesKept == TypeOK /\ [Next]_vars => TypeOK'
<1> SUFFICES ASSUME TypeOK, [Next]_vars PROVE TypeOK'
  OBVIOUS
<1>1. ASSUME NEW r \in Requests, CallFails(r) PROVE TypeOK'
  BY <1>1, NoCallIsTyped DEF CallFails, TypeOK, Steps
<1>2. ASSUME NEW r \in Requests, Audit(r) PROVE TypeOK'
  BY <1>2, NoCallIsTyped DEF Audit, TypeOK, Steps
<1>3. ASSUME NEW r \in Requests, Written(r) PROVE TypeOK'
  BY <1>3 DEF Written, TypeOK, Steps
<1>4. ASSUME NEW r \in Requests, NotWritten(r) PROVE TypeOK'
  BY <1>4 DEF NotWritten, TypeOK, Steps
<1>5. ASSUME NEW r \in Requests, Respond(r) PROVE TypeOK'
  BY <1>5, NoCallIsTyped DEF Respond, TypeOK, Steps
<1>6. ASSUME NEW r \in Requests, UserTurn(r) PROVE TypeOK'
  BY <1>6 DEF UserTurn, TypeOK, Steps
<1>7. ASSUME NEW r \in Requests, AssistantTurn(r) PROVE TypeOK'
  BY <1>7 DEF AssistantTurn, TypeOK, Steps
<1>8. ASSUME NEW r \in Requests, Count(r) PROVE TypeOK'
  <2>1. step' \in [Requests -> Steps]
    BY <1>8 DEF Count, GiveUp, TypeOK, Steps
  <2>2. work' \in [Requests -> Nat]
    BY <1>8 DEF Count, GiveUp, TypeOK
  <2>3. summary' \in Nat
    BY <1>8 DEF Count, TypeOK
  <2>4. excused' = excused \/ excused' = TRUE
    BY <1>8 DEF Count, GiveUp
  <2>5. excused' \in BOOLEAN
    BY <2>4 DEF TypeOK
  <2>6. QED
    BY <1>8, <2>1, <2>2, <2>3, <2>5 DEF Count, TypeOK
<1>9. ASSUME NEW r \in Requests, ReadHistory(r) PROVE TypeOK'
  <2>1. step' \in [Requests -> Steps]
    BY <1>9 DEF ReadHistory, GiveUp, TypeOK, Steps
  <2>2. work' \in [Requests -> Nat]
    BY <1>9 DEF ReadHistory, GiveUp, TypeOK
  <2>3. summary' \in Nat
    BY <1>9 DEF ReadHistory, TypeOK
  <2>4. excused' = excused \/ excused' = TRUE
    BY <1>9 DEF ReadHistory, GiveUp
  <2>5. excused' \in BOOLEAN
    BY <2>4 DEF TypeOK
  <2>6. QED
    BY <1>9, <2>1, <2>2, <2>3, <2>5 DEF ReadHistory, TypeOK
<1>10. ASSUME NEW r \in Requests, Save(r) PROVE TypeOK'
  <2>1. step' \in [Requests -> Steps]
    BY <1>10 DEF Save, GiveUp, TypeOK, Steps
  <2>2. work' \in [Requests -> Nat]
    BY <1>10 DEF Save, GiveUp, TypeOK
  <2>3. summary' \in Nat
    BY <1>10 DEF Save, TypeOK
  <2>4. excused' = excused \/ excused' = TRUE
    BY <1>10 DEF Save, GiveUp
  <2>5. excused' \in BOOLEAN
    BY <2>4 DEF TypeOK
  <2>6. QED
    BY <1>10, <2>1, <2>2, <2>3, <2>5 DEF Save, TypeOK
<1>11. CASE OtherCall \/ Cooldown \/ Outage \/ Recovery
  <2>1. CASE OtherCall
    BY <2>1 DEF OtherCall, TypeOK
  <2>2. CASE Cooldown
    BY <2>2 DEF Cooldown, TypeOK
  <2>3. CASE Outage
    <3>1. outages' \in Nat
      BY <2>3 DEF Outage, TypeOK
    <3>2. up' \in BOOLEAN
      BY <2>3 DEF Outage
    <3>3. QED
      BY <2>3, <3>1, <3>2 DEF Outage, TypeOK
  <2>4. CASE Recovery
    BY <2>4 DEF Recovery, TypeOK
  <2>5. QED
    BY <1>11, <2>1, <2>2, <2>3, <2>4
<1>12. CASE UNCHANGED vars
  BY <1>12 DEF vars, TypeOK
<1>13. QED
  BY <1>1, <1>2, <1>3, <1>4, <1>5, <1>6, <1>7, <1>8, <1>9, <1>10, <1>11, <1>12,
     CallTypes, AnswerTypes, SummariseTypes DEF Next

\* The requests, the cache, the circuit and the thread keep their types.
THEOREM TypeCorrect == Spec => []TypeOK
<1>1. Init => TypeOK
  BY InitTypes
<1>2. TypeOK /\ [Next]_vars => TypeOK'
  BY TypesKept
<1>3. QED
  BY <1>1, <1>2, PTL DEF Spec

-----------------------------------------------------------------------------
(* The tier that answers.                                                   *)

StoreIsHonest == \A c \in store : c.by = c.tier

TierInv == TypeOK /\ StoreIsHonest /\ AnsweredByItsTier

LEMMA CallIsAnsweredByItsTier ==
    ASSUME TierInv, NEW r \in Requests, NEW node \in NodesInUse, Call(r, node)
    PROVE  StoreIsHonest' /\ AnsweredByItsTier'
<1>1. PICK triggers \in BOOLEAN, pressure \in BOOLEAN :
        \/ \E c \in Stored(node, RouteTier(node, level[r], triggers, pressure), 0) :
            call' = [call EXCEPT ![r] = [node |-> node,
                        tier |-> RouteTier(node, level[r], triggers, pressure), by |-> c.by]]
        \/ call' = [call EXCEPT ![r] = [node |-> node,
                        tier |-> RouteTier(node, level[r], triggers, pressure),
                        by |-> RouteTier(node, level[r], triggers, pressure)]]
  BY DEF Call
<1> DEFINE tier == RouteTier(node, level[r], triggers, pressure)
<1>2. \A c \in Stored(node, tier, 0) : c.by = tier
  BY DEF TierInv, StoreIsHonest, Stored, SameKey
<1>3. level[r] = "High" /\ node \in Answering => tier = "strong"
  BY HighRiskRoutesStrong
<1> HIDE DEF tier
<1>4. call' = [call EXCEPT ![r] = [node |-> node, tier |-> tier, by |-> tier]]
  BY <1>1, <1>2 DEF tier
<1>5. level' = level /\ store' = store
  BY DEF Call
<1>6. AnsweredByItsTier'
  BY <1>3, <1>4, <1>5 DEF TierInv, TypeOK, AnsweredByItsTier
<1>7. QED
  BY <1>5, <1>6 DEF TierInv, StoreIsHonest

LEMMA NoCallIsNotAnswering == NoCall.by = NoCall.tier /\ NoCall.node \notin Answering
BY DEF NoCall, Answering, FIXED_STRONG, ROUTABLE

LEMMA CallIsDropped ==
    ASSUME TierInv, NEW r \in Requests, store' = store, level' = level,
           call' = [call EXCEPT ![r] = NoCall]
    PROVE  StoreIsHonest' /\ AnsweredByItsTier'
BY NoCallIsNotAnswering DEF TierInv, TypeOK, StoreIsHonest, AnsweredByItsTier

LEMMA TierFrame ==
    ASSUME TierInv, store' = store, level' = level, call' = call
    PROVE  StoreIsHonest' /\ AnsweredByItsTier'
BY DEF TierInv, StoreIsHonest, AnsweredByItsTier

LEMMA TierKept == TierInv /\ [Next]_vars => TierInv'
<1> SUFFICES ASSUME TierInv, [Next]_vars PROVE StoreIsHonest' /\ AnsweredByItsTier'
  BY TypesKept DEF TierInv
<1>1. ASSUME NEW r \in Requests, Answer(r) PROVE StoreIsHonest' /\ AnsweredByItsTier'
  <2>1. call[r].by = call[r].tier
    BY DEF TierInv, AnsweredByItsTier
  <2>2. StoreIsHonest'
    BY <1>1, <2>1 DEF Answer, TierInv, StoreIsHonest
  <2>3. AnsweredByItsTier'
    BY <1>1 DEF Answer, TierInv, AnsweredByItsTier
  <2>4. QED
    BY <2>2, <2>3
<1>2. ASSUME NEW r \in Requests, Summarise(r) PROVE StoreIsHonest' /\ AnsweredByItsTier'
  <2> DEFINE tier == RouteTier("thread_summary", level[r], FALSE, FALSE)
             new == [node |-> "thread_summary", tier |-> tier, prompt |-> work[r], by |-> tier]
  <2>1. store' = store \/ store' = store \cup {new}
    BY <1>2 DEF Summarise, GiveUp
  <2>2. new.by = new.tier
    OBVIOUS
  <2> HIDE DEF new
  <2>3. StoreIsHonest'
    BY <2>1, <2>2 DEF TierInv, StoreIsHonest
  <2>4. AnsweredByItsTier'
    BY <1>2 DEF Summarise, TierInv, AnsweredByItsTier
  <2>5. QED
    BY <2>3, <2>4
<1>3. ASSUME NEW r \in Requests, CallFails(r) \/ Audit(r) \/ Respond(r)
      PROVE  StoreIsHonest' /\ AnsweredByItsTier'
  <2>1. store' = store /\ level' = level /\ call' = [call EXCEPT ![r] = NoCall]
    BY <1>3 DEF CallFails, Audit, Respond
  <2>2. QED
    BY <2>1, CallIsDropped
<1>4. ASSUME NEW r \in Requests,
             Written(r) \/ NotWritten(r) \/ UserTurn(r) \/ AssistantTurn(r) \/ Count(r)
                \/ ReadHistory(r) \/ Save(r)
      PROVE  StoreIsHonest' /\ AnsweredByItsTier'
  <2>1. store' = store /\ level' = level /\ call' = call
    BY <1>4 DEF Written, NotWritten, UserTurn, AssistantTurn, Count, ReadHistory, Save
  <2>2. QED
    BY <2>1, TierFrame
<1>5. CASE OtherCall \/ Cooldown \/ Outage \/ Recovery \/ UNCHANGED vars
  <2>1. store' = store /\ level' = level /\ call' = call
    BY <1>5 DEF OtherCall, Cooldown, Outage, Recovery, vars
  <2>2. QED
    BY <2>1, TierFrame
<1>6. QED
  BY <1>1, <1>2, <1>3, <1>4, <1>5, CallIsAnsweredByItsTier DEF Next

\* Every call of every request is answered by the deployment its decision names,
\* and every answering call of a High-risk request by the strong one.
THEOREM TierHolds == Spec => []AnsweredByItsTier
<1>1. Init => TierInv
  BY InitTypes, NoCallIsNotAnswering DEF Init, TierInv, StoreIsHonest, AnsweredByItsTier
<1>2. TierInv /\ [Next]_vars => TierInv'
  BY TierKept
<1>3. TierInv => AnsweredByItsTier
  BY DEF TierInv
<1>4. QED
  BY <1>1, <1>2, <1>3, PTL DEF Spec

-----------------------------------------------------------------------------
(* The audit circuit.                                                       *)

CircuitInv == TypeOK /\ OutageIsBounded

LEMMA WritingIsFinite ==
    /\ IsFiniteSet(Writing) /\ Cardinality(Writing) \in Nat
    /\ Cardinality(Requests) \in Nat
    /\ Cardinality(Writing) <= Cardinality(Requests)
<1>1. Writing \subseteq Requests
  BY DEF Writing
<1>2. QED
  BY <1>1, RequestAssumption, FS_Subset, FS_CardinalityType

LEMMA WritingIsFiniteNext ==
    /\ IsFiniteSet(Writing') /\ Cardinality(Writing') \in Nat
    /\ Cardinality(Requests) \in Nat
    /\ Cardinality(Writing') <= Cardinality(Requests)
<1>1. Writing' \subseteq Requests
  BY DEF Writing
<1>2. QED
  BY <1>1, RequestAssumption, FS_Subset, FS_CardinalityType

\* A row that starts.
LEMMA WritingGrows ==
    ASSUME TypeOK, NEW r \in Requests, step[r] # "auditing", step' = [step EXCEPT ![r] = "auditing"]
    PROVE  Cardinality(Writing') = Cardinality(Writing) + 1
<1>1. Writing' = Writing \cup {r} /\ r \notin Writing
  BY DEF Writing, TypeOK
<1>2. QED
  BY <1>1, WritingIsFinite, FS_AddElement

\* A row that ends.
LEMMA WritingShrinks ==
    ASSUME TypeOK, NEW r \in Requests, step[r] = "auditing", step' = [step EXCEPT ![r] = "running"]
    PROVE  Cardinality(Writing') = Cardinality(Writing) - 1
<1>1. Writing' = Writing \ {r} /\ r \in Writing
  BY DEF Writing, TypeOK
<1>2. QED
  BY <1>1, WritingIsFinite, FS_RemoveElement

\* Any other step of a request.
LEMMA CircuitFrame ==
    ASSUME CircuitInv, failures' = failures, Writing' = Writing
    PROVE  OutageIsBounded'
BY DEF CircuitInv, OutageIsBounded

LEMMA WritingStays ==
    ASSUME TypeOK, NEW r \in Requests, NEW s \in Steps \ {"auditing"},
           step[r] # "auditing", step' = [step EXCEPT ![r] = s]
    PROVE  Writing' = Writing
BY DEF Writing, TypeOK

LEMMA AuditKeepsBound ==
    ASSUME CircuitInv, NEW r \in Requests, Audit(r)
    PROVE  OutageIsBounded'
<1>1. failures \in Nat /\ FailureThreshold \in Nat \ {0} /\ step[r] # "auditing"
  BY ThresholdAssumption DEF CircuitInv, TypeOK, Audit
<1>2. CASE step' = [step EXCEPT ![r] = "auditing"]
           /\ ((failures' = failures /\ failures < FailureThreshold) \/ failures' = 0)
  BY <1>1, <1>2, WritingIsFiniteNext DEF OutageIsBounded
<1>3. CASE step' = step /\ failures' = failures
  BY <1>3, CircuitFrame DEF Writing
<1>4. QED
  BY <1>2, <1>3 DEF Audit, Closed

LEMMA WriteEndsKeepBound ==
    ASSUME CircuitInv, NEW r \in Requests, Written(r) \/ NotWritten(r)
    PROVE  OutageIsBounded'
<1>1. Cardinality(Writing') = Cardinality(Writing) - 1
  BY WritingShrinks DEF CircuitInv, Written, NotWritten
<1>2. failures \in Nat /\ (failures' = 0 \/ failures' = failures + 1)
  BY DEF CircuitInv, TypeOK, Written, NotWritten
<1>3. FailureThreshold \in Nat \ {0}
  BY ThresholdAssumption
<1>4. QED
  BY <1>1, <1>2, <1>3, WritingIsFinite, WritingIsFiniteNext DEF CircuitInv, OutageIsBounded

LEMMA CircuitKept == CircuitInv /\ [Next]_vars => CircuitInv'
<1> SUFFICES ASSUME CircuitInv, [Next]_vars PROVE OutageIsBounded'
  BY TypesKept DEF CircuitInv
<1> USE DEF CircuitInv
<1>1. ASSUME NEW r \in Requests, NEW node \in NodesInUse, Call(r, node) PROVE OutageIsBounded'
  <2>1. failures' = failures /\ step[r] # "auditing"
        /\ (step' = step \/ step' = [step EXCEPT ![r] = "billing"])
    BY <1>1 DEF Call
  <2>2. Writing' = Writing
    BY <2>1, WritingStays DEF Steps, Writing
  <2>3. QED
    BY <2>1, <2>2, CircuitFrame
<1>2. ASSUME NEW r \in Requests,
             Answer(r) \/ CallFails(r) \/ Respond(r) \/ UserTurn(r) \/ AssistantTurn(r)
      PROVE  OutageIsBounded'
  <2>1. failures' = failures /\ step[r] # "auditing"
    BY <1>2 DEF Answer, CallFails, Respond, UserTurn, AssistantTurn
  <2>2. \E s \in Steps \ {"auditing"} : step' = [step EXCEPT ![r] = s]
    BY <1>2 DEF Answer, CallFails, Respond, UserTurn, AssistantTurn, Steps
  <2>3. QED
    BY <2>1, <2>2, WritingStays, CircuitFrame
<1>3. ASSUME NEW r \in Requests, Count(r) \/ ReadHistory(r) \/ Summarise(r) \/ Save(r)
      PROVE  OutageIsBounded'
  <2>1. failures' = failures /\ step[r] # "auditing"
    BY <1>3 DEF Count, ReadHistory, Summarise, Save
  <2>2. \E s \in Steps \ {"auditing"} : step' = [step EXCEPT ![r] = s]
    BY <1>3 DEF Count, ReadHistory, Summarise, Save, GiveUp, Steps
  <2>3. QED
    BY <2>1, <2>2, WritingStays, CircuitFrame
<1>4. CASE OtherCall \/ Cooldown \/ Outage \/ Recovery \/ UNCHANGED vars
  <2>1. failures' = failures /\ step' = step
    BY <1>4 DEF OtherCall, Cooldown, Outage, Recovery, vars
  <2>2. QED
    BY <2>1, CircuitFrame DEF Writing
<1>5. QED
  BY <1>1, <1>2, <1>3, <1>4, AuditKeepsBound, WriteEndsKeepBound DEF Next

\* However many requests audit at once, an outage costs at most the threshold and
\* one row more for each other request in flight before the circuit holds them back.
THEOREM OutageHolds == Spec => []OutageIsBounded
<1>1. Init => CircuitInv
  <2> SUFFICES ASSUME Init PROVE OutageIsBounded
    BY InitTypes DEF CircuitInv
  <2>1. Writing = {}
    BY DEF Init, Writing
  <2>2. Cardinality(Requests) # 0
    BY RequestAssumption, FS_EmptySet
  <2>3. QED
    BY <2>1, <2>2, FS_EmptySet, WritingIsFinite, ThresholdAssumption DEF Init, OutageIsBounded
<1>2. CircuitInv /\ [Next]_vars => CircuitInv'
  BY CircuitKept
<1>3. CircuitInv => OutageIsBounded
  BY DEF CircuitInv
<1>4. QED
  BY <1>1, <1>2, <1>3, PTL DEF Spec

-----------------------------------------------------------------------------
(* The summary of the thread.                                               *)

\* Unless the property is excused, one request at most refreshes the summary, and
\* what it is about to save covers the last answer.
OneRefresh ==
    excused \/ \A r, q \in Requests :
        step[r] \in Refreshing /\ step[q] \in Refreshing => r = q
WorkIsCurrent ==
    excused \/ \A r \in Requests :
        step[r] \in {"summarising", "saving"} => work[r] >= answered
ThreadInv ==
    /\ TypeOK
    /\ answered <= turns
    /\ OneRefresh
    /\ WorkIsCurrent
    /\ SummaryIsCurrent

\* A step of r outside refresh_summary.
LEMMA ThreadFrame ==
    ASSUME ThreadInv, NEW r \in Requests, NEW s \in Steps \ Refreshing,
           step[r] \notin Refreshing, step' = [step EXCEPT ![r] = s],
           turns' \in Nat, turns' >= turns,
           UNCHANGED <<work, summary, answered, excused>>
    PROVE  (answered <= turns /\ OneRefresh /\ WorkIsCurrent /\ SummaryIsCurrent)'
<1>1. step'[r] = s /\ \A q \in Requests \ {r} : step'[q] = step[q]
  BY DEF ThreadInv, TypeOK
<1>2. \A q \in Requests : step[q] \in Refreshing => step'[q] = step[q]
  BY DEF ThreadInv, TypeOK
<1>3. (answered <= turns)'
  BY DEF ThreadInv, TypeOK
<1>4. OneRefresh'
  BY <1>1 DEF ThreadInv, OneRefresh
<1>5. WorkIsCurrent'
  BY <1>1 DEF ThreadInv, WorkIsCurrent, Refreshing
<1>6. SummaryIsCurrent'
  BY <1>2 DEF ThreadInv, SummaryIsCurrent
<1>7. QED
  BY <1>3, <1>4, <1>5, <1>6

LEMMA ThreadStutter ==
    ASSUME ThreadInv, UNCHANGED <<step, turns, work, summary, answered, excused>>
    PROVE  (answered <= turns /\ OneRefresh /\ WorkIsCurrent /\ SummaryIsCurrent)'
BY DEF ThreadInv, OneRefresh, WorkIsCurrent, SummaryIsCurrent

LEMMA AssistantTurnKeeps ==
    ASSUME ThreadInv, NEW r \in Requests, AssistantTurn(r)
    PROVE  (answered <= turns /\ OneRefresh /\ WorkIsCurrent /\ SummaryIsCurrent)'
<1>1. /\ step'[r] = "counting"
      /\ \A q \in Requests \ {r} : step'[q] = step[q]
  BY DEF AssistantTurn, ThreadInv, TypeOK
<1>2. excused' \/ \A q \in Requests \ {r} : step[q] \notin Refreshing
  BY DEF AssistantTurn
<1>3. (answered <= turns)'
  BY DEF AssistantTurn, ThreadInv, TypeOK
<1>4. OneRefresh'
  BY <1>1, <1>2 DEF OneRefresh
<1>5. WorkIsCurrent'
  BY <1>1, <1>2 DEF WorkIsCurrent, Refreshing
<1>6. SummaryIsCurrent'
  BY <1>1 DEF SummaryIsCurrent, Refreshing
<1>7. QED
  BY <1>3, <1>4, <1>5, <1>6

\* Giving up excuses everything.
LEMMA ExcusedKeeps ==
    ASSUME ThreadInv, excused' = TRUE, UNCHANGED <<turns, answered>>
    PROVE  (answered <= turns /\ OneRefresh /\ WorkIsCurrent /\ SummaryIsCurrent)'
BY DEF ThreadInv, OneRefresh, WorkIsCurrent, SummaryIsCurrent

\* A step of r inside refresh_summary, to s.
LEMMA RefreshGoesOn ==
    ASSUME ThreadInv, NEW r \in Requests, NEW s \in {"reading", "summarising", "saving"},
           step[r] \in Refreshing, step' = [step EXCEPT ![r] = s],
           UNCHANGED <<turns, summary, answered, excused>>,
           \A q \in Requests \ {r} : work'[q] = work[q],
           s # "reading" => excused \/ work'[r] >= answered
    PROVE  (answered <= turns /\ OneRefresh /\ WorkIsCurrent /\ SummaryIsCurrent)'
<1>1. step'[r] = s /\ \A q \in Requests \ {r} : step'[q] = step[q]
  BY DEF ThreadInv, TypeOK
<1>2. OneRefresh'
  BY <1>1 DEF ThreadInv, OneRefresh
<1>3. WorkIsCurrent'
  BY <1>1 DEF ThreadInv, WorkIsCurrent
<1>4. SummaryIsCurrent'
  BY <1>1 DEF SummaryIsCurrent, Refreshing
<1>5. (answered <= turns)'
  BY DEF ThreadInv
<1>6. QED
  BY <1>2, <1>3, <1>4, <1>5

\* The refresh of r ends: the thread is too short, or its summary is up to date.
LEMMA RefreshEnds ==
    ASSUME ThreadInv, NEW r \in Requests,
           step[r] \in Refreshing, step' = [step EXCEPT ![r] = "done"],
           UNCHANGED <<turns, answered, excused>>,
           \A q \in Requests \ {r} : work'[q] = work[q],
           excused \/ answered < SummaryAfter \/ summary' >= answered
    PROVE  (answered <= turns /\ OneRefresh /\ WorkIsCurrent /\ SummaryIsCurrent)'
<1>1. step'[r] = "done" /\ \A q \in Requests \ {r} : step'[q] = step[q]
  BY DEF ThreadInv, TypeOK
<1>2. OneRefresh'
  BY <1>1 DEF ThreadInv, OneRefresh, Refreshing
<1>3. WorkIsCurrent'
  BY <1>1 DEF ThreadInv, WorkIsCurrent
<1>4. SummaryIsCurrent'
  BY DEF SummaryIsCurrent
<1>5. (answered <= turns)'
  BY DEF ThreadInv
<1>6. QED
  BY <1>2, <1>3, <1>4, <1>5

LEMMA RefreshKeeps ==
    ASSUME ThreadInv, NEW r \in Requests,
           Count(r) \/ ReadHistory(r) \/ Summarise(r) \/ Save(r)
    PROVE  (answered <= turns /\ OneRefresh /\ WorkIsCurrent /\ SummaryIsCurrent)'
<1>1. step[r] \in Refreshing /\ UNCHANGED <<turns, answered>>
  BY DEF Count, ReadHistory, Summarise, Save, Refreshing
<1>2. CASE GiveUp(r)
  BY <1>1, <1>2, ExcusedKeeps DEF GiveUp
<1>3. CASE Count(r) /\ ~GiveUp(r)
  <2>1. UNCHANGED <<work, excused, summary>>
    BY <1>3 DEF Count
  <2>2. CASE Due(turns)
    BY <1>1, <1>3, <2>1, <2>2, RefreshGoesOn DEF Count
  <2>3. CASE ~Due(turns)
    <3>1. answered < SummaryAfter
      BY <2>3, ThresholdAssumption DEF Due, ThreadInv, TypeOK
    <3>2. step' = [step EXCEPT ![r] = "done"]
      BY <1>3, <2>3 DEF Count
    <3>3. QED
      BY <1>1, <2>1, <3>1, <3>2, RefreshEnds
  <2>4. QED
    BY <2>2, <2>3
<1>4. CASE ReadHistory(r) /\ ~GiveUp(r)
  <2>1. UNCHANGED <<excused, summary>> /\ step' = [step EXCEPT ![r] = "summarising"]
        /\ work' = [work EXCEPT ![r] = turns]
    BY <1>4 DEF ReadHistory
  <2>2. work'[r] >= answered /\ \A q \in Requests \ {r} : work'[q] = work[q]
    BY <2>1 DEF ThreadInv, TypeOK
  <2>3. QED
    BY <1>1, <2>1, <2>2, RefreshGoesOn
<1>5. CASE Summarise(r) /\ ~GiveUp(r)
  <2>1. UNCHANGED <<excused, work, summary>> /\ step' = [step EXCEPT ![r] = "saving"]
    BY <1>5 DEF Summarise
  <2>2. excused \/ work[r] >= answered
    BY <1>5 DEF Summarise, ThreadInv, WorkIsCurrent
  <2>3. QED
    BY <1>1, <2>1, <2>2, RefreshGoesOn
<1>6. CASE Save(r) /\ ~GiveUp(r)
  <2>1. /\ summary' = work[r] /\ UNCHANGED excused
        /\ step' = [step EXCEPT ![r] = "done"]
        /\ work' = [work EXCEPT ![r] = 0]
    BY <1>6 DEF Save
  <2>2. excused \/ work[r] >= answered
    BY <1>6 DEF Save, ThreadInv, WorkIsCurrent
  <2>3. \A q \in Requests \ {r} : work'[q] = work[q]
    BY <2>1 DEF ThreadInv, TypeOK
  <2>4. QED
    BY <1>1, <2>1, <2>2, <2>3, RefreshEnds
<1>7. QED
  BY <1>2, <1>3, <1>4, <1>5, <1>6

LEMMA ThreadKept == ThreadInv /\ [Next]_vars => ThreadInv'
<1> SUFFICES ASSUME ThreadInv, [Next]_vars
             PROVE  (answered <= turns /\ OneRefresh /\ WorkIsCurrent /\ SummaryIsCurrent)'
  BY TypesKept DEF ThreadInv
<1>0. turns \in Nat
  BY DEF ThreadInv, TypeOK
<1>1. ASSUME NEW r \in Requests, NEW node \in NodesInUse, Call(r, node)
      PROVE  (answered <= turns /\ OneRefresh /\ WorkIsCurrent /\ SummaryIsCurrent)'
  <2>1. UNCHANGED <<turns, work, summary, answered, excused>> /\ step[r] = "running"
        /\ (step' = step \/ step' = [step EXCEPT ![r] = "billing"])
    BY <1>1 DEF Call
  <2>2. CASE step' = step
    BY <2>1, <2>2, ThreadStutter
  <2>3. CASE step' = [step EXCEPT ![r] = "billing"]
    <3>1. "billing" \in Steps \ Refreshing /\ step[r] \notin Refreshing
      BY <2>1 DEF Steps, Refreshing
    <3>2. turns' \in Nat /\ turns' >= turns
      BY <2>1, <1>0
    <3>3. QED
      BY <2>1, <2>3, <3>1, <3>2, ThreadFrame
  <2>4. QED
    BY <2>1, <2>2, <2>3
<1>2. ASSUME NEW r \in Requests,
             Answer(r) \/ CallFails(r) \/ Written(r) \/ NotWritten(r) \/ Respond(r) \/ UserTurn(r)
      PROVE  (answered <= turns /\ OneRefresh /\ WorkIsCurrent /\ SummaryIsCurrent)'
  <2>1. UNCHANGED <<work, summary, answered, excused>> /\ step[r] \notin Refreshing
    BY <1>2 DEF Answer, CallFails, Written, NotWritten, Respond, UserTurn, Refreshing
  <2>2. turns' = turns \/ turns' = turns + 1
    BY <1>2 DEF Answer, CallFails, Written, NotWritten, Respond, UserTurn
  <2>3. \E s \in Steps \ Refreshing : step' = [step EXCEPT ![r] = s]
    BY <1>2 DEF Answer, CallFails, Written, NotWritten, Respond, UserTurn, Steps, Refreshing
  <2>4. turns' \in Nat /\ turns' >= turns
    BY <2>2, <1>0
  <2>5. QED
    BY <2>1, <2>3, <2>4, ThreadFrame
<1>3. ASSUME NEW r \in Requests, Audit(r)
      PROVE  (answered <= turns /\ OneRefresh /\ WorkIsCurrent /\ SummaryIsCurrent)'
  <2>1. UNCHANGED <<turns, work, summary, answered, excused>> /\ step[r] = "running"
        /\ (step' = step \/ step' = [step EXCEPT ![r] = "auditing"])
    BY <1>3 DEF Audit
  <2>2. CASE step' = step
    BY <2>1, <2>2, ThreadStutter
  <2>3. CASE step' = [step EXCEPT ![r] = "auditing"]
    <3>1. "auditing" \in Steps \ Refreshing /\ step[r] \notin Refreshing
      BY <2>1 DEF Steps, Refreshing
    <3>2. turns' \in Nat /\ turns' >= turns
      BY <2>1, <1>0
    <3>3. QED
      BY <2>1, <2>3, <3>1, <3>2, ThreadFrame
  <2>4. QED
    BY <2>1, <2>2, <2>3
<1>4. CASE OtherCall \/ Cooldown \/ Outage \/ Recovery \/ UNCHANGED vars
  BY <1>4, ThreadStutter DEF OtherCall, Cooldown, Outage, Recovery, vars
<1>5. QED
  BY <1>1, <1>2, <1>3, <1>4, AssistantTurnKeeps, RefreshKeeps DEF Next

\* Refreshes that do not overlap and do not fail leave a summary that covers the
\* last answer of the thread.
THEOREM SummaryHolds == Spec => []SummaryIsCurrent
<1>1. Init => ThreadInv
  <2> SUFFICES ASSUME Init PROVE ThreadInv
    OBVIOUS
  <2>1. answered <= turns /\ \A r \in Requests : step[r] = "running"
    BY DEF Init
  <2>2. summary >= answered
    BY DEF Init
  <2>3. QED
    BY <2>1, <2>2, InitTypes
       DEF ThreadInv, OneRefresh, WorkIsCurrent, SummaryIsCurrent, Refreshing
<1>2. ThreadInv /\ [Next]_vars => ThreadInv'
  BY ThreadKept
<1>3. ThreadInv => SummaryIsCurrent
  BY DEF ThreadInv
<1>4. QED
  BY <1>1, <1>2, <1>3, PTL DEF Spec
-----------------------------------------------------------------------------
(* The cost ledger.                                                         *)

TrackedCallers == Requests \cup {Others}
Rows == [caller : TrackedCallers, usage : Ledger!Usages]

\* A ledger holds one row of a caller.
OneRowEach(l) == \A i, j \in 1..Len(l) : l[i].caller = l[j].caller => i = j
Kept(l) == l \in Seq(Rows) /\ OneRowEach(l) /\ Len(l) <= MaxTracked

\* Row i is followed by rows of callers in set only.
FollowedBy(l, i, set) == \A j \in 1..Len(l) : j > i => l[j].caller \in set

LEMMA UsageOfRow ==
    ASSUME NEW l \in Seq(Rows), OneRowEach(l), NEW i \in 1..Len(l)
    PROVE  Ledger!Usage(l, l[i].caller) = l[i].usage
<1>1. DOMAIN l = 1..Len(l)
  OBVIOUS
<1>2. Ledger!Tracked(l, l[i].caller)
  BY <1>1 DEF Ledger!Tracked
<1>3. /\ Ledger!Position(l, l[i].caller) \in 1..Len(l)
      /\ l[Ledger!Position(l, l[i].caller)].caller = l[i].caller
  BY <1>1 DEF Ledger!Position
<1>4. Ledger!Position(l, l[i].caller) = i
  BY <1>3 DEF OneRowEach
<1>5. QED
  BY <1>2, <1>4 DEF Ledger!Usage

\* The rows of the other callers, when the caller's is taken out: each is still
\* there, followed by no row that did not follow it before.
LEMMA RestKeepsOrder ==
    ASSUME NEW l, Kept(l), NEW c \in TrackedCallers
    PROVE  LET r == Ledger!Rest(l, c) IN
           /\ Kept(r)
           /\ \A k \in 1..Len(r) : r[k].caller # c
           /\ \A i \in 1..Len(l) : l[i].caller # c =>
                \E k \in 1..Len(r) :
                    /\ r[k] = l[i]
                    /\ \A j \in 1..Len(r) : j > k =>
                          \E n \in 1..Len(l) : n > i /\ r[j] = l[n]
           /\ \A k \in 1..Len(r) : \E i \in 1..Len(l) : r[k] = l[i]
<1> DEFINE r == Ledger!Rest(l, c)
<1>0. l \in Seq(Rows) /\ Len(l) \in Nat /\ DOMAIN l = 1..Len(l) /\ MaxTracked \in Nat
  BY TrackedAssumption DEF Kept
<1>1. CASE ~Ledger!Tracked(l, c)
  <2>1. r = l
    BY <1>1 DEF Ledger!Rest
  <2>2. \A k \in 1..Len(l) : l[k].caller # c
    BY <1>0, <1>1 DEF Ledger!Tracked
  <2>3. QED
    BY <2>1, <2>2
<1>2. CASE Ledger!Tracked(l, c)
  <2> DEFINE p == Ledger!Position(l, c)
  <2>1. p \in 1..Len(l) /\ l[p].caller = c
    BY <1>0, <1>2 DEF Ledger!Tracked, Ledger!Position
  <2>2. r = [j \in 1..(Len(l) - 1) |-> IF j < p THEN l[j] ELSE l[j + 1]]
    BY <1>2 DEF Ledger!Rest
  <2> HIDE DEF p, r
  <2>3. \A j \in 1..(Len(l) - 1) : r[j] = IF j < p THEN l[j] ELSE l[j + 1]
    BY <2>2
  <2>4. Len(l) - 1 \in Nat
    BY <1>0, <2>1
  <2>5. \A j \in 1..(Len(l) - 1) : r[j] \in Rows
    <3> SUFFICES ASSUME NEW j \in 1..(Len(l) - 1) PROVE r[j] \in Rows
      OBVIOUS
    <3>1. j \in 1..Len(l) /\ j + 1 \in 1..Len(l)
      BY <1>0
    <3>2. l[j] \in Rows /\ l[j + 1] \in Rows
      BY <3>1, <1>0
    <3>3. QED
      BY <2>3, <3>2
  <2>6. r \in [1..(Len(l) - 1) -> Rows]
    BY <2>2, <2>5
  <2>7. r \in Seq(Rows) /\ Len(r) = Len(l) - 1
    BY <2>4, <2>6
  <2>8. OneRowEach(r)
    <3> SUFFICES ASSUME NEW i \in 1..Len(r), NEW j \in 1..Len(r), r[i].caller = r[j].caller
                 PROVE  i = j
      BY DEF OneRowEach
    <3> DEFINE a == IF i < p THEN i ELSE i + 1
               b == IF j < p THEN j ELSE j + 1
    <3>1. a \in 1..Len(l) /\ b \in 1..Len(l) /\ l[a] = r[i] /\ l[b] = r[j]
      BY <1>0, <2>1, <2>3, <2>7
    <3>2. a = b
      BY <3>1 DEF Kept, OneRowEach
    <3>3. QED
      BY <3>2, <1>0, <2>1, <2>7
  <2>9. \A k \in 1..Len(r) : r[k].caller # c /\ \E i \in 1..Len(l) : r[k] = l[i]
    <3> SUFFICES ASSUME NEW k \in 1..Len(r)
                 PROVE  r[k].caller # c /\ \E i \in 1..Len(l) : r[k] = l[i]
      OBVIOUS
    <3> DEFINE a == IF k < p THEN k ELSE k + 1
    <3>1. a \in 1..Len(l) /\ a # p /\ r[k] = l[a]
      BY <1>0, <2>1, <2>3, <2>7
    <3>2. QED
      BY <3>1, <2>1 DEF Kept, OneRowEach
  <2>10. ASSUME NEW i \in 1..Len(l), l[i].caller # c
         PROVE  \E k \in 1..Len(r) :
                    /\ r[k] = l[i]
                    /\ \A j \in 1..Len(r) : j > k =>
                          \E n \in 1..Len(l) : n > i /\ r[j] = l[n]
    <3> DEFINE k == IF i < p THEN i ELSE i - 1
    <3>1. i # p
      BY <2>1, <2>10
    <3>2. k \in 1..Len(r) /\ r[k] = l[i]
      BY <3>1, <1>0, <2>1, <2>3, <2>7
    <3>3. ASSUME NEW j \in 1..Len(r), j > k
          PROVE  \E n \in 1..Len(l) : n > i /\ r[j] = l[n]
      <4> DEFINE n == IF j < p THEN j ELSE j + 1
      <4>1. n \in 1..Len(l) /\ n > i /\ r[j] = l[n]
        BY <3>1, <3>3, <1>0, <2>1, <2>3, <2>7
      <4>2. QED
        BY <4>1
    <3>4. QED
      BY <3>2, <3>3
  <2>11. Len(r) <= MaxTracked
    BY <1>0, <2>7 DEF Kept
  <2>12. QED
    BY <2>7, <2>8, <2>9, <2>10, <2>11 DEF Kept, r
<1>3. QED
  BY <1>1, <1>2

\* A write puts the caller's row last.  Any other row is still there, followed by
\* the caller and by callers that followed it before; or it was the oldest of a
\* full ledger, and every row there is now is one of those.
LEMMA WriteKeepsOrder ==
    ASSUME NEW l, Kept(l), NEW c \in TrackedCallers, NEW u \in Ledger!Usages
    PROVE  LET w == Ledger!Write(l, c, u) IN
           /\ Kept(w)
           /\ Len(w) >= 1 /\ w[Len(w)] = [caller |-> c, usage |-> u]
           /\ \A k \in 1..Len(w) : w[k].caller # c => \E i \in 1..Len(l) : w[k] = l[i]
           /\ \A i \in 1..Len(l) : \A set : l[i].caller # c /\ c \in set /\ FollowedBy(l, i, set) =>
                \/ \E k \in 1..Len(w) : w[k] = l[i] /\ FollowedBy(w, k, set)
                \/ Len(w) = MaxTracked /\ FollowedBy(w, 0, set)
<1> DEFINE r == Ledger!Rest(l, c)
           row == [caller |-> c, usage |-> u]
           a == Append(r, row)
           w == Ledger!Write(l, c, u)
<1>1. /\ Kept(r)
      /\ \A k \in 1..Len(r) : r[k].caller # c
      /\ \A i \in 1..Len(l) : l[i].caller # c =>
           \E k \in 1..Len(r) :
               /\ r[k] = l[i]
               /\ \A j \in 1..Len(r) : j > k => \E n \in 1..Len(l) : n > i /\ r[j] = l[n]
      /\ \A k \in 1..Len(r) : \E i \in 1..Len(l) : r[k] = l[i]
  BY RestKeepsOrder
<1>2. w = IF Len(a) > MaxTracked THEN Tail(a) ELSE a
  BY DEF Ledger!Write, Ledger!Bounded
<1>3. row \in Rows /\ row.caller = c
  BY DEF Rows
<1> HIDE DEF r, row, w
<1>4. r \in Seq(Rows) /\ Len(r) \in Nat /\ MaxTracked \in Nat \ {0} /\ Len(r) <= MaxTracked
  BY <1>1, TrackedAssumption DEF Kept
<1>5. /\ a \in Seq(Rows) /\ Len(a) = Len(r) + 1 /\ a[Len(r) + 1] = row
      /\ \A k \in 1..Len(r) : a[k] = r[k]
  BY <1>3, <1>4
<1>6. OneRowEach(a)
  <2> SUFFICES ASSUME NEW i \in 1..Len(a), NEW j \in 1..Len(a), a[i].caller = a[j].caller
               PROVE  i = j
    BY DEF OneRowEach
  <2>1. i \in 1..Len(r) \/ i = Len(r) + 1
    BY <1>4, <1>5
  <2>2. j \in 1..Len(r) \/ j = Len(r) + 1
    BY <1>4, <1>5
  <2>3. QED
    BY <2>1, <2>2, <1>1, <1>3, <1>5 DEF Kept, OneRowEach
<1>7. \A k \in 1..Len(a) : a[k].caller # c => \E i \in 1..Len(l) : a[k] = l[i]
  BY <1>1, <1>3, <1>4, <1>5
<1>8. ASSUME NEW i \in 1..Len(l), NEW set, l[i].caller # c, c \in set, FollowedBy(l, i, set)
      PROVE  \E k \in 1..Len(r) : a[k] = l[i] /\ FollowedBy(a, k, set)
  <2>1. PICK k \in 1..Len(r) :
            /\ r[k] = l[i]
            /\ \A j \in 1..Len(r) : j > k => \E n \in 1..Len(l) : n > i /\ r[j] = l[n]
    BY <1>1, <1>8
  <2>2. \A j \in 1..Len(r) : j > k => r[j].caller \in set
    BY <2>1, <1>8 DEF FollowedBy
  <2>3. FollowedBy(a, k, set)
    <3> SUFFICES ASSUME NEW j \in 1..Len(a), j > k PROVE a[j].caller \in set
      BY DEF FollowedBy
    <3>1. j \in 1..Len(r) \/ j = Len(r) + 1
      BY <1>4, <1>5
    <3>2. QED
      BY <3>1, <2>2, <1>3, <1>5, <1>8
  <2>4. QED
    BY <2>1, <2>3, <1>5
<1> HIDE DEF a
<1>9. CASE Len(a) <= MaxTracked
  <2>1. w = a
    BY <1>2, <1>4, <1>5, <1>9
  <2>2. Len(w) >= 1 /\ w[Len(w)] = row
    BY <2>1, <1>4, <1>5
  <2>3. Kept(w)
    BY <2>1, <1>5, <1>6, <1>9 DEF Kept
  <2>4. \A i \in 1..Len(l) : \A set : l[i].caller # c /\ c \in set /\ FollowedBy(l, i, set) =>
            \E k \in 1..Len(w) : w[k] = l[i] /\ FollowedBy(w, k, set)
    <3> SUFFICES ASSUME NEW i \in 1..Len(l), NEW set,
                        l[i].caller # c, c \in set, FollowedBy(l, i, set)
                 PROVE  \E k \in 1..Len(w) : w[k] = l[i] /\ FollowedBy(w, k, set)
      OBVIOUS
    <3>1. PICK k \in 1..Len(r) : a[k] = l[i] /\ FollowedBy(a, k, set)
      BY <1>8
    <3>2. k \in 1..Len(w)
      BY <2>1, <1>4, <1>5
    <3>3. QED
      BY <2>1, <3>1, <3>2
  <2>5. QED
    BY <2>1, <2>2, <2>3, <2>4, <1>7 DEF row, w
<1>10. CASE Len(a) > MaxTracked
  <2>1. w = Tail(a) /\ Len(a) = MaxTracked + 1
    BY <1>2, <1>4, <1>5, <1>10
  <2>2. /\ w \in Seq(Rows) /\ Len(w) = MaxTracked
        /\ \A k \in 1..Len(w) : k + 1 \in 1..Len(a) /\ w[k] = a[k + 1]
    BY <2>1, <1>4, <1>5
  <2>3. Len(w) >= 1 /\ w[Len(w)] = row
    BY <2>1, <2>2, <1>4, <1>5
  <2>4. OneRowEach(w)
    <3> SUFFICES ASSUME NEW i \in 1..Len(w), NEW j \in 1..Len(w), w[i].caller = w[j].caller
                 PROVE  i = j
      BY DEF OneRowEach
    <3>1. i + 1 = j + 1
      BY <2>2, <1>6 DEF OneRowEach
    <3>2. QED
      BY <3>1
  <2>5. Kept(w)
    BY <2>2, <2>4, <1>4 DEF Kept
  <2>6. ASSUME NEW i \in 1..Len(l), NEW set, l[i].caller # c, c \in set, FollowedBy(l, i, set)
        PROVE  \/ \E k \in 1..Len(w) : w[k] = l[i] /\ FollowedBy(w, k, set)
               \/ Len(w) = MaxTracked /\ FollowedBy(w, 0, set)
    <3>1. PICK k \in 1..Len(r) : a[k] = l[i] /\ FollowedBy(a, k, set)
      BY <1>8, <2>6
    <3>2. \A j \in 1..Len(w) : j + 1 > k => w[j].caller \in set
      BY <3>1, <2>2 DEF FollowedBy
    <3>3. CASE k = 1
      <4>1. FollowedBy(w, 0, set)
        BY <3>2, <3>3, <2>2, <1>4 DEF FollowedBy
      <4>2. QED
        BY <4>1, <2>2
    <3>4. CASE k # 1
      <4>1. k - 1 \in 1..Len(w) /\ w[k - 1] = a[k]
        BY <3>4, <2>1, <2>2, <1>4, <1>5
      <4>2. FollowedBy(w, k - 1, set)
        BY <3>2, <2>2, <1>4 DEF FollowedBy
      <4>3. QED
        BY <4>1, <4>2, <3>1
    <3>5. QED
      BY <3>3, <3>4
  <2>7. \A k \in 1..Len(w) : w[k].caller # c => \E i \in 1..Len(l) : w[k] = l[i]
    BY <2>2, <1>7
  <2>8. QED
    BY <2>3, <2>5, <2>6, <2>7 DEF row, w
<1>11. QED
  BY <1>9, <1>10, <1>4, <1>5

\* The row of a request that was not overtaken holds all it was told, and only
\* rows of callers that wrote since are behind it.
RowIsWhole(r) ==
    \/ /\ own[r] = Ledger!NoUsage
       /\ \A k \in 1..Len(ledger) : ledger[k].caller # r
    \/ \E k \in 1..Len(ledger) :
        /\ ledger[k] = [caller |-> r, usage |-> own[r]]
        /\ FollowedBy(ledger, k, since[r])

LedgerInv ==
    /\ Kept(ledger)
    /\ own \in [Requests -> Ledger!Usages]
    /\ since \in [Requests -> SUBSET TrackedCallers]
    /\ \A r \in Requests : ~Overtaken(r) => RowIsWhole(r)

LEMMA CallersAreFinite ==
    ASSUME NEW set \in SUBSET TrackedCallers
    PROVE  IsFiniteSet(set) /\ Cardinality(set) \in Nat
<1>1. IsFiniteSet(TrackedCallers)
  BY RequestAssumption, FS_AddElement DEF TrackedCallers
<1>2. IsFiniteSet(set)
  BY <1>1, FS_Subset
<1>3. QED
  BY <1>2, FS_CardinalityType

\* Those who fill a ledger are as many as its rows.
LEMMA FullLedgerHasManyCallers ==
    ASSUME NEW l, Kept(l), Len(l) = MaxTracked,
           NEW set \in SUBSET TrackedCallers, FollowedBy(l, 0, set)
    PROVE  Cardinality(set) >= MaxTracked
<1> DEFINE f == [k \in 1..MaxTracked |-> l[k].caller]
<1>1. MaxTracked \in Nat \ {0}
  BY TrackedAssumption
<1>2. \A k \in 1..MaxTracked : l[k].caller \in set
  BY <1>1 DEF FollowedBy
<1>3. f \in [1..MaxTracked -> set]
  BY <1>2
<1>4. \A i, j \in 1..MaxTracked : f[i] = f[j] => i = j
  BY DEF Kept, OneRowEach
<1>5. IsFiniteSet(1..MaxTracked) /\ Cardinality(1..MaxTracked) = MaxTracked
  BY <1>1, FS_Interval
<1>6. IsFiniteSet(set) /\ Cardinality(set) \in Nat
  BY CallersAreFinite
<1>7. ~(Cardinality(set) < Cardinality(1..MaxTracked))
  <2> HIDE DEF f
  <2>1. SUFFICES ASSUME Cardinality(set) < Cardinality(1..MaxTracked) PROVE FALSE
    OBVIOUS
  <2>2. \E x, y \in 1..MaxTracked : x # y /\ f[x] = f[y]
    BY <2>1, <1>3, <1>5, <1>6, FS_PigeonHole
  <2>3. QED
    BY <2>2, <1>4
<1>8. QED
  BY <1>1, <1>5, <1>6, <1>7

LEMMA UsageIsTyped ==
    ASSUME NEW l, Kept(l), NEW c
    PROVE  Ledger!Usage(l, c) \in Ledger!Usages
<1>1. DOMAIN l = 1..Len(l) /\ l \in Seq(Rows)
  BY DEF Kept
<1>2. CASE Ledger!Tracked(l, c)
  <2>1. Ledger!Position(l, c) \in 1..Len(l)
    BY <1>1, <1>2 DEF Ledger!Tracked, Ledger!Position
  <2>2. l[Ledger!Position(l, c)] \in Rows
    BY <1>1, <2>1
  <2>3. QED
    BY <1>2, <2>2 DEF Ledger!Usage, Rows
<1>3. CASE ~Ledger!Tracked(l, c)
  BY <1>3 DEF Ledger!Usage, Ledger!NoUsage, Ledger!Usages
<1>4. QED
  BY <1>2, <1>3

LEMMA RowIsWholeGivesUsage ==
    ASSUME Kept(ledger), NEW r \in Requests, RowIsWhole(r)
    PROVE  Ledger!Usage(ledger, r) = own[r]
<1>1. DOMAIN ledger = 1..Len(ledger) /\ ledger \in Seq(Rows)
  BY DEF Kept
<1>2. CASE own[r] = Ledger!NoUsage /\ \A k \in 1..Len(ledger) : ledger[k].caller # r
  BY <1>1, <1>2 DEF Ledger!Usage, Ledger!Tracked
<1>3. CASE \E k \in 1..Len(ledger) : ledger[k] = [caller |-> r, usage |-> own[r]]
  <2>1. PICK k \in 1..Len(ledger) : ledger[k] = [caller |-> r, usage |-> own[r]]
    BY <1>3
  <2>2. ledger[k].caller = r /\ ledger[k].usage = own[r]
    BY <2>1
  <2>3. Ledger!Usage(ledger, ledger[k].caller) = ledger[k].usage
    BY <1>1, UsageOfRow DEF Kept
  <2>4. QED
    BY <2>2, <2>3
<1>4. QED
  BY <1>2, <1>3 DEF RowIsWhole

\* Every write keeps the invariant, whoever writes and whatever is counted.
LEMMA WriteKeepsLedger ==
    ASSUME LedgerInv, NEW c \in TrackedCallers, NEW n \in Nat, NEW h \in Nat,
           ledger' = Ledger!Write(ledger, c, Ledger!Plus(Ledger!Usage(ledger, c), n, h)),
           own' = IF c \in Requests THEN [own EXCEPT ![c] = Ledger!Plus(@, n, h)] ELSE own,
           Billed(c)
    PROVE  LedgerInv'
<1> DEFINE u == Ledger!Plus(Ledger!Usage(ledger, c), n, h)
<1>1. u \in Ledger!Usages
  BY UsageIsTyped DEF LedgerInv, Ledger!Plus, Ledger!Usages
<1>2. /\ Kept(ledger')
      /\ Len(ledger') >= 1 /\ ledger'[Len(ledger')] = [caller |-> c, usage |-> u]
      /\ \A k \in 1..Len(ledger') :
            ledger'[k].caller # c => \E i \in 1..Len(ledger) : ledger'[k] = ledger[i]
      /\ \A i \in 1..Len(ledger) : \A set :
            ledger[i].caller # c /\ c \in set /\ FollowedBy(ledger, i, set) =>
                \/ \E k \in 1..Len(ledger') :
                        ledger'[k] = ledger[i] /\ FollowedBy(ledger', k, set)
                \/ Len(ledger') = MaxTracked /\ FollowedBy(ledger', 0, set)
  BY <1>1, WriteKeepsOrder DEF LedgerInv
<1>3. own' \in [Requests -> Ledger!Usages]
  BY DEF LedgerInv, Ledger!Plus, Ledger!Usages
<1>4. since' \in [Requests -> SUBSET TrackedCallers]
  BY DEF LedgerInv, Billed
<1>5. Len(ledger') \in Nat
  BY <1>2 DEF Kept
<1>6. ASSUME NEW r \in Requests, ~Overtaken(r)'
      PROVE  RowIsWhole(r)'
  <2>1. CASE r = c
    <3>1. ~Overtaken(r)
      BY <1>6, <2>1 DEF Overtaken, Billed
    <3>2. Ledger!Usage(ledger, r) = own[r]
      BY <3>1, RowIsWholeGivesUsage DEF LedgerInv
    <3>3. own'[r] = u
      BY <2>1, <3>2 DEF LedgerInv
    <3>4. FollowedBy(ledger', Len(ledger'), since'[r])
      BY <1>5 DEF FollowedBy
    <3>5. Len(ledger') \in 1..Len(ledger') /\ ledger'[Len(ledger')] = [caller |-> r, usage |-> own'[r]]
      BY <1>2, <1>5, <2>1, <3>3
    <3>6. QED
      BY <3>4, <3>5 DEF RowIsWhole
  <2>2. CASE r # c
    <3>1. since'[r] = since[r] \cup {c} /\ own'[r] = own[r]
      BY <2>2 DEF Billed, LedgerInv
    <3>2. since[r] \in SUBSET TrackedCallers /\ since'[r] \in SUBSET TrackedCallers
      BY <1>4 DEF LedgerInv
    <3>3. Cardinality(since[r]) <= Cardinality(since'[r])
      BY <3>1, <3>2, CallersAreFinite, FS_Subset
    <3>4. ~Overtaken(r)
      BY <3>2, <3>3, <1>6, CallersAreFinite, TrackedAssumption DEF Overtaken
    <3>5. RowIsWhole(r)
      BY <3>4 DEF LedgerInv
    <3>6. CASE own[r] = Ledger!NoUsage /\ \A k \in 1..Len(ledger) : ledger[k].caller # r
      <4>1. \A k \in 1..Len(ledger') : ledger'[k].caller # r
        BY <1>2, <2>2, <3>6
      <4>2. QED
        BY <4>1, <3>1, <3>6 DEF RowIsWhole
    <3>7. CASE \E i \in 1..Len(ledger) :
                /\ ledger[i] = [caller |-> r, usage |-> own[r]]
                /\ FollowedBy(ledger, i, since[r])
      <4>1. PICK i \in 1..Len(ledger) :
                /\ ledger[i] = [caller |-> r, usage |-> own[r]]
                /\ FollowedBy(ledger, i, since[r])
        BY <3>7
      <4>2. ledger[i].caller # c /\ c \in since'[r] /\ FollowedBy(ledger, i, since'[r])
        BY <4>1, <2>2, <3>1 DEF FollowedBy
      <4>3. ~(Len(ledger') = MaxTracked /\ FollowedBy(ledger', 0, since'[r]))
        <5>1. SUFFICES ASSUME Len(ledger') = MaxTracked, FollowedBy(ledger', 0, since'[r])
                       PROVE  FALSE
          OBVIOUS
        <5>2. Cardinality(since'[r]) >= MaxTracked
          BY <5>1, <1>2, <3>2, FullLedgerHasManyCallers
        <5>3. QED
          BY <5>2, <1>6 DEF Overtaken
      <4>4. \E k \in 1..Len(ledger') :
                ledger'[k] = ledger[i] /\ FollowedBy(ledger', k, since'[r])
        BY <1>2, <4>2, <4>3
      <4>5. QED
        BY <4>1, <4>4, <3>1 DEF RowIsWhole
    <3>8. QED
      BY <3>5, <3>6, <3>7 DEF RowIsWhole
  <2>3. QED
    BY <2>1, <2>2
<1>7. QED
  BY <1>2, <1>3, <1>4, <1>6 DEF LedgerInv

LEMMA LedgerFrame == LedgerInv /\ UNCHANGED ledgerVars => LedgerInv'
BY DEF LedgerInv, Overtaken, RowIsWhole

LEMMA HitKeepsLedger ==
    ASSUME LedgerInv, NEW r \in Requests, NEW c, Hit(r, c)
    PROVE  LedgerInv'
BY WriteKeepsLedger DEF Hit, Ledger!RecordCacheHit, TrackedCallers

LEMMA LedgerKept == LedgerInv /\ [Next]_vars => LedgerInv'
<1> SUFFICES ASSUME LedgerInv, [Next]_vars PROVE LedgerInv'
  OBVIOUS
<1>1. ASSUME NEW r \in Requests, NEW node \in NodesInUse, Call(r, node) PROVE LedgerInv'
  <2>1. (\E c \in store : Hit(r, c)) \/ UNCHANGED ledgerVars
    BY <1>1 DEF Call, Stored
  <2>2. QED
    BY <2>1, HitKeepsLedger, LedgerFrame
<1>2. ASSUME NEW r \in Requests, Answer(r) PROVE LedgerInv'
  BY <1>2, WriteKeepsLedger DEF Answer, Ledger!RecordCall, TrackedCallers
<1>3. ASSUME NEW r \in Requests, Summarise(r) PROVE LedgerInv'
  <2>1. (\E c \in store : Hit(r, c)) \/ UNCHANGED ledgerVars
    BY <1>3 DEF Summarise, Stored
  <2>2. QED
    BY <2>1, HitKeepsLedger, LedgerFrame
<1>4. CASE OtherCall
  BY <1>4, WriteKeepsLedger, RequestAssumption DEF OtherCall, Ledger!RecordCall, TrackedCallers
<1>5. ASSUME NEW r \in Requests,
             \/ CallFails(r) \/ Audit(r) \/ Written(r) \/ NotWritten(r)
             \/ Respond(r) \/ UserTurn(r) \/ AssistantTurn(r)
             \/ Count(r) \/ ReadHistory(r) \/ Save(r)
      PROVE  LedgerInv'
  BY <1>5, LedgerFrame
     DEF CallFails, Audit, Written, NotWritten, Respond, UserTurn, AssistantTurn,
         Count, ReadHistory, Save
<1>6. CASE Cooldown \/ Outage \/ Recovery \/ UNCHANGED vars
  BY <1>6, LedgerFrame DEF Cooldown, Outage, Recovery, vars
<1>7. QED
  BY <1>1, <1>2, <1>3, <1>4, <1>5, <1>6 DEF Next

\* The usage reported for a request is everything billed and saved for it, unless
\* MaxTracked other callers wrote the ledger after it last did: for every number
\* of requests and of rows kept.
THEOREM LedgerHolds == Spec => []LedgerIsWhole
<1>1. Init => LedgerInv
  <2> SUFFICES ASSUME Init PROVE LedgerInv
    OBVIOUS
  <2>1. ledger = << >> /\ Kept(ledger)
    BY TrackedAssumption DEF Init, Kept, OneRowEach
  <2>2. own \in [Requests -> Ledger!Usages] /\ since \in [Requests -> SUBSET TrackedCallers]
    BY DEF Init, Ledger!NoUsage, Ledger!Usages
  <2>3. \A r \in Requests : RowIsWhole(r)
    BY <2>1 DEF Init, RowIsWhole
  <2>4. QED
    BY <2>1, <2>2, <2>3 DEF LedgerInv
<1>2. LedgerInv /\ [Next]_vars => LedgerInv'
  BY LedgerKept
<1>3. LedgerInv => LedgerIsWhole
  BY RowIsWholeGivesUsage DEF LedgerInv, LedgerIsWhole
<1>4. QED
  BY <1>1, <1>2, <1>3, PTL DEF Spec
=============================================================================
