---------------------------- MODULE Bookkeeping ----------------------------
(***************************************************************************)
(* What requests running side by side leave behind besides their answers:  *)
(* the tier that answered each model call and the completion cache in      *)
(* front of it (configs/llms.py, src/cache/llm_cache.py), the cost ledger  *)
(* (src/llm_routing/ledger.py, fed by src/observability/callbacks.py), the *)
(* audit log behind its circuit (src/core/audit.py) and the turns and      *)
(* summary of their conversation thread (src/core/conversation.py), which  *)
(* background tasks of the routes write after the response is sent.        *)
(* Paths are under backend/.                                               *)
(*                                                                         *)
(* Requests ask the same question in one thread, so a node's prompt is the *)
(* same for all of them.  A request is one POST /ask, or one POST /review  *)
(* that releases an answer.  Each action lies between two accesses to      *)
(* state the requests share.                                               *)
(***************************************************************************)
EXTENDS ModelRouting, Naturals, Sequences, FiniteSets

CONSTANTS
    Requests,
    Others,             \* the rest of the traffic, as one more ledger caller
    NodesInUse,         \* the nodes the requests run
    FailureThreshold,   \* FAILURE_THRESHOLD
    SummaryAfter,       \* conversation_summary_after_turns
    MaxTracked,         \* MAX_TRACKED_REQUESTS
    MaxCalls, MaxAudits, MaxOutages     \* bounds: model calls, audit rows, database outages

ASSUME RequestAssumption == IsFiniteSet(Requests) /\ Requests # {} /\ Others \notin Requests
ASSUME NodeAssumption == NodesInUse \subseteq Nodes \ {"thread_summary"}
ASSUME ThresholdAssumption == FailureThreshold \in Nat \ {0} /\ SummaryAfter \in Nat \ {0}
ASSUME TrackedAssumption == MaxTracked \in Nat \ {0}
ASSUME BoundAssumption == MaxCalls \in Nat /\ MaxAudits \in Nat /\ MaxOutages \in Nat

Ledger == INSTANCE CostLedger WITH Callers <- Requests \cup {Others}

VARIABLES
    step, level,    \* of each request: where it is, its fused risk
    call,       \* the model call it is making, or the last one its node made
    store,      \* the completion cache
    ledger,     \* the rows of the cost ledger
    failures, cooling,      \* the audit circuit: the count, and its cooldown still running
    turns,      \* the thread's turns, numbered from 1
    work,       \* the turns that the summary each request is writing covers
    summary,    \* the turns that the summary in conversation_threads covers
    up,         \* PostgreSQL answers
    calls, audits, outages,
    own, since,     \* ghosts of the ledger: what it was told, who wrote it after
    answered,       \* ghost of the thread: the turn that holds its last answer
    excused         \* ghost of the thread: refreshes overlapped or one gave up
routingVars == <<level, call, store>>
ledgerVars == <<ledger, own, since>>
circuitVars == <<failures, cooling, audits>>
threadVars == <<turns, work, summary, answered, excused>>
vars == <<step, routingVars, ledgerVars, circuitVars, threadVars, up, calls, outages>>

\* billing: the provider is working.  auditing: the INSERT is.  asked, held: the
\* user's turn is next, with or without an answer to follow.  replied: the answer
\* is next.  counting, reading, summarising, saving: refresh_summary.
Steps == {"running", "billing", "auditing", "asked", "held", "replied", "counting", "reading",
          "summarising", "saving", "done"}
Refreshing == {"counting", "reading", "summarising", "saving"}

Calls == [node : Nodes, tier : Tiers, by : Tiers]
NoCall == [node |-> "planner", tier |-> "small", by |-> "small"]
\* A completion: the cache key (the deployment and the prompt, which for a
\* summary is the turns it covers) and the deployment it came from.
Completions == [node : Nodes, tier : Tiers, prompt : Nat, by : Tiers]

Goto(r, s) == step' = [step EXCEPT ![r] = s]

Init ==
    /\ step = [r \in Requests |-> "running"]
    /\ level \in [Requests -> {"High", "Low"}]
    /\ call = [r \in Requests |-> NoCall]
    /\ store = {}
    /\ ledger = << >>
    /\ own = [r \in Requests |-> Ledger!NoUsage]
    /\ since = [r \in Requests |-> {}]
    /\ failures = 0 /\ cooling = FALSE
    /\ turns = 0 /\ answered = 0 /\ summary = 0
    /\ work = [r \in Requests |-> 0]
    /\ excused = FALSE
    /\ up = TRUE
    /\ calls = 0 /\ audits = 0 /\ outages = 0

-----------------------------------------------------------------------------
(* Model calls.                                                             *)

\* A High-risk run answers through the panel, any other without it.
Runs(r, node) ==
    /\ node \in NodesInUse
    /\ node \in FIXED_STRONG => level[r] = "High"
    /\ node \in ROUTABLE \ {"compliance_validation"} => level[r] # "High"

\* since: who wrote the ledger after r last did.  A request that MaxTracked
\* others overtook stays overtaken.
Overtaken(r) == Cardinality(since[r]) >= MaxTracked
Billed(caller) ==
    since' = [r \in Requests |->
        IF r = caller THEN (IF Overtaken(r) THEN since[r] ELSE {}) ELSE since[r] \cup {caller}]

Hit(r, completion) ==
    /\ ledger' = Ledger!RecordCacheHit(ledger, r)
    /\ own' = [own EXCEPT ![r] = Ledger!Plus(@, 0, 1)]
    /\ Billed(r)

\* Mutant of SameKey: the key is the prompt alone.
MutSameKey(c, node, tier, prompt) == c.node = node /\ c.prompt = prompt

SameKey(c, node, tier, prompt) == c.node = node /\ c.tier = tier /\ c.prompt = prompt
Stored(node, tier, prompt) ==
    {c \in store : Cacheable(node) /\ SameKey(c, node, tier, prompt)}

\* routed_model or model_for picks the deployment; a completion of the same
\* prompt by it is reused, or the provider is asked.
Call(r, node) ==
    /\ step[r] = "running"
    /\ calls < MaxCalls
    /\ Runs(r, node)
    /\ \E triggers, pressure \in BOOLEAN :
        LET tier == RouteTier(node, level[r], triggers, pressure) IN
        \/ \E c \in Stored(node, tier, 0) :
            /\ call' = [call EXCEPT ![r] = [node |-> node, tier |-> tier, by |-> c.by]]
            /\ Hit(r, c)
            /\ UNCHANGED step
        \/ /\ Stored(node, tier, 0) = {}
           /\ call' = [call EXCEPT ![r] = [node |-> node, tier |-> tier, by |-> tier]]
           /\ Goto(r, "billing")
           /\ UNCHANGED ledgerVars
    /\ calls' = calls + 1
    /\ UNCHANGED <<level, store, circuitVars, threadVars, up, outages>>

\* The provider answers: the completion is stored and on_llm_end bills it.
Answer(r) ==
    /\ step[r] = "billing"
    /\ LET c == call[r] IN
        store' = IF Cacheable(c.node)
                 THEN store \cup {[node |-> c.node, tier |-> c.tier, prompt |-> 0, by |-> c.by]}
                 ELSE store
    /\ ledger' = Ledger!RecordCall(ledger, r)
    /\ own' = [own EXCEPT ![r] = Ledger!Plus(@, 1, 0)]
    /\ Billed(r)
    /\ Goto(r, "running")
    /\ UNCHANGED <<level, call, circuitVars, threadVars, up, calls, outages>>

\* on_llm_error bills nothing.  The node goes on without the call, or raises and
\* the request ends with a 500 and no background task.
CallFails(r) ==
    /\ step[r] = "billing"
    /\ \/ Goto(r, "running")
       \/ Goto(r, "done")
    /\ call' = [call EXCEPT ![r] = NoCall]
    /\ UNCHANGED <<level, store, ledgerVars, circuitVars, threadVars, up, calls, outages>>

\* A call of a request outside the model.
OtherCall ==
    /\ calls < MaxCalls
    /\ ledger' = Ledger!RecordCall(ledger, Others)
    /\ Billed(Others)
    /\ calls' = calls + 1
    /\ UNCHANGED <<step, routingVars, own, circuitVars, threadVars, up, outages>>

-----------------------------------------------------------------------------
(* Audit rows: one per node that completes, in the request's own thread.    *)

\* Mutant of Closed: one failure more is allowed.
MutClosed(count) == count <= FailureThreshold

Closed(count) == count < FailureThreshold

\* should_attempt: an open circuit lets one row through once its cooldown is
\* over, and starts counting again; until then the row is dropped.
Audit(r) ==
    /\ step[r] = "running"
    /\ audits < MaxAudits
    /\ \/ /\ Closed(failures)
          /\ Goto(r, "auditing")
          /\ UNCHANGED failures
       \/ /\ ~Closed(failures) /\ ~cooling
          /\ Goto(r, "auditing")
          /\ failures' = 0
       \/ /\ ~Closed(failures) /\ cooling
          /\ UNCHANGED <<step, failures>>
    /\ call' = [call EXCEPT ![r] = NoCall]
    /\ audits' = audits + 1
    /\ UNCHANGED <<level, store, ledgerVars, cooling, threadVars, up, calls, outages>>

Written(r) ==
    /\ step[r] = "auditing"
    /\ up
    /\ failures' = 0
    /\ Goto(r, "running")
    /\ UNCHANGED <<routingVars, ledgerVars, cooling, audits, threadVars, up, calls, outages>>

\* Only the failure that reaches the threshold starts the cooldown.
NotWritten(r) ==
    /\ step[r] = "auditing"
    /\ ~up
    /\ failures' = failures + 1
    /\ cooling' = (cooling \/ failures' = FailureThreshold)
    /\ Goto(r, "running")
    /\ UNCHANGED <<routingVars, ledgerVars, audits, threadVars, up, calls, outages>>

Cooldown ==
    /\ cooling
    /\ cooling' = FALSE
    /\ UNCHANGED <<step, routingVars, ledgerVars, failures, audits, threadVars, up, calls, outages>>

-----------------------------------------------------------------------------
(* The response, and the background tasks the route added, in their order.  *)

\* An answer of the run or of the response cache, an escalation or a clarification,
\* a release by POST /review (which makes no model call of its own), a refusal.
Respond(r) ==
    /\ step[r] = "running"
    /\ \/ Goto(r, "asked")
       \/ Goto(r, "held")
       \/ own[r] = Ledger!NoUsage /\ Goto(r, "replied")
       \/ Goto(r, "done")
    /\ call' = [call EXCEPT ![r] = NoCall]
    /\ UNCHANGED <<level, store, ledgerVars, circuitVars, threadVars, up, calls, outages>>

\* append_turn: a failed INSERT is logged and forgotten.
UserTurn(r) ==
    /\ \/ step[r] = "asked" /\ Goto(r, "replied")
       \/ step[r] = "held" /\ Goto(r, "done")
    /\ turns' = IF up THEN turns + 1 ELSE turns
    /\ UNCHANGED <<routingVars, ledgerVars, circuitVars, work, summary, answered, excused,
                   up, calls, outages>>

AssistantTurn(r) ==
    /\ step[r] = "replied"
    /\ turns' = IF up THEN turns + 1 ELSE turns
    /\ answered' = IF up THEN turns + 1 ELSE answered
    /\ Goto(r, "counting")
    /\ excused' = (excused \/ \E other \in Requests \ {r} : step[other] \in Refreshing)
    /\ UNCHANGED <<routingVars, ledgerVars, circuitVars, work, summary, up, calls, outages>>

\* Mutant of Due: a thread of exactly SummaryAfter turns is not summarised.
MutDue(count) == count > SummaryAfter

Due(count) == count >= SummaryAfter

\* refresh_summary gives up, and leaves the summary that was there.
GiveUp(r) == Goto(r, "done") /\ work' = [work EXCEPT ![r] = 0] /\ excused' = TRUE

\* _turn_count.
Count(r) ==
    /\ step[r] = "counting"
    /\ \/ /\ up
          /\ Goto(r, IF Due(turns) THEN "reading" ELSE "done")
          /\ UNCHANGED <<work, excused>>
       \/ ~up /\ GiveUp(r)
    /\ UNCHANGED <<routingVars, ledgerVars, circuitVars, turns, summary, answered,
                   up, calls, outages>>

\* load_history of the last summary_input_turns, here all of them.
ReadHistory(r) ==
    /\ step[r] = "reading"
    /\ \/ /\ up
          /\ work' = [work EXCEPT ![r] = turns]
          /\ Goto(r, "summarising")
          /\ UNCHANGED excused
       \/ ~up /\ GiveUp(r)
    /\ UNCHANGED <<routingVars, ledgerVars, circuitVars, turns, summary, answered,
                   up, calls, outages>>

\* model_for("thread_summary") is invoked without callbacks: a reused completion
\* reaches the ledger (the cache records it), a billed one does not.
Summarise(r) ==
    /\ step[r] = "summarising"
    /\ LET tier == RouteTier("thread_summary", level[r], FALSE, FALSE)
           prompt == work[r] IN
       \/ \E c \in Stored("thread_summary", tier, prompt) :
            /\ Hit(r, c)
            /\ Goto(r, "saving")
            /\ UNCHANGED <<store, work, excused>>
       \/ /\ Stored("thread_summary", tier, prompt) = {}
          /\ \/ /\ store' = store \cup
                    {[node |-> "thread_summary", tier |-> tier, prompt |-> prompt, by |-> tier]}
                /\ Goto(r, "saving")
                /\ UNCHANGED <<work, excused>>
             \/ GiveUp(r) /\ UNCHANGED store
          /\ UNCHANGED ledgerVars
    /\ UNCHANGED <<level, call, circuitVars, turns, summary, answered, up, calls, outages>>

\* The upsert does not look at the summary it replaces.
Save(r) ==
    /\ step[r] = "saving"
    /\ \/ /\ up
          /\ summary' = work[r]
          /\ work' = [work EXCEPT ![r] = 0]
          /\ Goto(r, "done")
          /\ UNCHANGED excused
       \/ ~up /\ GiveUp(r) /\ UNCHANGED summary
    /\ UNCHANGED <<routingVars, ledgerVars, circuitVars, turns, answered, up, calls, outages>>

-----------------------------------------------------------------------------
Outage ==
    /\ up /\ outages < MaxOutages
    /\ up' = FALSE /\ outages' = outages + 1
    /\ UNCHANGED <<step, routingVars, ledgerVars, circuitVars, threadVars, calls>>

Recovery ==
    /\ ~up
    /\ up' = TRUE
    /\ UNCHANGED <<step, routingVars, ledgerVars, circuitVars, threadVars, calls, outages>>

Next ==
    \/ \E r \in Requests :
        \/ \E node \in NodesInUse : Call(r, node)
        \/ Answer(r) \/ CallFails(r)
        \/ Audit(r) \/ Written(r) \/ NotWritten(r)
        \/ Respond(r) \/ UserTurn(r) \/ AssistantTurn(r)
        \/ Count(r) \/ ReadHistory(r) \/ Summarise(r) \/ Save(r)
    \/ OtherCall \/ Cooldown \/ Outage \/ Recovery

Spec == Init /\ [][Next]_vars

-----------------------------------------------------------------------------
TypeOK ==
    /\ step \in [Requests -> Steps]
    /\ level \in [Requests -> Levels]
    /\ call \in [Requests -> Calls]
    /\ store \subseteq Completions
    /\ failures \in Nat /\ cooling \in BOOLEAN
    /\ turns \in Nat /\ answered \in Nat /\ summary \in Nat
    /\ work \in [Requests -> Nat]
    /\ excused \in BOOLEAN
    /\ up \in BOOLEAN
    /\ calls \in Nat /\ audits \in Nat /\ outages \in Nat

\* An answer of a High-risk request is written and judged by the strong tier
\* whatever the budget says, and a completion another request left in the cache
\* never brings in a deployment the routing decision did not name (router.py's
\* "A High-risk request is exempt", llm_cache.py's "only ever reused for an
\* identical call").
AnsweredByItsTier ==
    \A r \in Requests :
        /\ call[r].by = call[r].tier
        /\ call[r].node \in Answering /\ level[r] = "High" => call[r].by = "strong"

\* The usage reported for a request is everything billed and saved for it, as
\* long as there never were MaxTracked other callers that wrote the ledger after
\* it last did: a long run does not lose its row to older ones or to few.
LedgerIsWhole ==
    \A r \in Requests :
        ~Overtaken(r) => Ledger!Usage(ledger, r) = own[r]

Writing == {r \in Requests : step[r] = "auditing"}

\* An outage of the database keeps a bounded number of rows waiting for it: the
\* circuit's failures and the rows still in flight never exceed the threshold by
\* more than the other requests that had started writing before it opened.
OutageIsBounded ==
    failures + Cardinality(Writing) <= FailureThreshold + Cardinality(Requests) - 1

\* Once no request is refreshing it, the summary of a thread long enough to have
\* one covers the last answer given, unless two refreshes overlapped or a step
\* of one failed.
SummaryIsCurrent ==
    \/ excused
    \/ \E r \in Requests : step[r] \in Refreshing
    \/ answered < SummaryAfter
    \/ summary >= answered
=============================================================================
