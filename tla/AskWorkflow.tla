---------------------------- MODULE AskWorkflow ----------------------------
(***************************************************************************)
(* One run of the compiled LangGraph graph for one POST /ask: the nodes of *)
(* backend/src/nodes, the edges of backend/src/graph/routing.py, and the   *)
(* budget guard that every traced node passes before its body runs         *)
(* (backend/src/core/budget.py, backend/src/observability/tracing.py).     *)
(*                                                                         *)
(* A node is one action.  It starts at clock "now", ends at any later      *)
(* clock, and its outgoing edge is chosen on the state it leaves and the   *)
(* clock it ended at.  What a model, the database or the index answers is  *)
(* a free choice.  The run ends at END, at the interrupt after             *)
(* escalation_manager (also END here: nothing runs until a reviewer does   *)
(* something, see ReviewQueue), or by an exception no node catches.        *)
(* Seconds are scaled, tokens are counted in hundreds.                     *)
(***************************************************************************)
EXTENDS PathPolicy

CONSTANTS
    StandardDeadline, HybridDeadline, HighRiskDeadline, \* deadline_seconds_*
    ValidationGrace,      \* validation_grace_seconds
    RepairHeadroom,       \* repair_headroom_seconds
    HybridMin,            \* hybrid_min_seconds
    RerankMin,            \* the second an optional node needs (BudgetGuard)
    TokenBudget,          \* default_token_budget
    MaxReflections, RagRepairs, SqlRepairs, \* max_reflection_retries, *_repair_attempts
    RecursionLimit,       \* recursion_limit of graph.invoke
    MaxElapsed            \* clock bound, past every deadline and grace: later
                          \* times are not distinguished

ASSUME DeadlineAssumption ==
    {StandardDeadline, HybridDeadline, HighRiskDeadline, MaxElapsed} \subseteq Nat
ASSUME HeadroomAssumption ==
    {ValidationGrace, RepairHeadroom, HybridMin, RerankMin} \subseteq Nat
ASSUME TokenAssumption == TokenBudget \in Nat
ASSUME RepairAssumption ==
    {MaxReflections, RagRepairs, SqlRepairs, RecursionLimit} \subseteq Nat

VARIABLES
    node,   \* the node that runs next, "END", or "RAISED"
    now,    \* clock since the request started
    req,    \* the role's grants, and whether the question asks for a person
    st,     \* AgentState
    steps   \* supersteps LangGraph has counted
vars == <<node, now, req, st, steps>>

Nodes == {"input_guardrail", "query_rewrite", "intent_classification",
          "entity_resolution", "risk_assessment", "planner", RagStage, SqlStage,
          PanelStage, Validation, "reflection", "confidence_scoring",
          "output_guardrail", "escalation_manager", "safe_refusal",
          "clarification", "no_answer"}
Final == {"END", "RAISED"}

\* Every role of the RBAC tables reads some document; only the store associate
\* has no table.
Requests == [tables : BOOLEAN, docs : {TRUE}, human : BOOLEAN]

Outcomes == {"none", "answered", "escalated", "refused", "clarification_required"}
NotFoundReasons == {"none", "no_match", "not_in_extracts", "no_records",
                    "no_evidence", NoAccess}
Strategies == {"none", "rag_widen_and_fix", "hybrid_redraft", "sql_renarrate",
               "llm_replan"}

\* AgentState, one field per key the control flow reads.
States ==
    [outcome     : Outcomes,                      \* terminal_outcome
     reason      : BOOLEAN,                       \* escalation_reason is set
     stopped     : BOOLEAN,                       \* budget_stops is not empty
     degraded    : BOOLEAN,
     tokens      : Nat,                           \* tokens_spent
     deadline    : {StandardDeadline, HybridDeadline, HighRiskDeadline},
     intent      : Intents \cup {"none"},
     risk        : {"none", "Low", "High"},       \* Medium is routed like Low
     plan        : EvidencePaths \cup {"none"},
     replan      : BOOLEAN,                       \* plan_from_reflection
     routed      : Routes \cup {NoAccess, "none"},
     path        : Routes \cup {"none"},          \* evidence_path
     clauses     : {"none", "unmatched", "matched"}, \* retrieved_chunks
     rows        : BOOLEAN,                       \* sql_evidence is set
     split       : BOOLEAN,                       \* panel_verdict.unresolved_conflict
     draft       : BOOLEAN,
     verdict     : {"none", "passed", "failed", "conflict"}, \* validation
     strategy    : Strategies,                    \* repair_strategy
     reflections : Nat,                           \* reflection_count
     confident   : {"none", "below", "above"},    \* confidence against the threshold
     unknown     : BOOLEAN,                       \* answer_not_found
     missing     : NotFoundReasons]               \* not_found_reason

InitialState ==
    [outcome |-> "none", reason |-> FALSE, stopped |-> FALSE, degraded |-> FALSE,
     tokens |-> 0, deadline |-> StandardDeadline, intent |-> "none", risk |-> "none",
     plan |-> "none", replan |-> FALSE, routed |-> "none", path |-> "none",
     clauses |-> "none", rows |-> FALSE, split |-> FALSE, draft |-> FALSE,
     verdict |-> "none", strategy |-> "none", reflections |-> 0,
     confident |-> "none", unknown |-> FALSE, missing |-> "none"]

Init ==
    /\ node = "input_guardrail"
    /\ now = 0
    /\ req \in Requests
    /\ st = InitialState
    /\ steps = 0

-----------------------------------------------------------------------------
(* The budget guard. *)

ReleaseTier == {"output_guardrail", "escalation_manager", "safe_refusal",
                "clarification", "confidence_scoring", "no_answer"}

NodeTokens ==
    [query_rewrite |-> 6, entity_resolution |-> 3, risk_assessment |-> 7,
     planner |-> 8, rag_path |-> 30, nl2sql_path |-> 12, multi_agent_panel |-> 70,
     compliance_validation |-> 25, reflection |-> 9]

TokenEstimate(n) == IF n \in DOMAIN NodeTokens THEN NodeTokens[n] ELSE 5

HighRisk(s) == s.risk = "High"
Remaining(s, t) == s.deadline - t
TokensLeft(s) == TokenBudget - s.tokens

\* Only the validator of a finished draft may start late, and not for High.
Grace(n, s) ==
    IF n = Validation /\ s.draft /\ ~HighRisk(s) THEN ValidationGrace ELSE 0

Allowed(n, s, t) ==
    \/ n \in ReleaseTier
    \/ /\ Remaining(s, t) > -Grace(n, s)
       /\ TokensLeft(s) >= TokenEstimate(n)

\* What a refused node leaves instead of running its body.
BudgetStop(s) == [s EXCEPT !.reason = TRUE, !.stopped = TRUE, !.degraded = TRUE]

\* The node takes time and leaves one of "results", or is refused.
Runs(n, results) ==
    /\ node = n
    /\ now' \in now..MaxElapsed
    /\ st' \in IF Allowed(n, st, now) THEN results ELSE {BudgetStop(st)}
    /\ steps' = steps + 1
    /\ UNCHANGED req

Spend(s, tokens) == [s EXCEPT !.tokens = @ + tokens]

\* The flag is kept once set (degraded: x or state["degraded"]).
Degrade(s, worse) == IF worse THEN [s EXCEPT !.degraded = TRUE] ELSE s

\* Clocks a node may read while it runs.
DuringNode == now..now'

-----------------------------------------------------------------------------
(* What the edges read from the state. *)

Stopped(s) == s.reason \/ s.stopped
CurrentRoute(s) == IF HighRisk(s) THEN "high_risk_panel" ELSE s.routed
CurrentPath(s) == IF s.path # "none" THEN s.path ELSE s.routed
Stages(s) == EvidenceStages(CurrentRoute(s), req.tables, req.docs)
Next_Stage(s, after) == NextStage(after, CurrentRoute(s), req.tables, req.docs)

RetrievalFoundNothing(s) == s.clauses = "unmatched" /\ ~s.rows

\* Mutant: a user who asked for a person is told "I don't know" as well.
MutAnswerNotInDocuments(s) ==
    /\ CurrentRoute(s) = "rag"
    /\ s.missing \in {"no_match", "not_in_extracts"} \/ RetrievalFoundNothing(s)

\* The honest answer to a policy question is "I don't know" rather than a guess.
AnswerNotInDocuments(s) ==
    /\ CurrentRoute(s) = "rag"
    /\ ~req.human
    /\ s.missing \in {"no_match", "not_in_extracts"} \/ RetrievalFoundNothing(s)

Capped(attempts) == IF attempts < MaxReflections THEN attempts ELSE MaxReflections

RepairsAllowed(s) ==
    IF CurrentPath(s) = "rag" THEN Capped(RagRepairs)
    ELSE IF CurrentPath(s) = "nl2sql" THEN Capped(SqlRepairs)
    ELSE MaxReflections

\* Mutant: the estimate forgets the planner and the validator.
MutRepairEstimate(s) ==
    LET route == Stages(s)
        InRoute(stage) == \E i \in 1..Len(route) : route[i] = stage
        Cost(stage) == IF InRoute(stage) THEN TokenEstimate(stage) ELSE 0
    IN  TokenEstimate("reflection") + Cost(RagStage) + Cost(SqlStage) + Cost(PanelStage)

\* What one more pass over the current route is estimated to spend.
RepairEstimate(s) ==
    LET route == Stages(s)
        InRoute(stage) == \E i \in 1..Len(route) : route[i] = stage
        Cost(stage) == IF InRoute(stage) THEN TokenEstimate(stage) ELSE 0
    IN  TokenEstimate("reflection") + TokenEstimate("planner")
            + Cost(RagStage) + Cost(SqlStage) + Cost(PanelStage)
            + TokenEstimate(Validation)

-----------------------------------------------------------------------------
(* The conditional edges, in the order their code tests them. *)

AfterGuardrail(s) ==
    IF s.outcome = "refused" THEN "safe_refusal"
    ELSE IF Stopped(s) THEN "escalation_manager" ELSE "query_rewrite"

AfterIntent(s) ==
    IF s.outcome = "refused" THEN "safe_refusal"
    ELSE IF Stopped(s) THEN "escalation_manager" ELSE "entity_resolution"

AfterEntityResolution(s) ==
    IF s.outcome = "clarification_required" THEN "clarification"
    ELSE IF Stopped(s) THEN "escalation_manager" ELSE "risk_assessment"

\* Mutant: a run out of budget just stops.
MutAfterRisk(s) == IF Stopped(s) THEN "END" ELSE "planner"

AfterRisk(s) == IF Stopped(s) THEN "escalation_manager" ELSE "planner"

AfterPlanner(s) ==
    IF Stopped(s) THEN "escalation_manager"
    ELSE IF ~HighRisk(s) /\ s.routed = NoAccess
    THEN IF req.human THEN "escalation_manager" ELSE "no_answer"
    ELSE FirstStage(CurrentRoute(s), req.tables, req.docs)

AfterRagPath(s) ==
    IF Stopped(s) THEN "escalation_manager"
    ELSE IF AnswerNotInDocuments(s) THEN "no_answer"
    ELSE Next_Stage(s, RagStage)

\* Mutant: the hybrid stage's own "nothing found" is not recognised.
MutAfterSqlPath(s) ==
    IF Stopped(s) THEN "escalation_manager"
    ELSE IF CurrentRoute(s) \in {"nl2sql", "hybrid"} /\ s.missing = "no_records"
    THEN IF req.human THEN "escalation_manager" ELSE "no_answer"
    ELSE Next_Stage(s, SqlStage)

AfterSqlPath(s) ==
    LET noRecords == /\ CurrentRoute(s) \in {"nl2sql", "hybrid"}
                     /\ s.missing \in {"no_records", "no_evidence"}
    IN  IF Stopped(s) THEN "escalation_manager"
        ELSE IF noRecords
        THEN IF req.human THEN "escalation_manager" ELSE "no_answer"
        ELSE Next_Stage(s, SqlStage)

AfterPanel(s) == IF Stopped(s) THEN "escalation_manager" ELSE Validation

\* Mutant: the attempts already used are not counted.
MutNoAttemptLimit(s, t) ==
    Remaining(s, t) >= RepairHeadroom /\ TokensLeft(s) >= RepairEstimate(s)

\* Mutant: the tokens another pass needs are not looked at.
MutNoTokenCheck(s, t) ==
    s.reflections < RepairsAllowed(s) /\ Remaining(s, t) >= RepairHeadroom

\* A failed verdict is repaired only when nothing else settles the request and
\* another pass fits the attempts, the clock and the tokens.
CanRepair(s, t) ==
    /\ s.reflections < RepairsAllowed(s)
    /\ Remaining(s, t) >= RepairHeadroom
    /\ TokensLeft(s) >= RepairEstimate(s)

AfterValidation(s, t) ==
    IF s.stopped THEN "escalation_manager"
    ELSE IF s.verdict \in {"none", "passed"} THEN "confidence_scoring"
    ELSE IF s.verdict = "conflict" \/ HighRisk(s) THEN "escalation_manager"
    ELSE IF RetrievalFoundNothing(s)
    THEN IF req.human THEN "escalation_manager" ELSE "no_answer"
    ELSE IF CanRepair(s, t) THEN "reflection" ELSE "escalation_manager"

\* Mutant: the question asking for a person is forgotten.
MutIgnoresHuman(s) ==
    IF \/ Stopped(s) \/ HighRisk(s) \/ s.verdict = "conflict" \/ s.split
       \/ s.confident # "above"
    THEN "escalation_manager" ELSE "output_guardrail"

\* Mutant: a confident High-risk answer is released.
MutIgnoresHighRisk(s) ==
    IF \/ Stopped(s) \/ s.verdict = "conflict" \/ s.split
       \/ req.human \/ s.confident # "above"
    THEN "escalation_manager" ELSE "output_guardrail"

AfterConfidence(s) ==
    IF \/ Stopped(s) \/ HighRisk(s) \/ s.verdict = "conflict" \/ s.split
       \/ req.human \/ s.confident # "above"
    THEN "escalation_manager" ELSE "output_guardrail"

\* Before a reviewer has decided anything (ReviewQueue has the resumed runs).
AfterOutputGuardrail(s) ==
    IF s.outcome = "escalated" THEN "escalation_manager" ELSE "END"

-----------------------------------------------------------------------------
(* The nodes. *)

InputGuardrail ==
    /\ Runs("input_guardrail", {st, [st EXCEPT !.outcome = "refused"]})
    /\ node' = AfterGuardrail(st')

\* No tokens on a first turn or a question that reads as standalone.
QueryRewrite ==
    /\ Runs("query_rewrite", {st, Spend(st, 6)})
    /\ node' = "intent_classification"

IntentClassification ==
    /\ Runs("intent_classification",
            {[Spend(st, 5) EXCEPT !.intent = i] : i \in Intents}
              \cup {[Spend(st, 5) EXCEPT !.outcome = "refused"]})
    /\ node' = AfterIntent(st')

\* Only a vendor or a department is looked up, and only in a granted table.
EntityResolution ==
    /\ Runs("entity_resolution",
            {st} \cup (IF req.tables
                       THEN {[st EXCEPT !.outcome = "clarification_required"]}
                       ELSE {}))
    /\ node' = AfterEntityResolution(st')

\* Mutant: the widened deadline is counted from the old one, not the start.
MutWider(deadline, candidate) == deadline + candidate

Wider(deadline, candidate) == IF candidate > deadline THEN candidate ELSE deadline

\* The fused level; High widens the deadline before the panel runs.
RiskAssessment ==
    /\ Runs("risk_assessment",
            {[Spend(st, 7) EXCEPT !.risk = "Low"],
             [Spend(st, 7) EXCEPT !.risk = "High",
                                  !.deadline = Wider(@, HighRiskDeadline)]})
    /\ node' = AfterRisk(st')

PathDeadline(path) ==
    IF path = "hybrid" THEN HybridDeadline
    ELSE IF path = "high_risk_panel" THEN HighRiskDeadline ELSE StandardDeadline

\* <<proposed path, tokens>>: a reflection's plan is reused, a single reachable
\* path or a vetted query needs no model, and otherwise the model may say
\* anything (its failure proposes the default, which it may also say).
Proposals(s) ==
    LET reachable == ReachablePaths(s.intent, HighRisk(s), req.tables, req.docs)
    IN  IF s.replan /\ s.plan # "none" THEN {<<s.plan, 0>>}
        ELSE IF Cardinality(reachable) = 1 THEN {<<RuleFor(s.intent).default, 0>>}
        ELSE {<<p, 8>> : p \in EvidencePaths}
              \cup (IF "nl2sql" \in reachable /\ RuleFor(s.intent).evidence = "records"
                    THEN {<<"nl2sql", 0>>} ELSE {})

Refuse(s, proposal) ==
    [Spend(s, proposal[2]) EXCEPT !.plan = proposal[1], !.routed = NoAccess,
                                  !.missing = NoAccess, !.replan = FALSE]

\* The decided path widens the deadline, and only then is the clock compared.
Settle(s, proposal, decision, t) ==
    LET wider  == Wider(s.deadline, PathDeadline(decision.path))
        budget == DegradeForBudget(decision.path, s.intent, wider - t < HybridMin)
    IN  Degrade([Spend(s, proposal[2]) EXCEPT
                    !.plan = budget.path, !.routed = budget.path, !.replan = FALSE,
                    !.deadline = wider],
                decision.partial \/ budget.partial)

Planned(s, t) ==
    {LET decision == ResolvePath(s.intent, HighRisk(s), p[1], req.tables, req.docs)
     IN  IF decision.path = NoAccess THEN Refuse(s, p) ELSE Settle(s, p, decision, t)
       : p \in Proposals(s)}

Planner ==
    /\ Runs("planner", UNION {Planned(st, t) : t \in DuringNode})
    /\ node' = AfterPlanner(st')

\* Mutant: the search sets the degraded flag instead of keeping it.
MutGathered(s) ==
    {[s EXCEPT !.clauses = c, !.path = CurrentRoute(s),
               !.degraded = Remaining(s, t) < RerankMin] :
        c \in {"none", "unmatched", "matched"}, t \in DuringNode}

\* The search; without a second left the reranker is skipped, and that degrades.
Gathered(s) ==
    {Degrade([s EXCEPT !.clauses = c, !.path = CurrentRoute(s)],
             Remaining(s, t) < RerankMin) :
        c \in {"none", "unmatched", "matched"}, t \in DuringNode}

\* On the rag route the answer is written here, unless nothing matched or the
\* writer finds nothing in the extracts; a user who asked for a person always
\* gets a draft for that person to review.
WrittenFromClauses(s) ==
    IF CurrentRoute(s) # "rag" THEN {[s EXCEPT !.draft = FALSE]}
    ELSE IF s.clauses # "matched" /\ ~req.human
    THEN {[s EXCEPT !.draft = FALSE, !.missing = "no_match"]}
    ELSE {[Spend(s, 30) EXCEPT !.draft = TRUE]}
          \cup (IF req.human THEN {}
                ELSE {[Spend(s, 30) EXCEPT !.draft = FALSE, !.missing = "not_in_extracts"]})

RagPath ==
    /\ Runs(RagStage, UNION {WrittenFromClauses(g) : g \in Gathered(st)})
    /\ node' = AfterRagPath(st')

\* The records query answers with rows or with nothing; it never raises.
QueryRows == IF req.tables THEN BOOLEAN ELSE {FALSE}

RecordsForPanel(s) ==
    {[Spend(s, 6) EXCEPT !.path = "high_risk_panel", !.rows = r] : r \in QueryRows}

\* A repaired hybrid answer keeps its rows and is written again over them.
ReconciledWithPolicy(s) ==
    LET keepRows == s.strategy = "hybrid_redraft" /\ s.reflections > 0 /\ s.rows
        found == IF keepRows THEN {TRUE} ELSE QueryRows
        Answer(r) ==
            IF ~r /\ s.clauses # "matched" /\ ~req.human
            THEN [Spend(s, 6) EXCEPT !.path = "hybrid", !.rows = FALSE,
                                     !.missing = "no_evidence"]
            ELSE [Spend(s, 40) EXCEPT !.path = "hybrid", !.rows = r, !.draft = TRUE]
    IN  {Answer(r) : r \in found}

\* Without evidence the reply says so; a narration that fails is replaced by a
\* plain reading of the rows, degraded.
RecordsAnswer(s) ==
    LET keepRows == s.strategy = "sql_renarrate" /\ s.reflections > 0 /\ s.rows
        found == IF keepRows THEN {TRUE} ELSE QueryRows
    IN  {Degrade([Spend(s, 15) EXCEPT !.path = "nl2sql", !.rows = TRUE, !.draft = TRUE],
                 fallback) :
            fallback \in IF TRUE \in found THEN BOOLEAN ELSE {}}
        \cup (IF FALSE \in found
              THEN {[Spend(s, 9) EXCEPT !.path = "nl2sql", !.draft = TRUE,
                                        !.missing = "no_records"]}
              ELSE {})

SqlPath ==
    /\ Runs(SqlStage, IF CurrentRoute(st) = "high_risk_panel" THEN RecordsForPanel(st)
                      ELSE IF CurrentRoute(st) = "hybrid" THEN ReconciledWithPolicy(st)
                      ELSE RecordsAnswer(st))
    /\ node' = AfterSqlPath(st')

\* One repair pass inside the panel when its consensus is unresolved.
MultiAgentPanel ==
    /\ Runs(PanelStage,
            {[Spend(st, 70) EXCEPT !.path = "high_risk_panel", !.draft = TRUE,
                                   !.split = FALSE]}
              \cup {[Spend(st, 95) EXCEPT !.path = "high_risk_panel", !.draft = TRUE,
                                          !.split = unresolved] : unresolved \in BOOLEAN})
    /\ node' = AfterPanel(st')

\* <<verdict, tokens>>.  The model is skipped without a draft and when a
\* deterministic check already failed it.  A missing draft alone is a coverage
\* gap, which does not block.  On an answer from rows only the model's conflict
\* verdicts are dropped, and on its rewrite all of them are only advisory.
Judgements(s) ==
    LET recordsOnly == s.rows /\ s.clauses = "none"
        clash(tokens) == IF s.clauses # "none" THEN {<<"conflict", tokens>>} ELSE {}
    IN  IF ~s.draft THEN {<<"passed", 0>>} \cup clash(0)
        ELSE {<<"passed", 25>>, <<"failed", 0>>} \cup clash(0)
              \cup (IF recordsOnly THEN {} ELSE {<<"conflict", 25>>})
              \cup (IF recordsOnly /\ s.reflections > 0 THEN {} ELSE {<<"failed", 25>>})

ComplianceValidation ==
    /\ Runs(Validation, {[Spend(st, j[2]) EXCEPT !.verdict = j[1]] : j \in Judgements(st)})
    /\ node' = AfterValidation(st', now')

\* Mutant: a hybrid repair keeps the clauses as well as the rows.
MutRepaired(s, strategy) ==
    [s EXCEPT !.strategy = strategy, !.replan = TRUE, !.reflections = @ + 1,
              !.draft = FALSE, !.verdict = "none",
              !.clauses = IF strategy \in {"sql_renarrate", "hybrid_redraft"}
                          THEN @ ELSE "none",
              !.rows = IF strategy \in {"sql_renarrate", "hybrid_redraft"} THEN @ ELSE FALSE]

\* The evidence a repair throws away, by strategy.
Repaired(s, strategy) ==
    [s EXCEPT !.strategy = strategy, !.replan = TRUE, !.reflections = @ + 1,
              !.draft = FALSE, !.verdict = "none",
              !.clauses = IF strategy = "sql_renarrate" THEN @ ELSE "none",
              !.rows = IF strategy \in {"sql_renarrate", "hybrid_redraft"} THEN @ ELSE FALSE]

\* A rag, records or hybrid answer is repaired without a model; anything else
\* is planned again by one, which may find it unrepairable or not answer.
Reflected(s) ==
    IF CurrentPath(s) = "rag" THEN {Repaired(s, "rag_widen_and_fix")}
    ELSE IF CurrentPath(s) = "nl2sql" /\ s.rows THEN {Repaired(s, "sql_renarrate")}
    ELSE IF CurrentPath(s) = "hybrid" /\ s.rows THEN {Repaired(s, "hybrid_redraft")}
    ELSE {[Spend(s, 9) EXCEPT !.reason = TRUE, !.reflections = @ + 1]}
           \cup {[Repaired(Spend(s, 9), "llm_replan") EXCEPT !.plan = p] :
                    p \in EvidencePaths}

Reflection ==
    /\ Runs("reflection", Reflected(st))
    /\ node' = "planner"

ConfidenceScoring ==
    /\ Runs("confidence_scoring",
            {[st EXCEPT !.confident = c] : c \in {"below", "above"}})
    /\ node' = AfterConfidence(st')

NoAnswer ==
    /\ Runs("no_answer",
            {[st EXCEPT !.draft = TRUE, !.confident = "below", !.unknown = TRUE,
                        !.missing = IF @ = "none" THEN "no_match" ELSE @]})
    /\ node' = "output_guardrail"

\* Nothing to release, or a citation or PII rule the answer breaks, escalates.
OutputGuardrail ==
    /\ Runs("output_guardrail",
            {[st EXCEPT !.outcome = "escalated", !.reason = TRUE]}
              \cup (IF st.draft
                    THEN {[st EXCEPT !.outcome = "answered", !.reason = FALSE]}
                    ELSE {}))
    /\ node' = AfterOutputGuardrail(st')

\* The queue and the e-mail are in ReviewQueue; the graph is interrupted here.
EscalationManager ==
    /\ Runs("escalation_manager", {[st EXCEPT !.outcome = "escalated", !.reason = TRUE]})
    /\ node' = "END"

SafeRefusal ==
    /\ Runs("safe_refusal", {[st EXCEPT !.outcome = "refused"]})
    /\ node' = "END"

Clarification ==
    /\ Runs("clarification", {[st EXCEPT !.outcome = "clarification_required"]})
    /\ node' = "END"

\* A model, database or index call nothing catches: graph.invoke raises and
\* /ask answers 500.  The nodes that guard every call are not listed.
MayRaise ==
    {"query_rewrite", "intent_classification", "entity_resolution",
     "risk_assessment", RagStage, PanelStage}
      \cup (IF CurrentRoute(st) = "hybrid" THEN {SqlStage} ELSE {})

Raise ==
    /\ node \in MayRaise
    /\ Allowed(node, st, now)
    /\ node' = "RAISED"
    /\ now' \in now..MaxElapsed
    /\ steps' = steps + 1
    /\ UNCHANGED <<req, st>>

Next ==
    \/ InputGuardrail \/ QueryRewrite \/ IntentClassification
    \/ EntityResolution \/ RiskAssessment \/ Planner
    \/ RagPath \/ SqlPath \/ MultiAgentPanel \/ ComplianceValidation
    \/ Reflection \/ ConfidenceScoring \/ NoAnswer \/ OutputGuardrail
    \/ EscalationManager \/ SafeRefusal \/ Clarification \/ Raise

Spec == Init /\ [][Next]_vars

\* The request's own thread runs the graph: nothing but the process dying keeps
\* a node that can run from running, and every model call has a timeout.
FairSpec == Spec /\ WF_vars(Next)
-----------------------------------------------------------------------------
(* What the run must keep. *)

\* Every variable stays in its domain; a deadline is only ever one of the
\* three configured ones, counted from the start of the request.
TypeOK ==
    /\ node \in Nodes \cup Final
    /\ now \in 0..MaxElapsed
    /\ req \in Requests
    /\ st \in States
    /\ steps \in Nat

\* A released answer is either the honest "I don't know" or a validated draft
\* scored above the threshold; in neither case was the risk High, the panel
\* split, a person asked for, a step refused by the budget, or a reason to
\* escalate left standing (after_confidence, after_validation, no_answer).
ReleasedOnlyWhenCleared ==
    st.outcome = "answered" =>
        /\ st.draft /\ ~st.reason /\ ~st.stopped /\ ~st.split
        /\ ~HighRisk(st) /\ ~req.human
        /\ st.unknown \/ (st.verdict = "passed" /\ st.confident = "above")

\* "High-risk questions never reach this node ... and neither does a user who
\* asked for a human reviewer" (nodes/no_answer.py): four different edges lead
\* there, each with its own test.
HonestReplyIsForNoReviewer ==
    node = "no_answer" => ~HighRisk(st) /\ ~req.human

\* The validator always has a draft to judge, and one that no stage has already
\* marked as "nothing found": without a draft its only defect is a coverage
\* gap, which passes, so a missing draft would be scored (validation.py).
ValidatorHasADraft ==
    node = Validation => st.draft /\ st.missing = "none"

\* A stage that reads a source runs only for a role granted that source, on the
\* first plan and on every plan a reflection hands back (path_policy.py).
StagesWithinGrant ==
    /\ node = SqlStage => req.tables
    /\ node = RagStage => req.docs

\* Of what earlier passes, repairs and degrades left in the state, an answer is judged
\* with no clause on the records route, where none is looked for (record_only in
\* validation.py and terminal.py); and with rows on the policy route only as a degraded
\* repair, since they switch off the check that every sentence is cited
\* (_rag_policy_answer).
EvidenceFitsTheRoute ==
    node = Validation =>
        /\ CurrentRoute(st) = "nl2sql" => st.clauses = "none"
        /\ CurrentRoute(st) = "rag" /\ st.rows => st.degraded /\ st.reflections > 0

\* At the configured budget the token estimates never stop a step: every
\* refusal is the clock's (settings.py, MINIMUM_TOKEN_BUDGET; the costs are not
\* the estimates, see TokenEstimate and the nodes).
NeverShortOfTokens ==
    node \in Nodes \ ReleaseTier => TokensLeft(st) >= TokenEstimate(node)

\* ... and the second repair a hybrid answer may take never fits in it.
OneRepairFits == st.reflections <= 1

\* Supersteps on the longest way to a node, repairs aside.
NodeSteps ==
    [input_guardrail |-> 0, query_rewrite |-> 1, intent_classification |-> 2,
     entity_resolution |-> 3, risk_assessment |-> 4, planner |-> 5, rag_path |-> 6,
     nl2sql_path |-> 7, multi_agent_panel |-> 8, compliance_validation |-> 9,
     reflection |-> 10, confidence_scoring |-> 10, no_answer |-> 10,
     output_guardrail |-> 11, escalation_manager |-> 12, safe_refusal |-> 3,
     clarification |-> 4]
StepsBefore(n) == IF n \in DOMAIN NodeSteps THEN NodeSteps[n] ELSE 13

\* The repair loop is the only cycle of the graph and is entered a bounded number
\* of times, so the graph never exceeds LangGraph's recursion limit.
Bounded ==
    /\ st.reflections <= MaxReflections
    /\ steps <= StepsBefore(node) + 6 * st.reflections
WithinRecursionLimit == Bounded /\ steps <= RecursionLimit

\* No step gives time or tokens back, or forgets that the answer is degraded,
\* that a step was refused, or that the risk is High: a node that rebuilds the
\* flag instead of keeping it would (degraded: x or state["degraded"]).
NeverForgets ==
    /\ st'.tokens >= st.tokens /\ st'.deadline >= st.deadline
    /\ st.degraded => st'.degraded
    /\ st.stopped => st'.stopped
    /\ HighRisk(st) => HighRisk(st')
    /\ st'.reflections \in {st.reflections, st.reflections + 1}
MetersOnlyGrow == [][NeverForgets]_vars

\* Reasons to hand the request to a person; the contract is that none is undone.
NeedsPerson ==
    HighRisk(st) \/ req.human \/ st.stopped \/ st.reason \/ st.split
        \/ st.verdict = "conflict"
Contract == INSTANCE ReleaseContract
    WITH needsPerson <- NeedsPerson, outcome <- st.outcome, open <- node \notin Final
KeepsReleaseContract == Contract!Spec

\* Every run ends, repairs and all, and unless it raises it ends with an outcome:
\* the caller never finds a state it can only guess at (routes.py, _ask).
EventuallyEnds == <>(node = "RAISED" \/ (node = "END" /\ st.outcome # "none"))

\* A High-risk request is escalated unless the run raises, and so is one whose
\* user asked for a person unless it is refused or needs a clarification.
HighRiskReachesAReviewer ==
    HighRisk(st) ~> (st.outcome = "escalated" \/ node = "RAISED")
HumanRequestReachesAReviewer ==
    req.human ~> (node = "END" /\ st.outcome # "answered") \/ node = "RAISED"
=============================================================================
