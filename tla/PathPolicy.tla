----------------------------- MODULE PathPolicy -----------------------------
(***************************************************************************)
(* The deterministic route policy of backend/src/graph/path_policy.py and  *)
(* the stages a route runs (backend/src/graph/routing.py).  The planner's  *)
(* model only proposes a path; what is here decides it.                    *)
(***************************************************************************)
EXTENDS Integers, Sequences, FiniteSets

Intents == {"policy_lookup", "record_lookup", "vendor_status",
            "retention_query", "compliance_check", "incident_guidance"}

\* EvidencePath: everything a plan's path can be, the retired agentic one too.
EvidencePaths == {"rag", "nl2sql", "hybrid", "agentic", "high_risk_panel"}

NoAccess == "no_access"

\* The routes the policy can settle on.
Routes == {"rag", "nl2sql", "hybrid", "high_risk_panel"}

Rule(default, allowed, fallback, evidence) ==
    [default |-> default, allowed |-> allowed, fallback |-> fallback,
     evidence |-> evidence]

Rules ==
    [policy_lookup     |-> Rule("rag", {"rag"}, "rag", "policy"),
     record_lookup     |-> Rule("nl2sql", {"nl2sql"}, "nl2sql", "records"),
     vendor_status     |-> Rule("nl2sql", {"nl2sql", "hybrid"}, "nl2sql", "records"),
     retention_query   |-> Rule("hybrid", {"rag", "nl2sql", "hybrid"}, "nl2sql", "both"),
     compliance_check  |-> Rule("hybrid", {"hybrid"}, "hybrid", "both"),
     incident_guidance |-> Rule("hybrid", {"rag", "hybrid"}, "rag", "both")]

RuleFor(intent) ==
    IF intent \in Intents THEN Rules[intent] ELSE Rules["policy_lookup"]

NeedsRecords == {"nl2sql", "hybrid", "agentic"}
NeedsDocuments == {"rag", "hybrid", "agentic"}

Decision(path, partial) == [path |-> path, partial |-> partial]

\* Mutant: the table grant is only asked for the records route.
MutCapabilityGates(rule, path, tables, docs) ==
    IF path = "nl2sql" /\ ~tables
    THEN IF rule.evidence = "records" THEN Decision(NoAccess, FALSE)
                                      ELSE Decision("rag", TRUE)
    ELSE Decision(path, FALSE)

\* A path whose source the role is not granted is answered from the other one,
\* as partial evidence, or not at all when the missing source is the only one.
CapabilityGates(rule, path, tables, docs) ==
    IF path \in NeedsRecords /\ ~tables
    THEN IF rule.evidence = "records" THEN Decision(NoAccess, FALSE)
                                      ELSE Decision("rag", TRUE)
    ELSE IF path \in NeedsDocuments /\ ~docs
    THEN IF rule.evidence = "policy" THEN Decision(NoAccess, FALSE)
                                     ELSE Decision("nl2sql", TRUE)
    ELSE Decision(path, FALSE)

\* No rule admits "agentic", so the switch that turns that path off is never
\* read with it; a proposal outside the rule is clamped to the default.
ResolvePath(intent, high, proposed, tables, docs) ==
    LET rule == RuleFor(intent)
        path == IF proposed \in rule.allowed THEN proposed ELSE rule.default
    IN  IF high THEN Decision("high_risk_panel", FALSE)
        ELSE CapabilityGates(rule, path, tables, docs)

\* Every path the router could end on: one path makes the planner's call moot.
ReachablePaths(intent, high, tables, docs) ==
    {ResolvePath(intent, high, p, tables, docs).path : p \in RuleFor(intent).allowed}

\* The path once the clock has been read.  "tight" is seconds_remaining <
\* HYBRID_MIN_SECONDS; the agentic rung of the ladder is never reached.
DegradeForBudget(path, intent, tight) ==
    IF path = "hybrid" /\ tight
    THEN Decision(IF RuleFor(intent).fallback = "hybrid"
                  THEN "rag" ELSE RuleFor(intent).fallback, TRUE)
    ELSE Decision(path, FALSE)

RagStage == "rag_path"
SqlStage == "nl2sql_path"
PanelStage == "multi_agent_panel"
Validation == "compliance_validation"

\* The stages a route needs, in the order they run.  The panel reviews only the
\* sources the role may read.
EvidenceStages(route, tables, docs) ==
    IF route = "rag" THEN <<RagStage>>
    ELSE IF route = "nl2sql" THEN <<SqlStage>>
    ELSE IF route = "hybrid" THEN <<RagStage, SqlStage>>
    ELSE IF route = "high_risk_panel"
    THEN (IF docs THEN <<RagStage>> ELSE <<>>)
             \o (IF tables THEN <<SqlStage>> ELSE <<>>) \o <<PanelStage>>
    ELSE <<>>

FirstStage(route, tables, docs) == EvidenceStages(route, tables, docs)[1]

NextStage(after, route, tables, docs) ==
    LET stages == EvidenceStages(route, tables, docs)
        later == {i \in 2..Len(stages) : stages[i - 1] = after}
    IN  IF later = {} THEN Validation ELSE stages[CHOOSE i \in later : TRUE]
=============================================================================
