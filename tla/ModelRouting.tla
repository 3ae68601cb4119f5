---------------------------- MODULE ModelRouting ----------------------------
(***************************************************************************)
(* Which model tier answers a node's call: route_tier                      *)
(* (backend/src/llm_routing/router.py) over the verdict of                 *)
(* assess_complexity (complexity.py), the fixed table behind model_for and *)
(* which calls may use the completion cache (backend/configs/llms.py).     *)
(***************************************************************************)
CONSTANT Strategy       \* model_routing_strategy

ASSUME StrategyAssumption ==
    Strategy \in {"static", "heuristic", "cost_saver", "quality_first"}

FIXED_SMALL ==
    {"query_rewrite", "thread_summary", "intent_classification", "entity_resolution",
     "risk_l2_classifier", "planner", "sql_template_selector", "nl2sql_intent",
     "sql_narration", "reflection", "sql_intent_guard", "nl2sql_generate",
     "table_summary", "metadata_extraction"}
FIXED_STRONG ==
    {"panel_policy_interpreter", "panel_data_verifier", "panel_challenger",
     "panel_consensus", "panel_repair"}
ROUTABLE == {"rag_generate", "hybrid_generate", "compliance_validation", "agentic_rag"}

Nodes == FIXED_SMALL \cup FIXED_STRONG \cup ROUTABLE
Tiers == {"small", "strong"}
Levels == {"High", "Medium", "Low"}

\* The nodes that write or judge the answer.
Answering == FIXED_STRONG \cup ROUTABLE

\* triggers: the question's words, length, parts, intent or path make it complex.
Complex(level, triggers) == level = "High" \/ triggers

\* The tier before the budget is looked at.
Assessed(level, triggers) ==
    CASE Strategy = "quality_first" -> "strong"
      [] Strategy = "cost_saver" -> IF level = "High" THEN "strong" ELSE "small"
      [] Strategy = "static" -> "strong"
      [] OTHER -> IF Complex(level, triggers) THEN "strong" ELSE "small"

\* Mutant of Downgraded: the budget rule does not look at the risk.
MutDowngraded(level, pressure) == pressure /\ Strategy # "quality_first"

\* pressure: too few seconds or tokens are left.  A High-risk request is exempt.
Downgraded(level, pressure) ==
    pressure /\ Strategy # "quality_first" /\ level # "High"

RouteTier(node, level, triggers, pressure) ==
    IF node \in FIXED_STRONG THEN "strong"
    ELSE IF node \notin ROUTABLE THEN "small"
    ELSE IF Downgraded(level, pressure) THEN "small"
    ELSE Assessed(level, triggers)

\* Deployments are built with cache=False when their temperature is above 0.
Sampled == {"panel_challenger", "rag_generate", "hybrid_generate"}
Cacheable(node) == node \notin Sampled
=============================================================================
