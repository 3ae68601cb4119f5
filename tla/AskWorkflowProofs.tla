------------------------- MODULE AskWorkflowProofs --------------------------
(***************************************************************************)
(* Facts about the route policy and the stages of a route, for every       *)
(* intent, proposal and grant; what every run of the graph keeps, for      *)
(* every setting and every role; which evidence an earlier pass leaves to  *)
(* the next one, and how many tokens it has spent.                         *)
(***************************************************************************)
EXTENDS AskWorkflow, TLAPS, SequenceTheorems

-----------------------------------------------------------------------------
(* The route policy. *)

\* Joining two stages, and a third, as EvidenceStages does for the panel.
LEMMA JoinTwo ==
    ASSUME NEW S, NEW a \in S, NEW b \in S
    PROVE  <<a>> \o <<b>> = <<a, b>>
<1> DEFINE s == <<a>> \o <<b>>
           t == <<a, b>>
<1>1. s \in Seq(S) /\ Len(s) = 2 /\ s[1] = a /\ s[2] = b
  OBVIOUS
<1>2. t \in Seq(S) /\ Len(t) = 2 /\ t[1] = a /\ t[2] = b
  OBVIOUS
<1> HIDE DEF s, t
<1>3. s = t
  BY <1>1, <1>2, SeqEqual
<1>4. QED
  BY <1>3 DEF s, t

LEMMA JoinThree ==
    ASSUME NEW S, NEW a \in S, NEW b \in S, NEW c \in S
    PROVE  <<a, b>> \o <<c>> = <<a, b, c>>
<1> DEFINE s == <<a, b>> \o <<c>>
           t == <<a, b, c>>
<1>1. s \in Seq(S) /\ Len(s) = 3 /\ s[1] = a /\ s[2] = b /\ s[3] = c
  OBVIOUS
<1>2. t \in Seq(S) /\ Len(t) = 3 /\ t[1] = a /\ t[2] = b /\ t[3] = c
  OBVIOUS
<1> HIDE DEF s, t
<1>3. s = t
  BY <1>1, <1>2, SeqEqual
<1>4. QED
  BY <1>3 DEF s, t

\* The stages of the routes whose stages no grant changes.
LEMMA StagesOfRoute ==
    ASSUME NEW tables, NEW docs
    PROVE  /\ EvidenceStages("rag", tables, docs) = <<RagStage>>
           /\ EvidenceStages("nl2sql", tables, docs) = <<SqlStage>>
           /\ EvidenceStages("hybrid", tables, docs) = <<RagStage, SqlStage>>
           /\ EvidenceStages(NoAccess, tables, docs) = <<>>
           /\ EvidenceStages("none", tables, docs) = <<>>
BY DEF EvidenceStages, NoAccess

\* The panel's stages leave out the sources that are not granted.
LEMMA StagesOfPanel ==
    ASSUME NEW tables \in BOOLEAN, NEW docs \in BOOLEAN
    PROVE  EvidenceStages("high_risk_panel", tables, docs) =
               IF docs
               THEN IF tables THEN <<RagStage, SqlStage, PanelStage>>
                              ELSE <<RagStage, PanelStage>>
               ELSE IF tables THEN <<SqlStage, PanelStage>> ELSE <<PanelStage>>
<1>1. \E S : RagStage \in S /\ SqlStage \in S /\ PanelStage \in S
  <2>1. WITNESS {RagStage, SqlStage, PanelStage}
  <2>2. QED
    OBVIOUS
<1>2. /\ <<RagStage>> \o <<SqlStage>> = <<RagStage, SqlStage>>
      /\ <<RagStage>> \o <<PanelStage>> = <<RagStage, PanelStage>>
      /\ <<SqlStage>> \o <<PanelStage>> = <<SqlStage, PanelStage>>
      /\ <<RagStage, SqlStage>> \o <<PanelStage>> = <<RagStage, SqlStage, PanelStage>>
  BY <1>1, JoinTwo, JoinThree
<1>3. <<>> \o <<SqlStage>> = <<SqlStage>> /\ <<>> \o <<PanelStage>> = <<PanelStage>>
  OBVIOUS
<1>4. <<RagStage>> \o <<>> = <<RagStage>> /\ <<>> \o <<>> = <<>>
  OBVIOUS
<1>5. QED
  BY <1>2, <1>3, <1>4 DEF EvidenceStages

\* A route starts with a stage whose source is granted, and with the panel only
\* when the route is the panel's.
LEMMA FirstStageGranted ==
    ASSUME NEW route \in Routes, NEW tables \in BOOLEAN, NEW docs \in BOOLEAN,
           route \in {"nl2sql", "hybrid"} => tables
    PROVE  /\ FirstStage(route, tables, docs) \in {RagStage, SqlStage, PanelStage}
           /\ FirstStage(route, tables, docs) = SqlStage => tables
           /\ FirstStage(route, tables, docs) = PanelStage => route = "high_risk_panel"
BY StagesOfRoute, StagesOfPanel DEF FirstStage, Routes, RagStage, SqlStage, PanelStage

\* The stage after one of a list of at most three different stages.
LEMMA NextOfOne ==
    ASSUME NEW after, NEW route, NEW tables, NEW docs, NEW a,
           EvidenceStages(route, tables, docs) = <<a>>
    PROVE  NextStage(after, route, tables, docs) = Validation
<1>1. {i \in 2..Len(<<a>>) : <<a>>[i - 1] = after} = {}
  OBVIOUS
<1>2. QED
  BY <1>1 DEF NextStage

LEMMA NextOfTwo ==
    ASSUME NEW after, NEW route, NEW tables, NEW docs, NEW a, NEW b,
           EvidenceStages(route, tables, docs) = <<a, b>>
    PROVE  NextStage(after, route, tables, docs) = IF after = a THEN b ELSE Validation
<1>1. CASE after = a
  <2>1. {i \in 2..Len(<<a, b>>) : <<a, b>>[i - 1] = after} = {2}
    BY <1>1
  <2>2. QED
    BY <1>1, <2>1 DEF NextStage
<1>2. CASE after # a
  <2>1. {i \in 2..Len(<<a, b>>) : <<a, b>>[i - 1] = after} = {}
    BY <1>2
  <2>2. QED
    BY <1>2, <2>1 DEF NextStage
<1>3. QED
  BY <1>1, <1>2

LEMMA NextOfThree ==
    ASSUME NEW after, NEW route, NEW tables, NEW docs, NEW a, NEW b, NEW c, a # b,
           EvidenceStages(route, tables, docs) = <<a, b, c>>
    PROVE  NextStage(after, route, tables, docs) =
               IF after = a THEN b ELSE IF after = b THEN c ELSE Validation
<1> DEFINE later == {i \in 2..Len(<<a, b, c>>) : <<a, b, c>>[i - 1] = after}
<1>1. CASE after = a
  <2>1. later = {2}
    BY <1>1
  <2>2. QED
    BY <1>1, <2>1 DEF NextStage
<1>2. CASE after = b
  <2>1. later = {3}
    BY <1>2
  <2>2. QED
    BY <1>2, <2>1 DEF NextStage
<1>3. CASE after # a /\ after # b
  <2>1. later = {}
    BY <1>3
  <2>2. QED
    BY <1>3, <2>1 DEF NextStage
<1>4. QED
  BY <1>1, <1>2, <1>3

\* After the policy stage come the records, then the panel, then the validator;
\* no stage comes twice, and no stage of a source that is not granted comes.
LEMMA NextStageGranted ==
    ASSUME NEW route \in Routes, NEW tables \in BOOLEAN, NEW docs \in BOOLEAN,
           route \in {"nl2sql", "hybrid"} => tables
    PROVE  /\ NextStage(RagStage, route, tables, docs) \in {SqlStage, PanelStage, Validation}
           /\ NextStage(SqlStage, route, tables, docs) \in {PanelStage, Validation}
           /\ NextStage(RagStage, route, tables, docs) = SqlStage => tables
           /\ NextStage(RagStage, route, tables, docs) = PanelStage => route = "high_risk_panel"
           /\ NextStage(SqlStage, route, tables, docs) = PanelStage => route = "high_risk_panel"
<1> DEFINE next(after) == NextStage(after, route, tables, docs)
<1>1. ASSUME NEW a, EvidenceStages(route, tables, docs) = <<a>>
      PROVE  next(RagStage) = Validation /\ next(SqlStage) = Validation
  BY <1>1, NextOfOne
<1>2. ASSUME NEW a, NEW b, EvidenceStages(route, tables, docs) = <<a, b>>
      PROVE  /\ next(RagStage) = IF RagStage = a THEN b ELSE Validation
             /\ next(SqlStage) = IF SqlStage = a THEN b ELSE Validation
  BY <1>2, NextOfTwo
<1>3. RagStage # SqlStage /\ RagStage # PanelStage /\ SqlStage # PanelStage
  BY DEF RagStage, SqlStage, PanelStage
<1>4. Validation # SqlStage /\ Validation # PanelStage
  BY DEF Validation, SqlStage, PanelStage
<1>5. CASE route \in {"rag", "nl2sql"}
  <2>1. next(RagStage) = Validation /\ next(SqlStage) = Validation
    BY <1>1, <1>5, StagesOfRoute
  <2>2. QED
    BY <1>4, <1>5, <2>1
<1>6. CASE route = "hybrid"
  <2>1. EvidenceStages(route, tables, docs) = <<RagStage, SqlStage>>
    BY <1>6, StagesOfRoute
  <2>2. next(RagStage) = SqlStage /\ next(SqlStage) = Validation
    BY <1>2, <1>3, <2>1
  <2>3. QED
    BY <1>3, <1>4, <1>6, <2>2
<1>7. CASE route = "high_risk_panel" /\ docs /\ tables
  <2>1. EvidenceStages(route, tables, docs) = <<RagStage, SqlStage, PanelStage>>
    BY <1>7, StagesOfPanel
  <2>2. next(RagStage) = SqlStage /\ next(SqlStage) = PanelStage
    BY <1>3, <2>1, NextOfThree
  <2>3. QED
    BY <1>3, <1>4, <1>7, <2>2
<1>8. CASE route = "high_risk_panel" /\ docs /\ ~tables
  <2>1. EvidenceStages(route, tables, docs) = <<RagStage, PanelStage>>
    BY <1>8, StagesOfPanel
  <2>2. next(RagStage) = PanelStage /\ next(SqlStage) = Validation
    BY <1>2, <1>3, <2>1
  <2>3. QED
    BY <1>3, <1>4, <1>8, <2>2
<1>9. CASE route = "high_risk_panel" /\ ~docs /\ tables
  <2>1. EvidenceStages(route, tables, docs) = <<SqlStage, PanelStage>>
    BY <1>9, StagesOfPanel
  <2>2. next(RagStage) = Validation /\ next(SqlStage) = PanelStage
    BY <1>2, <1>3, <2>1
  <2>3. QED
    BY <1>3, <1>4, <1>9, <2>2
<1>10. CASE route = "high_risk_panel" /\ ~docs /\ ~tables
  <2>1. EvidenceStages(route, tables, docs) = <<PanelStage>>
    BY <1>10, StagesOfPanel
  <2>2. next(RagStage) = Validation /\ next(SqlStage) = Validation
    BY <1>1, <2>1
  <2>3. QED
    BY <1>4, <1>10, <2>2
<1>11. QED
  BY <1>5, <1>6, <1>7, <1>8, <1>9, <1>10 DEF Routes

\* The paths a role may be sent on: the panel exactly for High risk, and
\* otherwise one all of whose sources are granted, or none at all.
GrantedPaths(high, tables, docs) ==
    IF high THEN {"high_risk_panel"}
    ELSE {path \in {"rag", "nl2sql", "hybrid", NoAccess} :
            /\ path \in NeedsRecords => tables
            /\ path \in NeedsDocuments => docs}

\* Whatever path is proposed, the retired one included, the decided one is
\* granted.  A role with neither source is sent to the other one of the two all
\* the same (_apply_capability_gates looks at one source only), so this takes a
\* role with at least one, as every role of auth/rbac.py has.
THEOREM DecisionIsGranted ==
    ASSUME NEW intent \in Intents \cup {"none"}, NEW high \in BOOLEAN,
           NEW proposed \in EvidencePaths, NEW tables \in BOOLEAN, NEW docs \in BOOLEAN,
           tables \/ docs
    PROVE  ResolvePath(intent, high, proposed, tables, docs).path
               \in GrantedPaths(high, tables, docs)
<1> DEFINE rule == RuleFor(intent)
           chosen == IF proposed \in rule.allowed THEN proposed ELSE rule.default
<1>1. /\ rule.default \in {"rag", "nl2sql", "hybrid"}
      /\ rule.allowed \subseteq {"rag", "nl2sql", "hybrid"}
  BY DEF RuleFor, Rules, Rule, Intents
<1>2. chosen \in {"rag", "nl2sql", "hybrid"}
  BY <1>1
<1>3. CASE high
  BY <1>3 DEF ResolvePath, Decision, GrantedPaths
<1>4. CASE ~high
  <2>1. ResolvePath(intent, high, proposed, tables, docs)
            = CapabilityGates(rule, chosen, tables, docs)
    BY <1>4 DEF ResolvePath
  <2> HIDE DEF chosen, rule
  <2> USE DEF CapabilityGates, Decision, NeedsRecords, NeedsDocuments, NoAccess, GrantedPaths
  <2>2. CASE chosen = "rag"
    BY <2>2, <2>1, <1>4
  <2>3. CASE chosen = "nl2sql"
    BY <2>3, <2>1, <1>4
  <2>4. CASE chosen = "hybrid"
    BY <2>4, <2>1, <1>4
  <2>5. QED
    BY <1>2, <2>2, <2>3, <2>4
<1>5. QED
  BY <1>3, <1>4

\* Every decision says whether its evidence is partial.
LEMMA DecisionIsMarked ==
    ASSUME NEW intent, NEW high, NEW proposed, NEW tables, NEW docs
    PROVE  ResolvePath(intent, high, proposed, tables, docs).partial \in BOOLEAN
<1>1. ASSUME NEW rule, NEW path
      PROVE  CapabilityGates(rule, path, tables, docs).partial \in BOOLEAN
  <2>1. \A p, q : q \in BOOLEAN => Decision(p, q).partial \in BOOLEAN
    BY DEF Decision
  <2>2. QED
    BY <2>1 DEF CapabilityGates
<1>2. Decision("high_risk_panel", FALSE).partial \in BOOLEAN
  BY DEF Decision
<1>3. QED
  BY <1>1, <1>2 DEF ResolvePath

\* A degrade for lack of time changes only a hybrid path, to a granted one.
LEMMA DegradeIsGranted ==
    ASSUME NEW intent \in Intents \cup {"none"}, NEW path \in Routes,
           NEW tight \in BOOLEAN
    PROVE  /\ DegradeForBudget(path, intent, tight).path \in Routes
           /\ DegradeForBudget(path, intent, tight).partial \in BOOLEAN
           /\ DegradeForBudget(path, intent, tight).path \in
                 IF path = "hybrid" THEN {"rag", "nl2sql", "hybrid"} ELSE {path}
<1>1. RuleFor(intent).fallback \in {"rag", "nl2sql", "hybrid"}
  BY DEF RuleFor, Rules, Rule, Intents
<1>2. QED
  BY <1>1 DEF DegradeForBudget, Decision, Routes

USE DeadlineAssumption, HeadroomAssumption, TokenAssumption, RepairAssumption

-----------------------------------------------------------------------------
(* Types. *)

Deadlines == {StandardDeadline, HybridDeadline, HighRiskDeadline}

\* The values the nodes write into the state.
LEMMA Values ==
    /\ {"none", "answered", "escalated", "refused", "clarification_required"} \subseteq Outcomes
    /\ {"none", "no_match", "not_in_extracts", "no_records", "no_evidence", NoAccess}
           \subseteq NotFoundReasons
    /\ {"rag_widen_and_fix", "hybrid_redraft", "sql_renarrate", "llm_replan"}
           \subseteq Strategies
    /\ Routes \subseteq EvidencePaths
    /\ {"rag", "nl2sql", "hybrid", "high_risk_panel"} \subseteq Routes
BY DEF Outcomes, NotFoundReasons, Strategies, Routes, EvidencePaths

\* The shapes of the updates the nodes make; each keeps the state's type.
LEMMA BeforePlanUpdates ==
    ASSUME NEW s \in States
    PROVE  /\ \A o \in Outcomes :
                 [s EXCEPT !.outcome = o] \in States
           /\ \A o \in Outcomes, b \in BOOLEAN :
                 [s EXCEPT !.outcome = o, !.reason = b] \in States
           /\ \A i \in Intents :
                 [s EXCEPT !.intent = i] \in States
           /\ [s EXCEPT !.risk = "Low"] \in States
           /\ \A d \in Deadlines :
                 [s EXCEPT !.risk = "High", !.deadline = d] \in States
<1>1. ASSUME NEW o \in Outcomes
      PROVE  [s EXCEPT !.outcome = o] \in States
  BY DEF States
<1>2. ASSUME NEW o \in Outcomes, NEW b \in BOOLEAN
      PROVE  [s EXCEPT !.outcome = o, !.reason = b] \in States
  BY DEF States
<1>3. ASSUME NEW i \in Intents
      PROVE  [s EXCEPT !.intent = i] \in States
  BY DEF States
<1>4. [s EXCEPT !.risk = "Low"] \in States
  BY DEF States
<1>5. ASSUME NEW d \in Deadlines
      PROVE  [s EXCEPT !.risk = "High", !.deadline = d] \in States
  BY DEF States, Deadlines
<1>6. QED
  BY <1>1, <1>2, <1>3, <1>4, <1>5

LEMMA PlanUpdates ==
    ASSUME NEW s \in States
    PROVE  /\ \A p \in EvidencePaths :
                 [s EXCEPT !.plan = p] \in States
           /\ \A p \in EvidencePaths :
                 [s EXCEPT !.plan = p, !.routed = NoAccess, !.missing = NoAccess,
                           !.replan = FALSE] \in States
           /\ \A p \in EvidencePaths, r \in Routes, d \in Deadlines :
                 [s EXCEPT !.plan = p, !.routed = r, !.replan = FALSE,
                           !.deadline = d] \in States
<1>1. ASSUME NEW p \in EvidencePaths
      PROVE  [s EXCEPT !.plan = p] \in States
  BY DEF States
<1>2. ASSUME NEW p \in EvidencePaths
      PROVE  [s EXCEPT !.plan = p, !.routed = NoAccess, !.missing = NoAccess,
                       !.replan = FALSE] \in States
  BY Values DEF States
<1>3. ASSUME NEW p \in EvidencePaths, NEW r \in Routes, NEW d \in Deadlines
      PROVE  [s EXCEPT !.plan = p, !.routed = r, !.replan = FALSE,
                       !.deadline = d] \in States
  BY DEF States, Deadlines
<1>4. QED
  BY <1>1, <1>2, <1>3

LEMMA EvidenceUpdates ==
    ASSUME NEW s \in States
    PROVE  /\ \A c \in {"none", "unmatched", "matched"}, p \in Routes :
                 [s EXCEPT !.clauses = c, !.path = p] \in States
           /\ \A b \in BOOLEAN :
                 [s EXCEPT !.draft = b] \in States
           /\ \A m \in NotFoundReasons :
                 [s EXCEPT !.draft = FALSE, !.missing = m] \in States
           /\ \A p \in Routes, b \in BOOLEAN :
                 [s EXCEPT !.path = p, !.rows = b] \in States
           /\ \A p \in Routes, b \in BOOLEAN :
                 [s EXCEPT !.path = p, !.rows = b, !.draft = TRUE] \in States
           /\ \A p \in Routes, m \in NotFoundReasons :
                 [s EXCEPT !.path = p, !.rows = FALSE, !.missing = m] \in States
           /\ \A p \in Routes, m \in NotFoundReasons :
                 [s EXCEPT !.path = p, !.draft = TRUE, !.missing = m] \in States
           /\ \A p \in Routes, b \in BOOLEAN :
                 [s EXCEPT !.path = p, !.draft = TRUE, !.split = b] \in States
<1>1. ASSUME NEW c \in {"none", "unmatched", "matched"}, NEW p \in Routes
      PROVE  [s EXCEPT !.clauses = c, !.path = p] \in States
  BY DEF States
<1>2. ASSUME NEW b \in BOOLEAN
      PROVE  [s EXCEPT !.draft = b] \in States
  BY DEF States
<1>3. ASSUME NEW m \in NotFoundReasons
      PROVE  [s EXCEPT !.draft = FALSE, !.missing = m] \in States
  BY DEF States
<1>4. ASSUME NEW p \in Routes, NEW b \in BOOLEAN
      PROVE  [s EXCEPT !.path = p, !.rows = b] \in States
  BY DEF States
<1>5. ASSUME NEW p \in Routes, NEW b \in BOOLEAN
      PROVE  [s EXCEPT !.path = p, !.rows = b, !.draft = TRUE] \in States
  BY DEF States
<1>6. ASSUME NEW p \in Routes, NEW m \in NotFoundReasons
      PROVE  [s EXCEPT !.path = p, !.rows = FALSE, !.missing = m] \in States
  BY DEF States
<1>7. ASSUME NEW p \in Routes, NEW m \in NotFoundReasons
      PROVE  [s EXCEPT !.path = p, !.draft = TRUE, !.missing = m] \in States
  BY DEF States
<1>8. ASSUME NEW p \in Routes, NEW b \in BOOLEAN
      PROVE  [s EXCEPT !.path = p, !.draft = TRUE, !.split = b] \in States
  BY DEF States
<1>9. QED
  BY <1>1, <1>2, <1>3, <1>4, <1>5, <1>6, <1>7, <1>8

LEMMA VerdictUpdates ==
    ASSUME NEW s \in States
    PROVE  /\ \A v \in {"passed", "failed", "conflict"} :
                 [s EXCEPT !.verdict = v] \in States
           /\ \A c \in {"below", "above"} :
                 [s EXCEPT !.confident = c] \in States
           /\ \A c \in {"below", "above"}, m \in NotFoundReasons :
                 [s EXCEPT !.draft = TRUE, !.confident = c, !.unknown = TRUE,
                           !.missing = m] \in States
           /\ \A n \in Nat :
                 [s EXCEPT !.reason = TRUE, !.reflections = n] \in States
<1>1. ASSUME NEW v \in {"passed", "failed", "conflict"}
      PROVE  [s EXCEPT !.verdict = v] \in States
  BY DEF States
<1>2. ASSUME NEW c \in {"below", "above"}
      PROVE  [s EXCEPT !.confident = c] \in States
  BY DEF States
<1>3. ASSUME NEW c \in {"below", "above"}, NEW m \in NotFoundReasons
      PROVE  [s EXCEPT !.draft = TRUE, !.confident = c, !.unknown = TRUE,
                       !.missing = m] \in States
  BY DEF States
<1>4. ASSUME NEW n \in Nat
      PROVE  [s EXCEPT !.reason = TRUE, !.reflections = n] \in States
  BY DEF States
<1>5. QED
  BY <1>1, <1>2, <1>3, <1>4

LEMMA RepairedType ==
    ASSUME NEW s \in States, NEW y \in Strategies
    PROVE  Repaired(s, y) \in States
<1>1. ASSUME NEW n \in Nat, NEW c \in {"none", "unmatched", "matched"}, NEW r \in BOOLEAN
      PROVE  [s EXCEPT !.strategy = y, !.replan = TRUE, !.reflections = n, !.draft = FALSE,
                       !.verdict = "none", !.clauses = c, !.rows = r] \in States
  <2> DEFINE half == [s EXCEPT !.strategy = y, !.replan = TRUE, !.reflections = n,
                               !.draft = FALSE]
  <2>1. half \in States
    BY Zenon DEF States
  <2>2. ASSUME NEW h \in States
        PROVE  [h EXCEPT !.verdict = "none", !.clauses = c, !.rows = r] \in States
    <3>1. [h EXCEPT !.verdict = "none"] \in States
      BY SMT DEF States
    <3>2. \A g \in States : [g EXCEPT !.clauses = c] \in States
      BY SMT DEF States
    <3>3. \A g \in States : [g EXCEPT !.rows = r] \in States
      BY SMT DEF States
    <3>4. [h EXCEPT !.verdict = "none", !.clauses = c, !.rows = r]
              = [[[h EXCEPT !.verdict = "none"] EXCEPT !.clauses = c] EXCEPT !.rows = r]
      OBVIOUS
    <3>5. QED
      BY <3>1, <3>2, <3>3, <3>4, Zenon
  <2>3. [s EXCEPT !.strategy = y, !.replan = TRUE, !.reflections = n, !.draft = FALSE,
                  !.verdict = "none", !.clauses = c, !.rows = r]
            = [half EXCEPT !.verdict = "none", !.clauses = c, !.rows = r]
    OBVIOUS
  <2> HIDE DEF half
  <2>4. QED
    BY <2>1, <2>2, <2>3
<1>2. /\ s.reflections + 1 \in Nat /\ s.clauses \in {"none", "unmatched", "matched"}
      /\ s.rows \in BOOLEAN
  BY DEF States
<1>3. CASE y = "sql_renarrate"
  BY <1>1, <1>2, <1>3, Zenon DEF Repaired
<1>4. CASE y = "hybrid_redraft"
  BY <1>1, <1>2, <1>4, Zenon DEF Repaired
<1>5. CASE y \notin {"sql_renarrate", "hybrid_redraft"}
  BY <1>1, <1>2, <1>5, Zenon DEF Repaired
<1>6. QED
  BY <1>3, <1>4, <1>5

\* The budget's stop and the meters.
LEMMA MeterUpdates ==
    ASSUME NEW s \in States, NEW k \in Nat, NEW worse
    PROVE  /\ BudgetStop(s) \in States
           /\ Spend(s, k) \in States
           /\ Degrade(s, worse) \in States
<1>1. BudgetStop(s) \in States
  BY DEF BudgetStop, States
<1>2. Spend(s, k) \in States
  BY DEF Spend, States
<1>3. [s EXCEPT !.degraded = TRUE] \in States
  BY DEF States
<1>4. Degrade(s, worse) \in States
  BY <1>3 DEF Degrade
<1>5. QED
  BY <1>1, <1>2, <1>4

\* The deadline a path widens to is one of the three configured ones.
LEMMA WiderType ==
    ASSUME NEW d \in Deadlines, NEW c \in Deadlines
    PROVE  Wider(d, c) \in Deadlines /\ Wider(d, c) >= d
BY DEF Wider, Deadlines

\* A plan the policy refuses, and a plan it settles.
IsRefused(r, s) ==
    /\ ~HighRisk(s)
    /\ \E k \in Nat, p \in EvidencePaths :
          r = [Spend(s, k) EXCEPT !.plan = p, !.routed = NoAccess,
                                  !.missing = NoAccess, !.replan = FALSE]
IsSettled(r, s) ==
    \E k \in Nat, path \in Routes, d \in Deadlines, partial \in BOOLEAN :
        /\ d >= s.deadline
        /\ path \in {"nl2sql", "hybrid"} => req.tables
        /\ path = "high_risk_panel" <=> HighRisk(s)
        /\ r = Degrade([Spend(s, k) EXCEPT !.plan = path, !.routed = path,
                                           !.replan = FALSE, !.deadline = d], partial)

LEMMA ProposalType ==
    ASSUME TypeOK, NEW p \in Proposals(st)
    PROVE  p[1] \in EvidencePaths /\ p[2] \in Nat
<1>1. RuleFor(st.intent).default \in EvidencePaths
  BY DEF RuleFor, Rules, Rule, Intents, EvidencePaths, TypeOK, States
<1>2. st.plan \in EvidencePaths \cup {"none"}
  BY DEF TypeOK, States
<1>3. "nl2sql" \in EvidencePaths
  BY DEF EvidencePaths
<1>4. \/ p = <<st.plan, 0>> /\ st.plan # "none"
      \/ p = <<RuleFor(st.intent).default, 0>>
      \/ \E q \in EvidencePaths : p = <<q, 8>>
      \/ p = <<"nl2sql", 0>>
  BY DEF Proposals
<1>5. QED
  BY <1>1, <1>2, <1>3, <1>4

\* Every result of the planner is a refused plan or a settled one.
LEMMA PlannerResult ==
    ASSUME TypeOK, NEW t \in Nat, NEW r \in Planned(st, t)
    PROVE  IsRefused(r, st) \/ IsSettled(r, st)
<1> DEFINE decision(p) == ResolvePath(st.intent, HighRisk(st), p[1], req.tables, req.docs)
<1>1. PICK p \in Proposals(st) :
          r = IF decision(p).path = NoAccess THEN Refuse(st, p)
              ELSE Settle(st, p, decision(p), t)
  BY DEF Planned
<1>2. p[1] \in EvidencePaths /\ p[2] \in Nat
  BY <1>1, ProposalType
<1>3. /\ st.intent \in Intents \cup {"none"} /\ HighRisk(st) \in BOOLEAN
      /\ req.tables \in BOOLEAN /\ req.docs = TRUE
      /\ st.deadline \in Deadlines
  BY DEF TypeOK, States, Requests, HighRisk, Deadlines
<1>4. decision(p).path \in GrantedPaths(HighRisk(st), req.tables, req.docs)
  BY <1>2, <1>3, DecisionIsGranted
<1>5. decision(p).partial \in BOOLEAN
  BY DecisionIsMarked
<1> HIDE DEF decision
<1>6. CASE decision(p).path = NoAccess
  <2>1. r = Refuse(st, p)
    BY <1>1, <1>6
  <2>2. ~HighRisk(st)
    BY <1>4, <1>6 DEF GrantedPaths, NoAccess
  <2>3. QED
    BY <1>2, <2>1, <2>2 DEF IsRefused, Refuse
<1>7. CASE decision(p).path # NoAccess
  <2> DEFINE path == decision(p).path
             wider == Wider(st.deadline, PathDeadline(path))
             tight == wider - t < HybridMin
             budget == DegradeForBudget(path, st.intent, tight)
             partial == decision(p).partial \/ budget.partial
  <2>1. /\ path \in Routes
        /\ path \in {"nl2sql", "hybrid"} => req.tables
        /\ path = "high_risk_panel" <=> HighRisk(st)
    BY <1>4, <1>7 DEF GrantedPaths, Routes, NeedsRecords
  <2>2. PathDeadline(path) \in Deadlines
    BY DEF PathDeadline, Deadlines
  <2>3. wider \in Deadlines /\ wider >= st.deadline
    BY <1>3, <2>2, WiderType
  <2>4. tight \in BOOLEAN
    OBVIOUS
  <2> HIDE DEF path, wider, tight
  <2>5. /\ budget.path \in Routes /\ budget.partial \in BOOLEAN
        /\ budget.path \in IF path = "hybrid" THEN {"rag", "nl2sql", "hybrid"} ELSE {path}
    BY <1>3, <2>1, <2>4, DegradeIsGranted
  <2>6. r = Degrade([Spend(st, p[2]) EXCEPT
                        !.plan = budget.path, !.routed = budget.path, !.replan = FALSE,
                        !.deadline = wider], partial)
    <3>1. r = Settle(st, p, decision(p), t)
      BY <1>1, <1>7
    <3>2. QED
      BY <3>1 DEF Settle, path, wider, tight
  <2>7. budget.path \in {"nl2sql", "hybrid"} => req.tables
    BY <2>1, <2>5
  <2>8. budget.path = "high_risk_panel" <=> HighRisk(st)
    BY <2>1, <2>5
  <2>9. partial \in BOOLEAN
    BY <1>5, <2>5
  <2> HIDE DEF budget, partial
  <2>10. QED
    BY <1>2, <2>3, <2>5, <2>6, <2>7, <2>8, <2>9 DEF IsSettled
<1>8. QED
  BY <1>6, <1>7

LEMMA PlannedType ==
    ASSUME TypeOK, NEW t \in Nat, NEW r \in Planned(st, t)
    PROVE  r \in States
<1>1. st \in States
  BY DEF TypeOK
<1>2. CASE IsRefused(r, st)
  <2>1. PICK k \in Nat, p \in EvidencePaths :
            r = [Spend(st, k) EXCEPT !.plan = p, !.routed = NoAccess,
                                     !.missing = NoAccess, !.replan = FALSE]
    BY <1>2 DEF IsRefused
  <2>2. Spend(st, k) \in States
    BY <1>1, MeterUpdates
  <2>3. [Spend(st, k) EXCEPT !.plan = p, !.routed = NoAccess,
                             !.missing = NoAccess, !.replan = FALSE] \in States
    BY <2>2, PlanUpdates, Zenon
  <2>4. QED
    BY <2>1, <2>3
<1>3. CASE IsSettled(r, st)
  <2>1. PICK k \in Nat, path \in Routes, d \in Deadlines, partial \in BOOLEAN :
            r = Degrade([Spend(st, k) EXCEPT !.plan = path, !.routed = path,
                                             !.replan = FALSE, !.deadline = d], partial)
    BY <1>3 DEF IsSettled
  <2>2. Spend(st, k) \in States
    BY <1>1, MeterUpdates
  <2>3. path \in EvidencePaths
    BY Values
  <2>4. [Spend(st, k) EXCEPT !.plan = path, !.routed = path, !.replan = FALSE,
                             !.deadline = d] \in States
    BY <2>2, <2>3, PlanUpdates, Zenon
  <2>5. QED
    BY <2>1, <2>4, MeterUpdates
<1>4. QED
  BY <1>2, <1>3, PlannerResult

\* Evidence from the index, and the answer written over it.
LEMMA WrittenType ==
    ASSUME TypeOK, CurrentRoute(st) \in Routes,
           NEW g \in Gathered(st), NEW r \in WrittenFromClauses(g)
    PROVE  r \in States
<1>1. st \in States
  BY DEF TypeOK
<1>2. g \in States
  <2>1. PICK c \in {"none", "unmatched", "matched"}, t \in DuringNode :
            g = Degrade([st EXCEPT !.clauses = c, !.path = CurrentRoute(st)],
                        Remaining(st, t) < RerankMin)
    BY DEF Gathered
  <2>2. [st EXCEPT !.clauses = c, !.path = CurrentRoute(st)] \in States
    BY <1>1, EvidenceUpdates, Values
  <2>3. QED
    BY <2>1, <2>2, MeterUpdates
<1>3. Spend(g, 30) \in States
  BY <1>2, MeterUpdates
<1>4. \/ r = [g EXCEPT !.draft = FALSE]
      \/ r = [g EXCEPT !.draft = FALSE, !.missing = "no_match"]
      \/ r = [Spend(g, 30) EXCEPT !.draft = TRUE]
      \/ r = [Spend(g, 30) EXCEPT !.draft = FALSE, !.missing = "not_in_extracts"]
  BY DEF WrittenFromClauses
<1>5. "no_match" \in NotFoundReasons /\ "not_in_extracts" \in NotFoundReasons
  BY Values
<1>6. /\ [g EXCEPT !.draft = FALSE] \in States
      /\ [g EXCEPT !.draft = FALSE, !.missing = "no_match"] \in States
  BY <1>2, <1>5, EvidenceUpdates, Zenon
<1>7. /\ [Spend(g, 30) EXCEPT !.draft = TRUE] \in States
      /\ [Spend(g, 30) EXCEPT !.draft = FALSE, !.missing = "not_in_extracts"] \in States
  BY <1>3, <1>5, EvidenceUpdates, Zenon
<1>8. QED
  BY <1>4, <1>6, <1>7

\* The records stage, for each kind of route.
LEMMA RecordsType ==
    ASSUME TypeOK,
           NEW r \in RecordsForPanel(st) \cup ReconciledWithPolicy(st) \cup RecordsAnswer(st)
    PROVE  r \in States
<1>1. \A k \in Nat : Spend(st, k) \in States
  BY MeterUpdates DEF TypeOK
<1>2. QueryRows \subseteq BOOLEAN
  BY DEF QueryRows
<1>6. /\ 6 \in Nat /\ 9 \in Nat /\ 15 \in Nat /\ 40 \in Nat
      /\ "high_risk_panel" \in Routes /\ "hybrid" \in Routes /\ "nl2sql" \in Routes
      /\ "no_evidence" \in NotFoundReasons /\ "no_records" \in NotFoundReasons
      /\ TRUE \in BOOLEAN
  BY Values
<1>3. CASE r \in RecordsForPanel(st)
  <2>1. PICK b \in BOOLEAN :
            r = [Spend(st, 6) EXCEPT !.path = "high_risk_panel", !.rows = b]
    BY <1>2, <1>3 DEF RecordsForPanel
  <2>2. [Spend(st, 6) EXCEPT !.path = "high_risk_panel", !.rows = b] \in States
    BY <1>1, <1>6, EvidenceUpdates, Zenon
  <2>3. QED
    BY <2>1, <2>2
<1>4. CASE r \in ReconciledWithPolicy(st)
  <2>1. PICK b \in BOOLEAN :
            \/ r = [Spend(st, 6) EXCEPT !.path = "hybrid", !.rows = FALSE,
                                        !.missing = "no_evidence"]
            \/ r = [Spend(st, 40) EXCEPT !.path = "hybrid", !.rows = b, !.draft = TRUE]
    BY <1>2, <1>4 DEF ReconciledWithPolicy
  <2>2. /\ [Spend(st, 6) EXCEPT !.path = "hybrid", !.rows = FALSE,
                                !.missing = "no_evidence"] \in States
        /\ [Spend(st, 40) EXCEPT !.path = "hybrid", !.rows = b, !.draft = TRUE] \in States
    BY <1>1, <1>6, EvidenceUpdates, Zenon
  <2>3. QED
    BY <2>1, <2>2
<1>5. CASE r \in RecordsAnswer(st)
  <2>1. \/ \E worse \in BOOLEAN :
              r = Degrade([Spend(st, 15) EXCEPT !.path = "nl2sql", !.rows = TRUE,
                                                !.draft = TRUE], worse)
        \/ r = [Spend(st, 9) EXCEPT !.path = "nl2sql", !.draft = TRUE,
                                    !.missing = "no_records"]
    BY <1>5 DEF RecordsAnswer
  <2>2. /\ [Spend(st, 15) EXCEPT !.path = "nl2sql", !.rows = TRUE, !.draft = TRUE] \in States
        /\ [Spend(st, 9) EXCEPT !.path = "nl2sql", !.draft = TRUE,
                                !.missing = "no_records"] \in States
    BY <1>1, <1>6, EvidenceUpdates, Zenon
  <2>3. QED
    BY <2>1, <2>2, MeterUpdates
<1>7. QED
  BY <1>3, <1>4, <1>5

\* What a reflection leaves, and what the validator may say.
LEMMA ReflectedType ==
    ASSUME TypeOK, NEW r \in Reflected(st)
    PROVE  r \in States
<1>1. st \in States /\ Spend(st, 9) \in States
  BY MeterUpdates DEF TypeOK
<1>2. \A s \in States, y \in Strategies : Repaired(s, y) \in States
  BY RepairedType
<1>3. \/ r \in {Repaired(st, "rag_widen_and_fix"), Repaired(st, "sql_renarrate"),
                Repaired(st, "hybrid_redraft")}
      \/ r = [Spend(st, 9) EXCEPT !.reason = TRUE, !.reflections = @ + 1]
      \/ \E p \in EvidencePaths :
            r = [Repaired(Spend(st, 9), "llm_replan") EXCEPT !.plan = p]
  BY DEF Reflected
<1>4. \A y \in {"rag_widen_and_fix", "sql_renarrate", "hybrid_redraft", "llm_replan"} :
          y \in Strategies
  BY Values
<1>5. Spend(st, 9).reflections + 1 \in Nat
  BY <1>1 DEF States
<1>6. [Spend(st, 9) EXCEPT !.reason = TRUE, !.reflections = @ + 1] \in States
  BY <1>1, <1>5, VerdictUpdates, Zenon
<1>7. ASSUME NEW p \in EvidencePaths
      PROVE  [Repaired(Spend(st, 9), "llm_replan") EXCEPT !.plan = p] \in States
  BY <1>1, <1>2, <1>4, PlanUpdates, Zenon
<1>8. QED
  BY <1>1, <1>2, <1>3, <1>4, <1>6, <1>7

LEMMA JudgementType ==
    ASSUME NEW s, NEW j \in Judgements(s)
    PROVE  /\ j[1] \in {"passed", "failed", "conflict"}
           /\ j[2] \in Nat
<1>1. j \in {<<"passed", 0>>, <<"conflict", 0>>, <<"passed", 25>>, <<"failed", 0>>,
             <<"conflict", 25>>, <<"failed", 25>>}
  BY DEF Judgements
<1>2. QED
  BY <1>1

-----------------------------------------------------------------------------
(* The inductive invariant. *)

Early == {"input_guardrail", "query_rewrite", "intent_classification",
          "entity_resolution", "risk_assessment"}
StageNodes == {RagStage, SqlStage, PanelStage}

\* The route is granted, and the panel's only for High risk.
Granted(s) ==
    /\ s.split => HighRisk(s)
    /\ s.routed = "high_risk_panel" => HighRisk(s)
    /\ s.routed \in {"nl2sql", "hybrid"} => req.tables
RouteIsGranted ==
    /\ Granted(st)
    /\ node \in Early => ~HighRisk(st)
    /\ node \in StageNodes => CurrentRoute(st) \in Routes
    /\ node = SqlStage => req.tables
    /\ node = PanelStage => HighRisk(st)

\* A node that leads to a reply is only reached with nothing standing against it.
Certified(s) == s.unknown \/ (s.verdict = "passed" /\ s.confident = "above")
NothingStands ==
    /\ node \in StageNodes \cup {Validation, "reflection", "confidence_scoring"}
           => ~Stopped(st)
    /\ node = "no_answer" => ~NeedsPerson
    /\ node = "output_guardrail" => ~NeedsPerson /\ Certified(st)
    /\ st.outcome = "answered" =>
           node = "END" /\ ~NeedsPerson /\ Certified(st) /\ st.draft

\* The verdict at each node: a repair starts from a failed one and clears it.
VerdictFits ==
    /\ node \in Early \cup StageNodes \cup {Validation} => st.verdict = "none"
    /\ node = "planner" => st.verdict = "none" \/ st.reason
    /\ node = "reflection" => st.verdict = "failed"
    /\ node = "confidence_scoring" => st.verdict = "passed"

\* A repair is entered with an attempt, the time and the tokens for it, so its
\* node is never refused when the headroom is positive.
RepairIsAffordable ==
    node = "reflection" =>
        /\ st.reflections < MaxReflections
        /\ Remaining(st, now) >= RepairHeadroom
        /\ TokensLeft(st) >= TokenEstimate("reflection")

Control ==
    /\ RouteIsGranted
    /\ NothingStands
    /\ VerdictFits
    /\ RepairIsAffordable
    /\ RepairHeadroom > 0 => Bounded

\* What every step keeps: the meters and flags, and a reason to involve a person.
Grows == NeverForgets /\ (NeedsPerson => NeedsPerson')

-----------------------------------------------------------------------------
(* What a result leaves in the fields the invariant reads. *)

\* The fields that only a few nodes write.
Kept(r) ==
    /\ r.risk = st.risk /\ r.routed = st.routed /\ r.split = st.split
    /\ r.verdict = st.verdict /\ r.reflections = st.reflections
    /\ r.unknown = st.unknown /\ r.confident = st.confident
\* The meters and flags of NeverForgets, and the reason.
Grown(r) ==
    /\ r.tokens >= st.tokens /\ r.deadline >= st.deadline
    /\ st.degraded => r.degraded
    /\ st.stopped => r.stopped
    /\ st.reason => r.reason

LEMMA StopFacts ==
    ASSUME TypeOK
    PROVE  /\ Kept(BudgetStop(st)) /\ Grown(BudgetStop(st))
           /\ BudgetStop(st).reason /\ BudgetStop(st).stopped
           /\ BudgetStop(st).outcome = st.outcome
           /\ BudgetStop(st).draft = st.draft
<1>1. st \in States /\ st.tokens \in Nat /\ st.deadline \in Nat
  BY DEF TypeOK, States
<1>2. QED
  BY <1>1 DEF BudgetStop, Kept, Grown, States

\* The step counter on the longest way to each node.
LEMMA StepsTable ==
    /\ StepsBefore("input_guardrail") = 0 /\ StepsBefore("query_rewrite") = 1
    /\ StepsBefore("intent_classification") = 2 /\ StepsBefore("entity_resolution") = 3
    /\ StepsBefore("risk_assessment") = 4 /\ StepsBefore("planner") = 5
    /\ StepsBefore(RagStage) = 6 /\ StepsBefore(SqlStage) = 7
    /\ StepsBefore(PanelStage) = 8 /\ StepsBefore(Validation) = 9
    /\ StepsBefore("reflection") = 10 /\ StepsBefore("confidence_scoring") = 10
    /\ StepsBefore("no_answer") = 10 /\ StepsBefore("output_guardrail") = 11
    /\ StepsBefore("escalation_manager") = 12 /\ StepsBefore("safe_refusal") = 3
    /\ StepsBefore("clarification") = 4 /\ StepsBefore("END") = 13
    /\ StepsBefore("RAISED") = 13
BY DEF StepsBefore, NodeSteps, RagStage, SqlStage, PanelStage, Validation

\* A step before the planner.
LEMMA EarlyStep ==
    ASSUME TypeOK, Control, node \in Early, req' = req, steps' = steps + 1,
           Kept(st'), Grown(st'), st'.outcome # "answered",
           node' \in {"safe_refusal", "clarification", "escalation_manager"} \cup Early,
           StepsBefore(node) + 1 <= StepsBefore(node')
    PROVE  Control' /\ Grows
<1>1. RouteIsGranted'
  BY DEF Control, RouteIsGranted, Granted, Kept, HighRisk, CurrentRoute, Early,
         StageNodes, RagStage, SqlStage, PanelStage
<1>2. NothingStands'
  BY DEF NothingStands, Early, StageNodes, RagStage, SqlStage, PanelStage, Validation
<1>3. VerdictFits'
  BY DEF Control, VerdictFits, Kept, Early, StageNodes, RagStage, SqlStage, PanelStage,
         Validation
<1>4. RepairIsAffordable'
  BY DEF RepairIsAffordable, Early
<1>5. RepairHeadroom > 0 => Bounded'
  <2>1. /\ steps \in Nat /\ st.reflections \in Nat /\ st'.reflections = st.reflections
    BY DEF TypeOK, States, Kept
  <2>2. StepsBefore(node) <= 4 /\ StepsBefore(node) \in Nat
    BY StepsTable DEF Early
  <2>3. StepsBefore(node') \in Nat
    BY StepsTable DEF Early
  <2>4. QED
    BY <2>1, <2>2, <2>3 DEF Control, Bounded
<1>6. Grows
  <2>1. st.reflections \in Nat
    BY DEF TypeOK, States
  <2>2. NeverForgets
    BY <2>1 DEF NeverForgets, Kept, Grown, HighRisk
  <2>3. NeedsPerson => NeedsPerson'
    BY DEF NeedsPerson, Kept, Grown, HighRisk
  <2>4. QED
    BY <2>2, <2>3 DEF Grows
<1>7. QED
  BY <1>1, <1>2, <1>3, <1>4, <1>5, <1>6 DEF Control

\* The variables a node leaves, whatever its results.
LEMMA RunsFacts ==
    ASSUME TypeOK, NEW n, NEW results, Runs(n, results)
    PROVE  /\ node = n /\ req' = req /\ steps' = steps + 1
           /\ now \in Nat /\ now' \in 0..MaxElapsed /\ now' >= now
           /\ \/ st' \in results /\ Allowed(n, st, now)
              \/ st' = BudgetStop(st) /\ ~Allowed(n, st, now)
           /\ st' \in States /\ node' \in Nodes \cup Final => TypeOK'
BY DEF Runs, TypeOK

\* One lemma for each node: it keeps the types and the invariant, and nothing
\* it should keep is lost.
LEMMA InputGuardrailStep ==
    ASSUME TypeOK, Control, InputGuardrail
    PROVE  TypeOK' /\ Control' /\ Grows
<1> DEFINE results == {st, [st EXCEPT !.outcome = "refused"]}
<1>1. Runs("input_guardrail", results) /\ node' = AfterGuardrail(st')
  BY DEF InputGuardrail
<1>2. st' = st \/ st' = [st EXCEPT !.outcome = "refused"] \/ st' = BudgetStop(st)
  BY <1>1, RunsFacts
<1>3. st \in States /\ st.outcome # "answered"
  BY <1>1, RunsFacts DEF TypeOK, Control, NothingStands
<1>4. st' \in States
  BY <1>2, <1>3, MeterUpdates, BeforePlanUpdates, Values, Zenon
<1>5. Kept(st') /\ Grown(st') /\ st'.outcome # "answered"
  BY <1>2, <1>3, StopFacts DEF Kept, Grown, States
<1>6. node' \in {"safe_refusal", "escalation_manager", "query_rewrite"}
  BY <1>1 DEF AfterGuardrail
<1>7. TypeOK'
  BY <1>1, <1>4, <1>6, RunsFacts DEF Nodes
<1>8. QED
  BY <1>1, <1>5, <1>6, <1>7, EarlyStep, RunsFacts, StepsTable DEF Early

LEMMA QueryRewriteStep ==
    ASSUME TypeOK, Control, QueryRewrite
    PROVE  TypeOK' /\ Control' /\ Grows
<1> DEFINE results == {st, Spend(st, 6)}
<1>1. Runs("query_rewrite", results) /\ node' = "intent_classification"
  BY DEF QueryRewrite
<1>2. st' = st \/ st' = Spend(st, 6) \/ st' = BudgetStop(st)
  BY <1>1, RunsFacts
<1>3. st \in States /\ st.outcome # "answered" /\ st.tokens \in Nat
  BY <1>1, RunsFacts DEF TypeOK, States, Control, NothingStands
<1>4. st' \in States
  BY <1>2, <1>3, MeterUpdates
<1>5. Kept(st') /\ Grown(st') /\ st'.outcome # "answered"
  BY <1>2, <1>3, StopFacts DEF Spend, Kept, Grown, States
<1>6. TypeOK'
  BY <1>1, <1>4, RunsFacts DEF Nodes
<1>7. QED
  BY <1>1, <1>5, <1>6, EarlyStep, RunsFacts, StepsTable DEF Early

LEMMA IntentClassificationStep ==
    ASSUME TypeOK, Control, IntentClassification
    PROVE  TypeOK' /\ Control' /\ Grows
<1> DEFINE results == {[Spend(st, 5) EXCEPT !.intent = i] : i \in Intents}
                        \cup {[Spend(st, 5) EXCEPT !.outcome = "refused"]}
<1>1. Runs("intent_classification", results) /\ node' = AfterIntent(st')
  BY DEF IntentClassification
<1>2. \/ \E i \in Intents : st' = [Spend(st, 5) EXCEPT !.intent = i]
      \/ st' = [Spend(st, 5) EXCEPT !.outcome = "refused"]
      \/ st' = BudgetStop(st)
  BY <1>1, RunsFacts
<1>3. st \in States /\ st.outcome # "answered" /\ st.tokens \in Nat
  BY <1>1, RunsFacts DEF TypeOK, States, Control, NothingStands
<1>4. Spend(st, 5) \in States /\ BudgetStop(st) \in States
  BY <1>3, MeterUpdates
<1>5. /\ [Spend(st, 5) EXCEPT !.outcome = "refused"] \in States
      /\ \A i \in Intents : [Spend(st, 5) EXCEPT !.intent = i] \in States
  BY <1>4, BeforePlanUpdates, Values, Zenon
<1>6. st' \in States
  BY <1>2, <1>4, <1>5
<1>7. Kept(st') /\ Grown(st') /\ st'.outcome # "answered"
  <2>1. st.tokens \in Nat /\ st.deadline \in Nat
    BY <1>3 DEF States
  <2>2. ASSUME NEW i \in Intents, st' = [Spend(st, 5) EXCEPT !.intent = i]
        PROVE  Kept(st') /\ Grown(st') /\ st'.outcome # "answered"
    BY <1>3, <2>1, <2>2 DEF Spend, Kept, Grown, States
  <2>3. CASE st' = [Spend(st, 5) EXCEPT !.outcome = "refused"]
    BY <1>3, <2>1, <2>3 DEF Spend, Kept, Grown, States
  <2>4. CASE st' = BudgetStop(st)
    BY <1>3, <2>4, StopFacts
  <2>5. QED
    BY <1>2, <2>2, <2>3, <2>4
<1>8. node' \in {"safe_refusal", "escalation_manager", "entity_resolution"}
  BY <1>1 DEF AfterIntent
<1>9. TypeOK'
  BY <1>1, <1>6, <1>8, RunsFacts DEF Nodes
<1>10. QED
  BY <1>1, <1>7, <1>8, <1>9, EarlyStep, RunsFacts, StepsTable DEF Early

LEMMA EntityResolutionStep ==
    ASSUME TypeOK, Control, EntityResolution
    PROVE  TypeOK' /\ Control' /\ Grows
<1> DEFINE unclear == [st EXCEPT !.outcome = "clarification_required"]
           results == {st} \cup (IF req.tables THEN {unclear} ELSE {})
<1>1. Runs("entity_resolution", results) /\ node' = AfterEntityResolution(st')
  BY DEF EntityResolution
<1>2. st' = st \/ st' = unclear \/ st' = BudgetStop(st)
  BY <1>1, RunsFacts
<1>3. st \in States /\ st.outcome # "answered"
  BY <1>1, RunsFacts DEF TypeOK, Control, NothingStands
<1>4. unclear \in States /\ BudgetStop(st) \in States
  BY <1>3, MeterUpdates, BeforePlanUpdates, Values, Zenon
<1>5. st' \in States
  BY <1>2, <1>3, <1>4
<1>6. Kept(st') /\ Grown(st') /\ st'.outcome # "answered"
  BY <1>2, <1>3, StopFacts DEF Kept, Grown, States
<1>7. node' \in {"clarification", "escalation_manager", "risk_assessment"}
  BY <1>1 DEF AfterEntityResolution
<1>8. TypeOK'
  BY <1>1, <1>5, <1>7, RunsFacts DEF Nodes
<1>9. QED
  BY <1>1, <1>6, <1>7, <1>8, EarlyStep, RunsFacts, StepsTable DEF Early

\* The counter, on an edge that leads further along the longest way.
LEMMA CountStep ==
    ASSUME TypeOK, TypeOK', Control, steps' = steps + 1,
           st'.reflections = st.reflections,
           StepsBefore(node) + 1 <= StepsBefore(node')
    PROVE  RepairHeadroom > 0 => Bounded'
<1>1. /\ steps \in Nat /\ st.reflections \in Nat
      /\ node \in Nodes \cup Final /\ node' \in Nodes \cup Final
  BY DEF TypeOK, States
<1>2. StepsBefore(node) \in Nat /\ StepsBefore(node') \in Nat
  BY <1>1, StepsTable DEF Nodes, Final
<1>3. QED
  BY <1>1, <1>2 DEF Control, Bounded

LEMMA GrowStep ==
    ASSUME TypeOK, Control, req' = req, Grown(st'), HighRisk(st) => HighRisk(st'),
           st.verdict = "conflict" => st'.verdict = "conflict",
           st'.reflections \in {st.reflections, st.reflections + 1}
    PROVE  Grows
<1>1. NeverForgets
  BY DEF NeverForgets, Grown
<1>2. NeedsPerson => NeedsPerson'
  BY DEF NeedsPerson, Grown, Control, RouteIsGranted, Granted
<1>3. QED
  BY <1>1, <1>2 DEF Grows

\* Leaving for a node that asks nothing more of the state.
Exits == {"escalation_manager", "safe_refusal", "clarification", "END", "RAISED"}

LEMMA ExitStep ==
    ASSUME node' \in Exits, st'.outcome # "answered", Granted(st)',
           RepairHeadroom > 0 => Bounded'
    PROVE  Control'
<1> USE DEF Exits, Early, StageNodes, RagStage, SqlStage, PanelStage, Validation
<1>1. RouteIsGranted'
  BY DEF RouteIsGranted
<1>2. NothingStands'
  BY DEF NothingStands
<1>3. VerdictFits'
  BY DEF VerdictFits
<1>4. RepairIsAffordable'
  BY DEF RepairIsAffordable
<1>5. QED
  BY <1>1, <1>2, <1>3, <1>4 DEF Control

LEMMA RiskAssessmentStep ==
    ASSUME TypeOK, Control, RiskAssessment
    PROVE  TypeOK' /\ Control' /\ Grows
<1> DEFINE wider == Wider(st.deadline, HighRiskDeadline)
           low == [Spend(st, 7) EXCEPT !.risk = "Low"]
           high == [Spend(st, 7) EXCEPT !.risk = "High", !.deadline = wider]
<1>1. /\ Runs("risk_assessment", {low, high})
      /\ node' = AfterRisk(st')
  <2>1. high = [Spend(st, 7) EXCEPT !.risk = "High",
                                    !.deadline = Wider(@, HighRiskDeadline)]
    BY DEF Spend, TypeOK, States
  <2>2. QED
    BY <2>1 DEF RiskAssessment
<1>2. st' = low \/ st' = high \/ st' = BudgetStop(st)
  BY <1>1, RunsFacts
<1>3. /\ st \in States /\ st.outcome # "answered" /\ ~HighRisk(st)
      /\ st.verdict = "none" /\ Granted(st)
  BY <1>1, RunsFacts DEF TypeOK, Control, NothingStands, VerdictFits, RouteIsGranted, Early
<1>4. st.tokens \in Nat /\ st.deadline \in Deadlines /\ st.deadline \in Nat
  BY <1>3 DEF States, Deadlines
<1>5. HighRiskDeadline \in Deadlines /\ wider \in Deadlines /\ wider \in Nat /\ wider >= st.deadline
  BY <1>4, WiderType DEF Deadlines
<1> HIDE DEF wider
<1>6. low \in States /\ high \in States /\ BudgetStop(st) \in States
  <2>1. Spend(st, 7) \in States /\ BudgetStop(st) \in States
    BY <1>3, MeterUpdates
  <2>2. QED
    BY <2>1, <1>5, BeforePlanUpdates, Zenon
<1>7. st' \in States
  BY <1>2, <1>6
<1>8. /\ Grown(st') /\ Granted(st')
      /\ st'.outcome # "answered" /\ st'.verdict = "none"
      /\ st'.reflections = st.reflections
  <2>1. CASE st' = low
    BY <1>3, <1>4, <2>1 DEF Spend, Grown, Granted, HighRisk, States
  <2>2. CASE st' = high
    BY <1>3, <1>4, <1>5, <2>2 DEF Spend, Grown, Granted, HighRisk, States
  <2>3. CASE st' = BudgetStop(st)
    BY <1>3, <2>3, StopFacts DEF Kept, Granted, HighRisk
  <2>4. QED
    BY <1>2, <2>1, <2>2, <2>3
<1>9. node' = "escalation_manager" \/ (node' = "planner" /\ ~Stopped(st'))
  BY <1>1 DEF AfterRisk
<1>10. TypeOK'
  BY <1>1, <1>7, <1>9, RunsFacts DEF Nodes
<1>11. Grows
  BY <1>1, <1>3, <1>8, RunsFacts, GrowStep
<1>12. RepairHeadroom > 0 => Bounded'
  BY <1>1, <1>8, <1>9, <1>10, RunsFacts, StepsTable, CountStep
<1>13. Granted(st)'
  BY <1>1, <1>8, RunsFacts DEF Granted, HighRisk
<1>14. Control'
  <2>1. CASE node' = "escalation_manager"
    BY <2>1, <1>8, <1>12, <1>13, ExitStep DEF Exits
  <2>2. CASE node' = "planner"
    BY <2>2, <1>8, <1>12, <1>13
       DEF Control, RouteIsGranted, NothingStands, VerdictFits, RepairIsAffordable,
           Early, StageNodes, RagStage, SqlStage, PanelStage, Validation
  <2>3. QED
    BY <1>9, <2>1, <2>2
<1>15. QED
  BY <1>10, <1>11, <1>14

\* A stage of the route that the state's own route names.
LEMMA StageStep ==
    ASSUME node' \in StageNodes, CurrentRoute(st') \in Routes,
           node' = SqlStage => req'.tables, node' = PanelStage => HighRisk(st'),
           ~Stopped(st'), st'.outcome # "answered", st'.verdict = "none", Granted(st)',
           RepairHeadroom > 0 => Bounded'
    PROVE  Control'
<1> USE DEF Early, StageNodes, RagStage, SqlStage, PanelStage, Validation
<1>1. RouteIsGranted'
  BY DEF RouteIsGranted, CurrentRoute, HighRisk
<1>2. NothingStands'
  BY DEF NothingStands, Stopped
<1>3. VerdictFits'
  BY DEF VerdictFits
<1>4. RepairIsAffordable'
  BY DEF RepairIsAffordable
<1>5. QED
  BY <1>1, <1>2, <1>3, <1>4 DEF Control

\* A reply that says nothing was found.
LEMMA NoAnswerEntry ==
    ASSUME node' = "no_answer", ~NeedsPerson', st'.outcome # "answered", Granted(st)',
           RepairHeadroom > 0 => Bounded'
    PROVE  Control'
BY DEF Control, RouteIsGranted, NothingStands, VerdictFits, RepairIsAffordable,
       Early, StageNodes, RagStage, SqlStage, PanelStage, Validation

LEMMA PlannerStep ==
    ASSUME TypeOK, Control, Planner
    PROVE  TypeOK' /\ Control' /\ Grows
<1>1. /\ Runs("planner", UNION {Planned(st, t) : t \in DuringNode})
      /\ node' = AfterPlanner(st')
  BY DEF Planner
<1>2. \/ \E t \in Nat : st' \in Planned(st, t)
      \/ st' = BudgetStop(st)
  <2>1. DuringNode \subseteq Nat
    BY <1>1, RunsFacts DEF DuringNode
  <2>2. QED
    BY <1>1, <2>1, RunsFacts
<1>3. /\ st \in States /\ st.outcome # "answered" /\ Granted(st)
      /\ st.verdict = "none" \/ st.reason
  BY <1>1, RunsFacts DEF TypeOK, Control, NothingStands, VerdictFits, RouteIsGranted
<1>4. st.tokens \in Nat /\ st.deadline \in Nat
  BY <1>3 DEF States, Deadlines
<1>5. st' \in States
  BY <1>2, <1>3, PlannedType, MeterUpdates
<1> DEFINE Core(r) ==
        /\ r.risk = st.risk /\ r.split = st.split /\ r.verdict = st.verdict
        /\ r.reflections = st.reflections /\ r.outcome = st.outcome
<1>6. CASE st' = BudgetStop(st)
  <2>1. Kept(st') /\ Grown(st') /\ st'.outcome # "answered" /\ Stopped(st')
    BY <1>3, <1>6, StopFacts DEF Stopped
  <2>2. node' = "escalation_manager"
    BY <1>1, <2>1 DEF AfterPlanner
  <2>3. TypeOK'
    BY <1>1, <1>5, <2>2, RunsFacts DEF Nodes
  <2>4. Grows
    BY <1>1, <2>1, RunsFacts, GrowStep DEF Kept, HighRisk
  <2>5. RepairHeadroom > 0 => Bounded'
    BY <1>1, <2>1, <2>2, <2>3, RunsFacts, StepsTable, CountStep DEF Kept
  <2>6. Granted(st)'
    BY <1>1, <1>3, <2>1, RunsFacts DEF Granted, HighRisk, Kept
  <2>7. QED
    BY <2>1, <2>2, <2>3, <2>4, <2>5, <2>6, ExitStep DEF Exits
<1>7. CASE IsRefused(st', st)
  <2>1. /\ Core(st') /\ Grown(st') /\ st'.routed = NoAccess /\ ~HighRisk(st)
        /\ st'.reason = st.reason /\ st'.stopped = st.stopped
    BY <1>3, <1>4, <1>7 DEF IsRefused, Spend, Grown, States
  <2>2. node' = "escalation_manager" \/ (node' = "no_answer" /\ ~Stopped(st') /\ ~req.human)
    BY <1>1, <2>1 DEF AfterPlanner, HighRisk
  <2>3. TypeOK'
    BY <1>1, <1>5, <2>2, RunsFacts DEF Nodes
  <2>4. Grows
    BY <1>1, <2>1, RunsFacts, GrowStep DEF HighRisk
  <2>5. RepairHeadroom > 0 => Bounded'
    BY <1>1, <2>1, <2>2, <2>3, RunsFacts, StepsTable, CountStep
  <2>6. Granted(st)'
    BY <1>1, <1>3, <2>1, RunsFacts DEF Granted, HighRisk, NoAccess
  <2>7. CASE node' = "escalation_manager"
    BY <1>3, <2>1, <2>3, <2>4, <2>5, <2>6, <2>7, ExitStep DEF Exits
  <2>8. CASE node' = "no_answer"
    <3>1. ~NeedsPerson'
      BY <1>1, <1>3, <2>1, <2>2, <2>8, RunsFacts DEF NeedsPerson, Stopped, HighRisk, Granted
    <3>2. QED
      BY <1>3, <2>1, <2>3, <2>4, <2>5, <2>6, <2>8, <3>1, NoAnswerEntry
  <2>9. QED
    BY <2>2, <2>7, <2>8
<1>8. CASE IsSettled(st', st)
  <2>1. /\ Core(st') /\ Grown(st') /\ st'.routed \in Routes
        /\ st'.routed \in {"nl2sql", "hybrid"} => req.tables
        /\ st'.routed = "high_risk_panel" <=> HighRisk(st)
        /\ st'.reason = st.reason /\ st'.stopped = st.stopped
    <3>1. PICK k \in Nat, path \in Routes, d \in Deadlines, partial \in BOOLEAN :
              /\ d >= st.deadline
              /\ path \in {"nl2sql", "hybrid"} => req.tables
              /\ path = "high_risk_panel" <=> HighRisk(st)
              /\ st' = Degrade([Spend(st, k) EXCEPT !.plan = path, !.routed = path,
                                     !.replan = FALSE, !.deadline = d], partial)
      BY <1>8 DEF IsSettled
    <3> DEFINE plan == [Spend(st, k) EXCEPT !.plan = path, !.routed = path,
                                            !.replan = FALSE, !.deadline = d]
    <3>2. /\ Core(plan) /\ Grown(plan) /\ plan.routed = path
          /\ plan.reason = st.reason /\ plan.stopped = st.stopped
      BY <1>3, <1>4, <3>1 DEF Spend, Grown, States
    <3>3. plan \in States
      <4>1. Spend(st, k) \in States /\ path \in EvidencePaths
        BY <1>3, MeterUpdates, Values
      <4>2. QED
        BY <4>1, PlanUpdates, Zenon
    <3> HIDE DEF plan
    <3>4. st' = plan \/ st' = [plan EXCEPT !.degraded = TRUE]
      BY <3>1 DEF plan, Degrade
    <3>5. /\ Core(st') /\ Grown(st') /\ st'.routed = path
          /\ st'.reason = st.reason /\ st'.stopped = st.stopped
      BY <3>2, <3>3, <3>4 DEF Grown, States
    <3>6. QED
      BY <3>1, <3>5
  <2>2. CurrentRoute(st') = st'.routed
    BY <2>1 DEF CurrentRoute, HighRisk
  <2>3. /\ req' = req /\ req.tables \in BOOLEAN /\ req.docs \in BOOLEAN
        /\ HighRisk(st') = HighRisk(st)
    BY <1>1, <2>1, RunsFacts DEF TypeOK, Requests, HighRisk
  <2>4. \/ node' = "escalation_manager"
        \/ /\ ~Stopped(st')
           /\ node' \in StageNodes
           /\ node' = SqlStage => req.tables
           /\ node' = PanelStage => HighRisk(st')
    <3> DEFINE first == FirstStage(st'.routed, req.tables, req.docs)
    <3>1. /\ first \in {RagStage, SqlStage, PanelStage}
          /\ first = SqlStage => req.tables
          /\ first = PanelStage => st'.routed = "high_risk_panel"
      BY <2>1, <2>3, FirstStageGranted
    <3>2. st'.routed # NoAccess
      BY <2>1 DEF Routes, NoAccess
    <3>3. node' = "escalation_manager" \/ (node' = first /\ ~Stopped(st'))
      BY <1>1, <2>2, <2>3, <3>2 DEF AfterPlanner
    <3> HIDE DEF first
    <3>4. QED
      BY <2>1, <2>3, <3>1, <3>3 DEF StageNodes
  <2>5. TypeOK'
    BY <1>1, <1>5, <2>4, RunsFacts DEF Nodes, StageNodes
  <2>6. Grows
    BY <1>1, <2>1, <2>3, RunsFacts, GrowStep
  <2>7. RepairHeadroom > 0 => Bounded'
    <3>1. StepsBefore(node) + 1 <= StepsBefore(node')
      BY <1>1, <2>4, RunsFacts, StepsTable DEF StageNodes
    <3>2. QED
      BY <1>1, <2>1, <2>5, <3>1, RunsFacts, CountStep
  <2>8. Granted(st)'
    BY <1>3, <2>1, <2>3 DEF Granted, HighRisk
  <2>9. CASE node' = "escalation_manager"
    BY <1>3, <2>1, <2>5, <2>6, <2>7, <2>8, <2>9, ExitStep DEF Exits
  <2>10. CASE node' # "escalation_manager"
    <3>1. st'.verdict = "none"
      BY <1>3, <2>1, <2>4, <2>10 DEF Stopped
    <3>2. QED
      BY <1>3, <2>1, <2>2, <2>3, <2>4, <2>5, <2>6, <2>7, <2>8, <2>10, <3>1, StageStep
  <2>11. QED
    BY <2>9, <2>10
<1>9. QED
  BY <1>2, <1>6, <1>7, <1>8, PlannerResult

\* The validator, with nothing against the run so far.
LEMMA ValidationEntry ==
    ASSUME node' = Validation, ~Stopped(st'), st'.outcome # "answered",
           st'.verdict = "none", Granted(st)', RepairHeadroom > 0 => Bounded'
    PROVE  Control'
<1> USE DEF Early, StageNodes, RagStage, SqlStage, PanelStage, Validation
<1>1. RouteIsGranted'
  BY DEF RouteIsGranted
<1>2. NothingStands'
  BY DEF NothingStands, Stopped
<1>3. VerdictFits'
  BY DEF VerdictFits
<1>4. RepairIsAffordable'
  BY DEF RepairIsAffordable
<1>5. QED
  BY <1>1, <1>2, <1>3, <1>4 DEF Control

\* The fields a gathering or writing stage leaves alone.
Gathering(r) ==
    /\ r.risk = st.risk /\ r.routed = st.routed
    /\ r.verdict = st.verdict /\ r.reflections = st.reflections
    /\ r.outcome = st.outcome

\* A stage that only gathers and writes: the next node is decided on its route.
LEMMA StageLeaves ==
    ASSUME TypeOK, TypeOK', Control, node \in StageNodes, req' = req, steps' = steps + 1,
           Gathering(st'), Grown(st'), st'.split => HighRisk(st), 
           StepsBefore(node) + 1 <= StepsBefore(node'),
           \/ node' = "escalation_manager"
           \/ /\ ~Stopped(st')
              /\ \/ node' = "no_answer" /\ ~HighRisk(st) /\ ~req.human
                 \/ node' = Validation
                 \/ node' \in {SqlStage, PanelStage} /\ (node' = SqlStage => req.tables)
                       /\ (node' = PanelStage => HighRisk(st))
    PROVE  Control' /\ Grows
<1>1. /\ st.verdict = "none" /\ Granted(st) /\ CurrentRoute(st) \in Routes
      /\ st.outcome # "answered"
  BY DEF Control, VerdictFits, RouteIsGranted, NothingStands, StageNodes,
         RagStage, SqlStage, PanelStage
<1>2. HighRisk(st') = HighRisk(st) /\ CurrentRoute(st') = CurrentRoute(st)
  BY DEF Gathering, HighRisk, CurrentRoute
<1>3. Granted(st)'
  BY <1>1, <1>2 DEF Granted, Gathering
<1>4. RepairHeadroom > 0 => Bounded'
  BY CountStep DEF Gathering
<1>5. Grows
  BY <1>1, <1>2, GrowStep DEF Gathering
<1>6. st'.outcome # "answered" /\ st'.verdict = "none"
  BY <1>1 DEF Gathering
<1>7. CASE node' = "escalation_manager"
  BY <1>3, <1>4, <1>5, <1>6, <1>7, ExitStep DEF Exits
<1>8. CASE node' = "no_answer"
  <2>1. ~NeedsPerson'
    <3>1. ~Stopped(st') /\ ~HighRisk(st) /\ ~req.human
      BY <1>8 DEF Validation, SqlStage, PanelStage
    <3>2. QED
      BY <1>2, <1>3, <1>6, <3>1 DEF NeedsPerson, Stopped, Granted
  <2>2. QED
    BY <1>3, <1>4, <1>5, <1>6, <1>8, <2>1, NoAnswerEntry
<1>9. CASE node' = Validation /\ ~Stopped(st')
  BY <1>3, <1>4, <1>5, <1>6, <1>9, ValidationEntry
<1>10. CASE node' \in {SqlStage, PanelStage} /\ ~Stopped(st')
  BY <1>1, <1>2, <1>3, <1>4, <1>5, <1>6, <1>10, StageStep
     DEF StageNodes, SqlStage, PanelStage, Validation
<1>11. QED
  BY <1>7, <1>8, <1>9, <1>10

LEMMA RagPathStep ==
    ASSUME TypeOK, Control, RagPath
    PROVE  TypeOK' /\ Control' /\ Grows
<1>1. /\ Runs(RagStage, UNION {WrittenFromClauses(g) : g \in Gathered(st)})
      /\ node' = AfterRagPath(st')
  BY DEF RagPath
<1>2. /\ node = RagStage /\ node \in StageNodes /\ req' = req /\ steps' = steps + 1
  BY <1>1, RunsFacts DEF StageNodes
<1>3. \/ \E g \in Gathered(st) : st' \in WrittenFromClauses(g)
      \/ st' = BudgetStop(st)
  BY <1>1, RunsFacts
<1>4. /\ st \in States /\ Granted(st) /\ CurrentRoute(st) \in Routes
      /\ req.tables \in BOOLEAN /\ req.docs \in BOOLEAN
      /\ st.tokens \in Nat /\ st.deadline \in Nat
  BY <1>2 DEF TypeOK, States, Deadlines, Control, RouteIsGranted, Requests
<1>5. st' \in States
  BY <1>3, <1>4, WrittenType, MeterUpdates
<1>6. Gathering(st') /\ Grown(st') /\ st'.split = st.split
  <2>1. CASE st' = BudgetStop(st)
    BY <2>1, StopFacts DEF Kept, Gathering
  <2>2. ASSUME NEW g \in Gathered(st), st' \in WrittenFromClauses(g)
        PROVE  Gathering(st') /\ Grown(st') /\ st'.split = st.split
    <3>1. PICK c \in {"none", "unmatched", "matched"}, t \in DuringNode :
              g = Degrade([st EXCEPT !.clauses = c, !.path = CurrentRoute(st)],
                          Remaining(st, t) < RerankMin)
      BY DEF Gathered
    <3> DEFINE found == [st EXCEPT !.clauses = c, !.path = CurrentRoute(st)]
    <3>2. found \in States
      BY <1>4, EvidenceUpdates, Zenon
    <3>3. Gathering(found) /\ Grown(found) /\ found.split = st.split
      BY <1>4 DEF Gathering, Grown, States
    <3>4. g = found \/ g = [found EXCEPT !.degraded = TRUE]
      BY <3>1 DEF Degrade
    <3>5. g \in States
      BY <3>1, <3>2, MeterUpdates
    <3> HIDE DEF found
    <3>6. Gathering(g) /\ Grown(g) /\ g.split = st.split
      BY <3>2, <3>3, <3>4 DEF Gathering, Grown, States
    <3>7. g.tokens \in Nat /\ g.deadline \in Nat
      BY <3>5 DEF States, Deadlines
    <3>8. \/ st' = [g EXCEPT !.draft = FALSE]
          \/ st' = [g EXCEPT !.draft = FALSE, !.missing = "no_match"]
          \/ st' = [Spend(g, 30) EXCEPT !.draft = TRUE]
          \/ st' = [Spend(g, 30) EXCEPT !.draft = FALSE, !.missing = "not_in_extracts"]
      BY <2>2 DEF WrittenFromClauses
    <3>9. /\ Gathering(st') /\ st'.split = g.split /\ st'.deadline = g.deadline
          /\ st'.degraded = g.degraded /\ st'.stopped = g.stopped /\ st'.reason = g.reason
          /\ st'.tokens = g.tokens \/ st'.tokens = g.tokens + 30
      <4>1. CASE st' = [g EXCEPT !.draft = FALSE]
        BY <3>5, <3>6, <4>1 DEF Gathering, States
      <4>2. CASE st' = [g EXCEPT !.draft = FALSE, !.missing = "no_match"]
        BY <3>5, <3>6, <4>2 DEF Gathering, States
      <4>3. CASE st' = [Spend(g, 30) EXCEPT !.draft = TRUE]
        BY <3>5, <3>6, <3>7, <4>3 DEF Gathering, Spend, States
      <4>4. CASE st' = [Spend(g, 30) EXCEPT !.draft = FALSE, !.missing = "not_in_extracts"]
        BY <3>5, <3>6, <3>7, <4>4 DEF Gathering, Spend, States
      <4>5. QED
        BY <3>8, <4>1, <4>2, <4>3, <4>4
    <3>10. QED
      BY <1>4, <3>6, <3>7, <3>9 DEF Grown
  <2>3. QED
    BY <1>3, <2>1, <2>2
<1>7. HighRisk(st') = HighRisk(st) /\ CurrentRoute(st') = CurrentRoute(st)
  BY <1>6 DEF Gathering, HighRisk, CurrentRoute
<1>8. \/ node' = "escalation_manager"
      \/ /\ ~Stopped(st')
         /\ \/ node' = "no_answer" /\ ~HighRisk(st) /\ ~req.human
            \/ node' = Validation
            \/ node' \in {SqlStage, PanelStage} /\ (node' = SqlStage => req.tables)
                  /\ (node' = PanelStage => HighRisk(st))
  <2> DEFINE route == CurrentRoute(st)
             next == NextStage(RagStage, route, req.tables, req.docs)
  <2>1. route \in {"nl2sql", "hybrid"} => req.tables
    BY <1>4 DEF CurrentRoute, Granted
  <2>2. route = "high_risk_panel" => HighRisk(st)
    BY <1>4 DEF CurrentRoute, Granted
  <2>3. route = "rag" => ~HighRisk(st)
    BY DEF CurrentRoute
  <2>4. route \in Routes
    BY <1>4
  <2> HIDE DEF route
  <2>5. /\ next \in {SqlStage, PanelStage, Validation}
        /\ next = SqlStage => req.tables
        /\ next = PanelStage => HighRisk(st)
    BY <1>4, <2>1, <2>2, <2>4, NextStageGranted
  <2>6. \/ node' = "escalation_manager"
        \/ node' = "no_answer" /\ route = "rag" /\ ~req.human /\ ~Stopped(st')
        \/ node' = next /\ ~Stopped(st')
    BY <1>1, <1>7 DEF AfterRagPath, AnswerNotInDocuments, Next_Stage, route
  <2> HIDE DEF next
  <2>7. QED
    BY <2>3, <2>5, <2>6
<1>9. TypeOK'
  BY <1>1, <1>5, <1>8, RunsFacts DEF Nodes
<1>10. StepsBefore(node) + 1 <= StepsBefore(node')
  BY <1>2, <1>8, StepsTable
<1>11. st'.split => HighRisk(st)
  BY <1>4, <1>6 DEF Granted
<1>12. QED
  BY <1>2, <1>6, <1>8, <1>9, <1>10, <1>11, StageLeaves

LEMMA SqlPathStep ==
    ASSUME TypeOK, Control, SqlPath
    PROVE  TypeOK' /\ Control' /\ Grows
<1> DEFINE results == IF CurrentRoute(st) = "high_risk_panel" THEN RecordsForPanel(st)
                      ELSE IF CurrentRoute(st) = "hybrid" THEN ReconciledWithPolicy(st)
                      ELSE RecordsAnswer(st)
<1>1. Runs(SqlStage, results) /\ node' = AfterSqlPath(st')
  BY DEF SqlPath
<1>2. node = SqlStage /\ node \in StageNodes /\ req' = req /\ steps' = steps + 1
  BY <1>1, RunsFacts DEF StageNodes
<1>3. \/ st' \in RecordsForPanel(st) \cup ReconciledWithPolicy(st) \cup RecordsAnswer(st)
      \/ st' = BudgetStop(st)
  BY <1>1, RunsFacts
<1>4. /\ st \in States /\ Granted(st) /\ CurrentRoute(st) \in Routes /\ req.tables
      /\ req.tables \in BOOLEAN /\ req.docs \in BOOLEAN
      /\ st.tokens \in Nat /\ st.deadline \in Nat
  BY <1>2 DEF TypeOK, States, Deadlines, Control, RouteIsGranted, Requests
<1>5. st' \in States
  BY <1>3, <1>4, RecordsType, MeterUpdates
<1>6. Gathering(st') /\ Grown(st') /\ st'.split = st.split
  <2>1. CASE st' = BudgetStop(st)
    BY <2>1, StopFacts DEF Kept, Gathering
  <2>2. CASE st' \in RecordsForPanel(st)
    <3>1. PICK b : st' = [Spend(st, 6) EXCEPT !.path = "high_risk_panel", !.rows = b]
      BY <2>2 DEF RecordsForPanel
    <3>2. QED
      BY <1>4, <3>1 DEF Spend, Gathering, Grown, States
  <2>3. CASE st' \in ReconciledWithPolicy(st)
    <3>1. PICK b :
              \/ st' = [Spend(st, 6) EXCEPT !.path = "hybrid", !.rows = FALSE,
                                            !.missing = "no_evidence"]
              \/ st' = [Spend(st, 40) EXCEPT !.path = "hybrid", !.rows = b, !.draft = TRUE]
      BY <2>3 DEF ReconciledWithPolicy
    <3>2. CASE st' = [Spend(st, 6) EXCEPT !.path = "hybrid", !.rows = FALSE,
                                          !.missing = "no_evidence"]
      BY <1>4, <3>2 DEF Spend, Gathering, Grown, States
    <3>3. CASE st' = [Spend(st, 40) EXCEPT !.path = "hybrid", !.rows = b, !.draft = TRUE]
      BY <1>4, <3>3 DEF Spend, Gathering, Grown, States
    <3>4. QED
      BY <3>1, <3>2, <3>3
  <2>4. CASE st' \in RecordsAnswer(st)
    <3> DEFINE told == [Spend(st, 15) EXCEPT !.path = "nl2sql", !.rows = TRUE, !.draft = TRUE]
    <3>1. \/ \E worse \in BOOLEAN : st' = Degrade(told, worse)
          \/ st' = [Spend(st, 9) EXCEPT !.path = "nl2sql", !.draft = TRUE,
                                        !.missing = "no_records"]
      BY <2>4 DEF RecordsAnswer
    <3>2. Gathering(told) /\ Grown(told) /\ told.split = st.split
      BY <1>4 DEF Spend, Gathering, Grown, States
    <3>3. told \in States
      <4>1. Spend(st, 15) \in States /\ "nl2sql" \in Routes /\ TRUE \in BOOLEAN
        BY <1>4, MeterUpdates, Values
      <4>2. QED
        BY <4>1, EvidenceUpdates, Zenon
    <3> HIDE DEF told
    <3>4. CASE st' = [Spend(st, 9) EXCEPT !.path = "nl2sql", !.draft = TRUE,
                                          !.missing = "no_records"]
      BY <1>4, <3>4 DEF Spend, Gathering, Grown, States
    <3>5. CASE st' = told \/ st' = [told EXCEPT !.degraded = TRUE]
      BY <3>2, <3>3, <3>5 DEF Gathering, Grown, States
    <3>6. QED
      BY <3>1, <3>4, <3>5 DEF Degrade
  <2>5. QED
    BY <1>3, <2>1, <2>2, <2>3, <2>4
<1>7. HighRisk(st') = HighRisk(st) /\ CurrentRoute(st') = CurrentRoute(st)
  BY <1>6 DEF Gathering, HighRisk, CurrentRoute
<1>8. \/ node' = "escalation_manager"
      \/ /\ ~Stopped(st')
         /\ \/ node' = "no_answer" /\ ~HighRisk(st) /\ ~req.human
            \/ node' = Validation
            \/ node' = PanelStage /\ HighRisk(st)
  <2> DEFINE route == CurrentRoute(st)
             next == NextStage(SqlStage, route, req.tables, req.docs)
  <2>1. route = "high_risk_panel" => HighRisk(st)
    BY <1>4 DEF CurrentRoute, Granted
  <2>2. route \in {"nl2sql", "hybrid"} => ~HighRisk(st)
    BY DEF CurrentRoute
  <2>3. route \in Routes
    BY <1>4
  <2> HIDE DEF route
  <2>4. next \in {PanelStage, Validation} /\ (next = PanelStage => HighRisk(st))
    BY <1>4, <2>1, <2>3, NextStageGranted
  <2>5. \/ node' = "escalation_manager"
        \/ /\ node' = "no_answer" /\ route \in {"nl2sql", "hybrid"}
           /\ ~req.human /\ ~Stopped(st')
        \/ node' = next /\ ~Stopped(st')
    BY <1>1, <1>7 DEF AfterSqlPath, Next_Stage, route
  <2> HIDE DEF next
  <2>6. QED
    BY <2>2, <2>4, <2>5
<1>9. TypeOK'
  BY <1>1, <1>5, <1>8, RunsFacts DEF Nodes
<1>10. StepsBefore(node) + 1 <= StepsBefore(node')
  BY <1>2, <1>8, StepsTable
<1>11. st'.split => HighRisk(st)
  BY <1>4, <1>6 DEF Granted
<1>12. node' # SqlStage
  BY <1>8 DEF SqlStage, PanelStage, Validation
<1>13. QED
  BY <1>2, <1>6, <1>8, <1>9, <1>10, <1>11, <1>12, StageLeaves

LEMMA MultiAgentPanelStep ==
    ASSUME TypeOK, Control, MultiAgentPanel
    PROVE  TypeOK' /\ Control' /\ Grows
<1> DEFINE agreed == [Spend(st, 70) EXCEPT !.path = "high_risk_panel", !.draft = TRUE,
                                           !.split = FALSE]
           repaired(b) == [Spend(st, 95) EXCEPT !.path = "high_risk_panel",
                                                !.draft = TRUE, !.split = b]
           results == {agreed} \cup {repaired(b) : b \in BOOLEAN}
<1>1. Runs(PanelStage, results) /\ node' = AfterPanel(st')
  BY DEF MultiAgentPanel
<1>2. node = PanelStage /\ node \in StageNodes /\ req' = req /\ steps' = steps + 1
  BY <1>1, RunsFacts DEF StageNodes
<1>3. st' = agreed \/ (\E b \in BOOLEAN : st' = repaired(b)) \/ st' = BudgetStop(st)
  <2> HIDE DEF agreed, repaired, results
  <2>1. st' \in results \/ st' = BudgetStop(st)
    BY <1>1, RunsFacts
  <2>2. QED
    BY <2>1 DEF results
<1>4. /\ st \in States /\ HighRisk(st) /\ st.tokens \in Nat /\ st.deadline \in Nat
  BY <1>2 DEF TypeOK, States, Deadlines, Control, RouteIsGranted
<1>5. st' \in States
  <2>1. /\ Spend(st, 70) \in States /\ Spend(st, 95) \in States
        /\ BudgetStop(st) \in States
        /\ "high_risk_panel" \in Routes /\ FALSE \in BOOLEAN
    BY <1>4, MeterUpdates, Values
  <2>2. agreed \in States /\ \A b \in BOOLEAN : repaired(b) \in States
    BY <2>1, EvidenceUpdates, Zenon
  <2> HIDE DEF agreed, repaired
  <2>3. QED
    BY <1>3, <2>1, <2>2
<1>6. Gathering(st') /\ Grown(st')
  <2>1. CASE st' = BudgetStop(st)
    BY <2>1, StopFacts DEF Kept, Gathering
  <2>2. CASE st' = agreed
    BY <1>4, <2>2 DEF Spend, Gathering, Grown, States
  <2>3. ASSUME NEW b \in BOOLEAN, st' = repaired(b)
        PROVE  Gathering(st') /\ Grown(st')
    BY <1>4, <2>3 DEF Spend, Gathering, Grown, States
  <2>4. QED
    BY <1>3, <2>1, <2>2, <2>3
<1>7. node' = "escalation_manager" \/ (node' = Validation /\ ~Stopped(st'))
  BY <1>1 DEF AfterPanel
<1>8. TypeOK'
  BY <1>1, <1>5, <1>7, RunsFacts DEF Nodes
<1>9. StepsBefore(node) + 1 <= StepsBefore(node')
  BY <1>2, <1>7, StepsTable
<1>10. QED
  BY <1>2, <1>4, <1>6, <1>7, <1>8, <1>9, StageLeaves

\* A failed verdict goes to the repair only within the attempts and the budget.
LEMMA RepairFits ==
    ASSUME NEW s \in States, NEW t \in Nat, CanRepair(s, t)
    PROVE  /\ s.reflections < MaxReflections
           /\ Remaining(s, t) >= RepairHeadroom
           /\ TokensLeft(s) >= TokenEstimate("reflection")
<1>1. s.reflections < MaxReflections
  <2>1. \A n \in Nat : Capped(n) \in Nat /\ Capped(n) <= MaxReflections
    BY DEF Capped
  <2>2. RepairsAllowed(s) \in Nat /\ RepairsAllowed(s) <= MaxReflections
    BY <2>1 DEF RepairsAllowed
  <2>3. s.reflections \in Nat
    BY DEF States
  <2>4. QED
    BY <2>2, <2>3 DEF CanRepair
<1>2. TokensLeft(s) >= TokenEstimate("reflection")
  <2> DEFINE route == Stages(s)
             Cost(stage) == IF \E i \in 1..Len(route) : route[i] = stage
                            THEN TokenEstimate(stage) ELSE 0
  <2>1. \A n \in {"reflection", "planner", RagStage, SqlStage, PanelStage, Validation} :
            TokenEstimate(n) \in Nat
    BY DEF TokenEstimate, NodeTokens, RagStage, SqlStage, PanelStage, Validation
  <2>2. \A n \in {RagStage, SqlStage, PanelStage} : Cost(n) \in Nat
    BY <2>1
  <2>3. RepairEstimate(s) =
            TokenEstimate("reflection") + TokenEstimate("planner")
              + Cost(RagStage) + Cost(SqlStage) + Cost(PanelStage)
              + TokenEstimate(Validation)
    BY DEF RepairEstimate
  <2> HIDE DEF Cost
  <2>4. TokensLeft(s) \in Int
    BY DEF TokensLeft, States
  <2>5. QED
    BY <2>1, <2>2, <2>3, <2>4 DEF CanRepair
<1>3. QED
  BY <1>1, <1>2 DEF CanRepair

LEMMA ComplianceValidationStep ==
    ASSUME TypeOK, Control, ComplianceValidation
    PROVE  TypeOK' /\ Control' /\ Grows
<1> DEFINE results == {[Spend(st, j[2]) EXCEPT !.verdict = j[1]] : j \in Judgements(st)}
<1>1. Runs(Validation, results) /\ node' = AfterValidation(st', now')
  BY DEF ComplianceValidation
<1>2. node = Validation /\ req' = req /\ steps' = steps + 1 /\ now' \in Nat
  BY <1>1, RunsFacts
<1>3. \/ \E v \in {"passed", "failed", "conflict"}, k \in Nat :
            st' = [Spend(st, k) EXCEPT !.verdict = v]
      \/ st' = BudgetStop(st)
  <2>1. \A j \in Judgements(st) : j[1] \in {"passed", "failed", "conflict"} /\ j[2] \in Nat
    BY JudgementType
  <2>2. st' \in results \/ st' = BudgetStop(st)
    BY <1>1, RunsFacts
  <2>3. QED
    BY <2>1, <2>2
<1>4. /\ st \in States /\ Granted(st) /\ ~Stopped(st) /\ st.verdict = "none"
      /\ st.outcome # "answered" /\ st.tokens \in Nat /\ st.deadline \in Nat
  BY <1>2 DEF TypeOK, States, Deadlines, Control, RouteIsGranted, NothingStands,
              VerdictFits, Validation
<1>5. st' \in States
  <2>1. \A k \in Nat : Spend(st, k) \in States
    BY <1>4, MeterUpdates
  <2>2. \A v \in {"passed", "failed", "conflict"}, k \in Nat :
            [Spend(st, k) EXCEPT !.verdict = v] \in States
    BY <2>1, VerdictUpdates, Zenon
  <2>3. QED
    BY <1>3, <1>4, <2>2, MeterUpdates
<1> DEFINE Judged(r) ==
        /\ r.risk = st.risk /\ r.routed = st.routed /\ r.split = st.split
        /\ r.reflections = st.reflections /\ r.outcome = st.outcome
        /\ Grown(r)
        /\ \/ ~Stopped(r) /\ r.verdict \in {"passed", "failed", "conflict"}
           \/ r.stopped
<1>6. Judged(st')
  <2>1. CASE st' = BudgetStop(st)
    BY <2>1, StopFacts DEF Kept
  <2>2. ASSUME NEW v \in {"passed", "failed", "conflict"}, NEW k \in Nat,
               st' = [Spend(st, k) EXCEPT !.verdict = v]
        PROVE  Judged(st')
    BY <1>4, <2>2 DEF Spend, Grown, Stopped, States
  <2>3. QED
    BY <1>3, <2>1, <2>2
<1>7. \/ node' = "escalation_manager"
      \/ node' = "confidence_scoring" /\ ~Stopped(st') /\ st'.verdict = "passed"
      \/ /\ node' = "no_answer" /\ ~Stopped(st') /\ st'.verdict = "failed"
         /\ ~HighRisk(st') /\ ~req.human
      \/ /\ node' = "reflection" /\ ~Stopped(st') /\ st'.verdict = "failed"
         /\ CanRepair(st', now')
  BY <1>1, <1>2, <1>6 DEF AfterValidation
<1>8. TypeOK'
  BY <1>1, <1>5, <1>7, RunsFacts DEF Nodes
<1>9. Grows
  BY <1>2, <1>4, <1>6, GrowStep DEF HighRisk
<1>10. RepairHeadroom > 0 => Bounded'
  BY <1>2, <1>6, <1>7, <1>8, StepsTable, CountStep
<1>11. Granted(st)'
  BY <1>2, <1>4, <1>6 DEF Granted, HighRisk
<1>12. st'.outcome # "answered"
  BY <1>4, <1>6
<1>13. CASE node' = "escalation_manager"
  BY <1>8, <1>9, <1>10, <1>11, <1>12, <1>13, ExitStep DEF Exits
<1>14. CASE node' = "no_answer"
  <2>1. ~NeedsPerson'
    BY <1>2, <1>7, <1>11, <1>14 DEF NeedsPerson, Stopped, Granted
  <2>2. QED
    BY <1>8, <1>9, <1>10, <1>11, <1>12, <1>14, <2>1, NoAnswerEntry
<1>15. CASE node' \in {"confidence_scoring", "reflection"}
  <2> USE DEF Early, StageNodes, RagStage, SqlStage, PanelStage, Validation
  <2>1. RouteIsGranted'
    BY <1>11, <1>15 DEF RouteIsGranted
  <2>2. NothingStands'
    BY <1>7, <1>12, <1>15 DEF NothingStands, Stopped
  <2>3. VerdictFits'
    BY <1>7, <1>15 DEF VerdictFits
  <2>4. RepairIsAffordable'
    <3>1. ASSUME node' = "reflection"
          PROVE  CanRepair(st', now')
      BY <1>7, <3>1
    <3>2. QED
      BY <1>2, <1>5, <3>1, RepairFits DEF RepairIsAffordable
  <2>5. QED
    BY <1>8, <1>9, <1>10, <2>1, <2>2, <2>3, <2>4 DEF Control
<1>16. QED
  BY <1>7, <1>13, <1>14, <1>15

LEMMA ReflectionStep ==
    ASSUME TypeOK, Control, Reflection
    PROVE  TypeOK' /\ Control' /\ Grows
<1>1. Runs("reflection", Reflected(st)) /\ node' = "planner"
  BY DEF Reflection
<1>2. node = "reflection" /\ req' = req /\ steps' = steps + 1 /\ now \in Nat
  BY <1>1, RunsFacts
<1>3. \/ st' \in Reflected(st)
      \/ st' = BudgetStop(st) /\ ~Allowed("reflection", st, now)
  BY <1>1, RunsFacts
<1>4. /\ st \in States /\ Granted(st) /\ st.verdict = "failed" /\ ~Stopped(st)
      /\ st.outcome # "answered" /\ st.reflections < MaxReflections
      /\ Remaining(st, now) >= RepairHeadroom
      /\ TokensLeft(st) >= TokenEstimate("reflection")
      /\ st.tokens \in Nat /\ st.deadline \in Nat /\ st.reflections \in Nat
  BY <1>2 DEF TypeOK, States, Deadlines, Control, RouteIsGranted, NothingStands,
              VerdictFits, RepairIsAffordable
<1>5. st' \in States
  BY <1>3, <1>4, ReflectedType, MeterUpdates
<1> DEFINE Core(r) ==
        /\ r.risk = st.risk /\ r.routed = st.routed /\ r.split = st.split
        /\ r.outcome = st.outcome /\ Grown(r)
        /\ r.verdict = "none" \/ r.reason
<1>6. /\ Core(st')
      /\ \/ st'.reflections = st.reflections + 1
         \/ st'.reflections = st.reflections /\ ~Allowed("reflection", st, now)
  <2>1. CASE st' = BudgetStop(st) /\ ~Allowed("reflection", st, now)
    BY <2>1, StopFacts DEF Kept
  <2>2. ASSUME NEW y, st' = Repaired(st, y)
        PROVE  Core(st') /\ st'.reflections = st.reflections + 1
    BY <1>4, <2>2 DEF Repaired, Grown, States
  <2>3. CASE st' = [Spend(st, 9) EXCEPT !.reason = TRUE, !.reflections = @ + 1]
    BY <1>4, <2>3 DEF Spend, Grown, States
  <2>4. ASSUME NEW p \in EvidencePaths,
               st' = [Repaired(Spend(st, 9), "llm_replan") EXCEPT !.plan = p]
        PROVE  Core(st') /\ st'.reflections = st.reflections + 1
    BY <1>4, <2>4 DEF Repaired, Spend, Grown, States
  <2>5. CASE st' \in Reflected(st)
    <3>1. \/ \E y \in {"rag_widen_and_fix", "sql_renarrate", "hybrid_redraft"} :
                st' = Repaired(st, y)
          \/ st' = [Spend(st, 9) EXCEPT !.reason = TRUE, !.reflections = @ + 1]
          \/ \E p \in EvidencePaths :
                st' = [Repaired(Spend(st, 9), "llm_replan") EXCEPT !.plan = p]
      BY <2>5 DEF Reflected
    <3>2. QED
      BY <2>2, <2>3, <2>4, <3>1
  <2>6. QED
    BY <1>3, <2>1, <2>5
<1>7. TypeOK'
  BY <1>1, <1>5, RunsFacts DEF Nodes
<1>8. Grows
  BY <1>2, <1>4, <1>6, GrowStep DEF HighRisk
<1>9. RepairHeadroom > 0 => Bounded'
  <2> SUFFICES ASSUME RepairHeadroom > 0
               PROVE  Bounded'
    OBVIOUS
  <2>1. Allowed("reflection", st, now)
    <3>1. Remaining(st, now) > -Grace("reflection", st)
      BY <1>2, <1>4 DEF Grace, Remaining, Validation
    <3>2. QED
      BY <1>4, <3>1 DEF Allowed
  <2>2. st'.reflections = st.reflections + 1
    BY <1>6, <2>1
  <2>3. steps \in Nat /\ steps <= 10 + 6 * st.reflections
    BY <1>2, StepsTable DEF TypeOK, Control, Bounded
  <2>4. QED
    BY <1>1, <1>2, <1>4, <2>2, <2>3, StepsTable DEF Bounded
<1>10. Granted(st)'
  BY <1>2, <1>4, <1>6 DEF Granted, HighRisk
<1>11. Control'
  BY <1>1, <1>4, <1>6, <1>9, <1>10
     DEF Control, RouteIsGranted, NothingStands, VerdictFits, RepairIsAffordable,
         Early, StageNodes, RagStage, SqlStage, PanelStage, Validation
<1>12. QED
  BY <1>7, <1>8, <1>11

LEMMA ConfidenceScoringStep ==
    ASSUME TypeOK, Control, ConfidenceScoring
    PROVE  TypeOK' /\ Control' /\ Grows
<1> DEFINE results == {[st EXCEPT !.confident = c] : c \in {"below", "above"}}
<1>1. Runs("confidence_scoring", results) /\ node' = AfterConfidence(st')
  BY DEF ConfidenceScoring
<1>2. node = "confidence_scoring" /\ req' = req /\ steps' = steps + 1
  BY <1>1, RunsFacts
<1>3. \/ \E c \in {"below", "above"} : st' = [st EXCEPT !.confident = c]
      \/ st' = BudgetStop(st)
  BY <1>1, RunsFacts
<1>4. /\ st \in States /\ Granted(st) /\ st.verdict = "passed" /\ st.outcome # "answered"
      /\ st.tokens \in Nat /\ st.deadline \in Nat
  BY <1>2 DEF TypeOK, States, Deadlines, Control, RouteIsGranted, NothingStands, VerdictFits
<1>5. st' \in States
  BY <1>3, <1>4, VerdictUpdates, MeterUpdates
<1> DEFINE Core(r) ==
        /\ r.risk = st.risk /\ r.routed = st.routed /\ r.split = st.split
        /\ r.outcome = st.outcome /\ r.verdict = st.verdict
        /\ r.reflections = st.reflections /\ Grown(r)
<1>6. Core(st')
  <2>1. CASE st' = BudgetStop(st)
    BY <2>1, StopFacts DEF Kept
  <2>2. ASSUME NEW c \in {"below", "above"}, st' = [st EXCEPT !.confident = c]
        PROVE  Core(st')
    BY <1>4, <2>2 DEF Grown, States
  <2>3. QED
    BY <1>3, <2>1, <2>2
<1>7. \/ node' = "escalation_manager"
      \/ /\ node' = "output_guardrail" /\ ~Stopped(st') /\ ~HighRisk(st') /\ ~st'.split
         /\ ~req.human /\ st'.confident = "above" /\ st'.verdict # "conflict"
  BY <1>1 DEF AfterConfidence
<1>8. TypeOK'
  BY <1>1, <1>5, <1>7, RunsFacts DEF Nodes
<1>9. Grows
  BY <1>2, <1>6, GrowStep DEF HighRisk
<1>10. RepairHeadroom > 0 => Bounded'
  BY <1>2, <1>6, <1>7, <1>8, StepsTable, CountStep
<1>11. Granted(st)'
  BY <1>2, <1>4, <1>6 DEF Granted, HighRisk
<1>12. CASE node' = "escalation_manager"
  BY <1>4, <1>6, <1>8, <1>9, <1>10, <1>11, <1>12, ExitStep DEF Exits
<1>13. CASE node' = "output_guardrail"
  <2>1. ~NeedsPerson' /\ Certified(st')
    BY <1>2, <1>4, <1>6, <1>7, <1>13 DEF NeedsPerson, Certified, Stopped
  <2>2. QED
    BY <1>4, <1>6, <1>8, <1>9, <1>10, <1>11, <1>13, <2>1
       DEF Control, RouteIsGranted, NothingStands, VerdictFits, RepairIsAffordable,
           Early, StageNodes, RagStage, SqlStage, PanelStage, Validation
<1>14. QED
  BY <1>7, <1>12, <1>13

\* The release-tier nodes are never refused.
LEMMA NeverRefused ==
    ASSUME NEW n \in ReleaseTier, NEW s, NEW t
    PROVE  Allowed(n, s, t)
BY DEF Allowed

LEMMA NoAnswerStep ==
    ASSUME TypeOK, Control, NoAnswer
    PROVE  TypeOK' /\ Control' /\ Grows
<1> DEFINE reason == IF st.missing = "none" THEN "no_match" ELSE st.missing
           unknown == [st EXCEPT !.draft = TRUE, !.confident = "below", !.unknown = TRUE,
                                 !.missing = reason]
<1>1. Runs("no_answer", {unknown}) /\ node' = "output_guardrail"
  <2>1. unknown = [st EXCEPT !.draft = TRUE, !.confident = "below", !.unknown = TRUE,
                             !.missing = IF @ = "none" THEN "no_match" ELSE @]
    BY DEF TypeOK, States
  <2>2. QED
    BY <2>1 DEF NoAnswer
<1>2. /\ node = "no_answer" /\ req' = req /\ steps' = steps + 1
      /\ st' = unknown
  BY <1>1, RunsFacts, NeverRefused DEF ReleaseTier
<1>3. /\ st \in States /\ Granted(st) /\ st.outcome # "answered" /\ ~NeedsPerson
      /\ st.tokens \in Nat /\ st.deadline \in Nat
  BY <1>2 DEF TypeOK, States, Deadlines, Control, RouteIsGranted, NothingStands
<1>4. reason \in NotFoundReasons
  BY <1>3, Values DEF States
<1> HIDE DEF reason
<1>5. unknown \in States
  BY <1>3, <1>4, VerdictUpdates, Zenon
<1>6. /\ st'.risk = st.risk /\ st'.routed = st.routed /\ st'.split = st.split
      /\ st'.outcome = st.outcome /\ st'.verdict = st.verdict /\ st'.unknown
      /\ st'.reflections = st.reflections /\ Grown(st') /\ st'.reason = st.reason
      /\ st'.stopped = st.stopped
  BY <1>2, <1>3 DEF Grown, States
<1>7. TypeOK'
  BY <1>1, <1>2, <1>5, RunsFacts DEF Nodes
<1>8. Grows
  BY <1>2, <1>6, GrowStep DEF HighRisk
<1>9. RepairHeadroom > 0 => Bounded'
  BY <1>1, <1>2, <1>6, <1>7, StepsTable, CountStep
<1>10. Granted(st)' /\ ~NeedsPerson' /\ Certified(st')
  BY <1>2, <1>3, <1>6 DEF Granted, HighRisk, NeedsPerson, Certified
<1>11. Control'
  BY <1>1, <1>3, <1>6, <1>9, <1>10
     DEF Control, RouteIsGranted, NothingStands, VerdictFits, RepairIsAffordable,
         Early, StageNodes, RagStage, SqlStage, PanelStage, Validation
<1>12. QED
  BY <1>7, <1>8, <1>11

LEMMA OutputGuardrailStep ==
    ASSUME TypeOK, Control, OutputGuardrail
    PROVE  TypeOK' /\ Control' /\ Grows
<1> DEFINE blocked == [st EXCEPT !.outcome = "escalated", !.reason = TRUE]
           released == [st EXCEPT !.outcome = "answered", !.reason = FALSE]
           results == {blocked} \cup (IF st.draft THEN {released} ELSE {})
<1>1. Runs("output_guardrail", results) /\ node' = AfterOutputGuardrail(st')
  BY DEF OutputGuardrail
<1>2. /\ node = "output_guardrail" /\ req' = req /\ steps' = steps + 1
      /\ st' = blocked \/ (st' = released /\ st.draft)
  <2>1. st' \in results
    BY <1>1, RunsFacts, NeverRefused DEF ReleaseTier
  <2>2. QED
    BY <1>1, <2>1, RunsFacts
<1>3. /\ st \in States /\ Granted(st) /\ ~NeedsPerson /\ Certified(st)
      /\ st.tokens \in Nat /\ st.deadline \in Nat
  BY <1>2 DEF TypeOK, States, Deadlines, Control, RouteIsGranted, NothingStands
<1>4. st' \in States
  <2>1. blocked \in States /\ released \in States
    BY <1>3, BeforePlanUpdates, Values, Zenon
  <2>2. QED
    BY <1>2, <2>1
<1> DEFINE Core(r) ==
        /\ r.risk = st.risk /\ r.routed = st.routed /\ r.split = st.split
        /\ r.verdict = st.verdict /\ r.reflections = st.reflections
        /\ r.stopped = st.stopped /\ r.unknown = st.unknown
        /\ r.confident = st.confident /\ r.draft = st.draft /\ Grown(r)
<1>5. /\ Core(st')
      /\ \/ st'.outcome = "escalated"
         \/ st'.outcome = "answered" /\ ~st'.reason /\ st'.draft
  <2>1. ~st.reason
    BY <1>3 DEF NeedsPerson
  <2>2. CASE st' = blocked
    BY <1>3, <2>2 DEF Grown, States
  <2>3. CASE st' = released /\ st.draft
    <3>1. Grown(st')
      BY <1>3, <2>1, <2>3 DEF Grown, States
    <3>2. st'.outcome = "answered" /\ ~st'.reason
      BY <1>3, <2>3 DEF States
    <3>3. st'.draft = st.draft
      BY <1>3, <2>3 DEF States
    <3>4. st'.stopped = st.stopped /\ st'.unknown = st.unknown /\ st'.split = st.split
      BY <1>3, <2>3 DEF States
    <3>5. /\ st'.risk = st.risk /\ st'.routed = st.routed /\ st'.verdict = st.verdict
          /\ st'.reflections = st.reflections /\ st'.confident = st.confident
      BY <1>3, <2>3 DEF States
    <3>6. QED
      BY <2>3, <3>1, <3>2, <3>3, <3>4, <3>5
  <2>4. QED
    BY <1>2, <2>2, <2>3
<1>6. \/ st'.outcome = "escalated" /\ node' = "escalation_manager"
      \/ st'.outcome = "answered" /\ node' = "END"
  BY <1>1, <1>5 DEF AfterOutputGuardrail
<1>7. TypeOK'
  BY <1>1, <1>4, <1>6, RunsFacts DEF Nodes, Final
<1>8. Grows
  BY <1>2, <1>5, GrowStep DEF HighRisk
<1>9. RepairHeadroom > 0 => Bounded'
  BY <1>2, <1>5, <1>6, <1>7, StepsTable, CountStep
<1>10. Granted(st)'
  BY <1>2, <1>3, <1>5 DEF Granted, HighRisk
<1>11. CASE st'.outcome = "escalated"
  BY <1>6, <1>7, <1>8, <1>9, <1>10, <1>11, ExitStep DEF Exits
<1>12. CASE st'.outcome = "answered"
  <2>1. ~NeedsPerson' /\ Certified(st')
    BY <1>2, <1>3, <1>5, <1>12 DEF NeedsPerson, Certified, HighRisk
  <2>2. QED
    BY <1>5, <1>6, <1>7, <1>8, <1>9, <1>10, <1>12, <2>1
       DEF Control, RouteIsGranted, NothingStands, VerdictFits, RepairIsAffordable,
           Early, StageNodes, RagStage, SqlStage, PanelStage, Validation
<1>13. QED
  BY <1>5, <1>11, <1>12

\* A node that only names the outcome, before the run ends.
LEMMA ClosingStep ==
    ASSUME TypeOK, Control, NEW n \in {"escalation_manager", "safe_refusal", "clarification"},
           NEW o \in {"escalated", "refused", "clarification_required"},
           NEW closed \in {[st EXCEPT !.outcome = o],
                           [st EXCEPT !.outcome = o, !.reason = TRUE]},
           Runs(n, {closed}), node' = "END"
    PROVE  TypeOK' /\ Control' /\ Grows
<1>1. /\ node = n /\ req' = req /\ steps' = steps + 1 /\ st' = closed
  BY RunsFacts, NeverRefused DEF ReleaseTier
<1>2. /\ st \in States /\ Granted(st) /\ st.tokens \in Nat /\ st.deadline \in Nat
  BY DEF TypeOK, States, Deadlines, Control, RouteIsGranted
<1>3. closed \in States
  <2>1. o \in Outcomes /\ TRUE \in BOOLEAN
    BY Values
  <2>2. /\ [st EXCEPT !.outcome = o] \in States
        /\ [st EXCEPT !.outcome = o, !.reason = TRUE] \in States
    BY <1>2, <2>1, BeforePlanUpdates, Zenon
  <2>3. QED
    BY <2>2
<1>4. /\ st'.risk = st.risk /\ st'.routed = st.routed /\ st'.split = st.split
      /\ st'.verdict = st.verdict /\ st'.reflections = st.reflections /\ Grown(st')
      /\ st'.outcome # "answered"
  <2>1. CASE st' = [st EXCEPT !.outcome = o]
    BY <1>2, <2>1 DEF Grown, States
  <2>2. CASE st' = [st EXCEPT !.outcome = o, !.reason = TRUE]
    BY <1>2, <2>2 DEF Grown, States
  <2>3. QED
    BY <1>1, <2>1, <2>2
<1>5. TypeOK'
  BY <1>1, <1>3, RunsFacts DEF Final
<1>6. Grows
  BY <1>1, <1>4, GrowStep DEF HighRisk
<1>7. RepairHeadroom > 0 => Bounded'
  BY <1>1, <1>4, <1>5, StepsTable, CountStep
<1>8. Granted(st)'
  BY <1>1, <1>2, <1>4 DEF Granted, HighRisk
<1>9. QED
  BY <1>4, <1>5, <1>6, <1>7, <1>8, ExitStep DEF Exits

LEMMA EscalationManagerStep ==
    ASSUME TypeOK, Control, EscalationManager
    PROVE  TypeOK' /\ Control' /\ Grows
BY ClosingStep DEF EscalationManager

LEMMA SafeRefusalStep ==
    ASSUME TypeOK, Control, SafeRefusal
    PROVE  TypeOK' /\ Control' /\ Grows
BY ClosingStep DEF SafeRefusal

LEMMA ClarificationStep ==
    ASSUME TypeOK, Control, Clarification
    PROVE  TypeOK' /\ Control' /\ Grows
BY ClosingStep DEF Clarification

LEMMA RaiseStep ==
    ASSUME TypeOK, Control, Raise
    PROVE  TypeOK' /\ Control' /\ Grows
<1>1. /\ node \in MayRaise /\ node' = "RAISED" /\ st' = st /\ req' = req
      /\ steps' = steps + 1 /\ now' \in now..MaxElapsed
  BY DEF Raise
<1>2. node \in Nodes \ {"safe_refusal", "clarification", "escalation_manager"}
  BY <1>1 DEF MayRaise, Nodes, RagStage, SqlStage, PanelStage
<1>3. /\ st \in States /\ Granted(st) /\ st.tokens \in Nat /\ st.deadline \in Nat
  BY DEF TypeOK, States, Deadlines, Control, RouteIsGranted
<1>4. TypeOK'
  BY <1>1 DEF TypeOK, Final
<1>5. Grown(st')
  BY <1>1, <1>3 DEF Grown
<1>6. Grows
  BY <1>1, <1>5, GrowStep
<1>7. RepairHeadroom > 0 => Bounded'
  BY <1>1, <1>2, <1>4, StepsTable, CountStep DEF Nodes
<1>8. Granted(st)' /\ st'.outcome # "answered"
  BY <1>1, <1>2, <1>3
     DEF Granted, HighRisk, Control, NothingStands, Nodes, RagStage, SqlStage, PanelStage,
         Validation
<1>9. QED
  BY <1>1, <1>4, <1>6, <1>7, <1>8, ExitStep DEF Exits

-----------------------------------------------------------------------------
(* The theorems. *)

LEMMA InitEstablishes == Init => TypeOK /\ Control
<1> SUFFICES ASSUME Init PROVE TypeOK /\ Control
  OBVIOUS
<1>1. st \in States
  BY DEF Init, InitialState, States, Outcomes, Strategies, NotFoundReasons
<1>2. TypeOK
  <2>1. node \in Nodes
    BY DEF Init, Nodes
  <2>2. now \in 0..MaxElapsed /\ steps \in Nat
    BY DEF Init
  <2>3. QED
    BY <1>1, <2>1, <2>2 DEF Init, TypeOK
<1>3. RouteIsGranted
  BY DEF Init, InitialState, RouteIsGranted, Granted, HighRisk, Early, StageNodes,
         RagStage, SqlStage, PanelStage
<1>4. NothingStands /\ VerdictFits /\ RepairIsAffordable
  BY DEF Init, InitialState, NothingStands, VerdictFits, RepairIsAffordable, Stopped,
         StageNodes, RagStage, SqlStage, PanelStage, Validation
<1>5. Bounded
  BY StepsTable DEF Init, InitialState, Bounded
<1>6. QED
  BY <1>2, <1>3, <1>4, <1>5 DEF Control

LEMMA StepKeeps ==
    ASSUME TypeOK, Control, [Next]_vars
    PROVE  TypeOK' /\ Control' /\ (st' = st \/ Grows)
<1>1. CASE UNCHANGED vars
  <2>1. /\ node' = node /\ now' = now /\ req' = req /\ st' = st /\ steps' = steps
    BY <1>1 DEF vars
  <2>2. TypeOK'
    BY <2>1 DEF TypeOK
  <2>3. Control'
    BY <2>1 DEF Control, RouteIsGranted, Granted, NothingStands, VerdictFits,
                RepairIsAffordable, Bounded, HighRisk, CurrentRoute, Stopped, NeedsPerson,
                Certified, Remaining, TokensLeft
  <2>4. QED
    BY <2>1, <2>2, <2>3
<1>2. CASE Next
  BY <1>2, InputGuardrailStep, QueryRewriteStep, IntentClassificationStep,
     EntityResolutionStep, RiskAssessmentStep, PlannerStep, RagPathStep, SqlPathStep,
     MultiAgentPanelStep, ComplianceValidationStep, ReflectionStep, ConfidenceScoringStep,
     NoAnswerStep, OutputGuardrailStep, EscalationManagerStep, SafeRefusalStep,
     ClarificationStep, RaiseStep
     DEF Next
<1>3. QED
  BY <1>1, <1>2

\* Every reachable state has its type and satisfies the control invariant.
THEOREM Invariant == Spec => [](TypeOK /\ Control)
<1>1. TypeOK /\ Control /\ [Next]_vars => (TypeOK /\ Control)'
  BY StepKeeps
<1>2. QED
  BY <1>1, InitEstablishes, PTL DEF Spec

\* Every variable keeps its type, whatever the models and the clock do.
THEOREM TypeCorrect == Spec => []TypeOK
BY Invariant, PTL

\* An answer is released only when it is the honest "I don't know" or passed and
\* scored high, with nothing standing that calls for a person.
THEOREM Released == Spec => []ReleasedOnlyWhenCleared
<1>1. TypeOK /\ Control => ReleasedOnlyWhenCleared
  BY DEF Control, NothingStands, ReleasedOnlyWhenCleared, NeedsPerson, Certified
<1>2. QED
  BY <1>1, Invariant, PTL

\* No edge to the honest reply is taken for a High-risk question or for a user
\* who asked for a person.
THEOREM HonestReply == Spec => []HonestReplyIsForNoReviewer
<1>1. Control => HonestReplyIsForNoReviewer
  BY DEF Control, NothingStands, HonestReplyIsForNoReviewer, NeedsPerson
<1>2. QED
  BY <1>1, Invariant, PTL

\* No plan, and no plan of a repair, runs a stage over a source the role has not
\* been granted.
THEOREM WithinGrant == Spec => []StagesWithinGrant
<1>1. TypeOK /\ Control => StagesWithinGrant
  BY DEF Control, RouteIsGranted, StagesWithinGrant, TypeOK, Requests
<1>2. QED
  BY <1>1, Invariant, PTL

\* Time, tokens and the flags are never given back.
THEOREM MetersGrow == Spec => MetersOnlyGrow
<1>1. ASSUME TypeOK, Control, [Next]_vars
      PROVE  [NeverForgets]_vars
  <2>1. CASE UNCHANGED vars
    BY <2>1
  <2>2. CASE st' = st
    <3>1. st.tokens \in Nat /\ st.deadline \in Nat
      BY <1>1 DEF TypeOK, States, Deadlines
    <3>2. QED
      BY <2>2, <3>1 DEF NeverForgets, HighRisk
  <2>3. CASE Grows
    BY <2>3 DEF Grows
  <2>4. QED
    BY <1>1, <2>2, <2>3, StepKeeps
<1>2. QED
  BY <1>1, Invariant, PTL DEF Spec, MetersOnlyGrow

\* The repair loop is bounded by its attempts and the graph by its recursion
\* limit, provided a repair needs some time: with none, a repair may be entered
\* at the very deadline, be refused, and leave its attempt uncounted.
THEOREM LoopIsBounded ==
    ASSUME RepairHeadroom > 0, 13 + 6 * MaxReflections <= RecursionLimit
    PROVE  Spec => []WithinRecursionLimit
<1>1. TypeOK /\ Control => WithinRecursionLimit
  <2> SUFFICES ASSUME TypeOK, Control PROVE WithinRecursionLimit
    OBVIOUS
  <2>1. Bounded
    BY DEF Control
  <2>2. /\ steps \in Nat /\ st.reflections \in Nat /\ node \in Nodes \cup Final
    BY DEF TypeOK, States
  <2>3. StepsBefore(node) \in Nat /\ StepsBefore(node) <= 13
    BY <2>2, StepsTable DEF Nodes, Final
  <2>4. steps <= 13 + 6 * MaxReflections
    BY <2>1, <2>2, <2>3 DEF Bounded
  <2>5. QED
    BY <2>1, <2>2, <2>4 DEF WithinRecursionLimit
<1>2. QED
  BY <1>1, Invariant, PTL

\* Only a node that is not final takes a step.
LEMMA StepsAreOpen == Next => node \notin Final
BY DEF Next, Runs, InputGuardrail, QueryRewrite, IntentClassification, EntityResolution,
       RiskAssessment, Planner, RagPath, SqlPath, MultiAgentPanel, ComplianceValidation,
       Reflection, ConfidenceScoring, NoAnswer, OutputGuardrail, EscalationManager,
       SafeRefusal, Clarification, Raise, MayRaise, Final, RagStage, SqlStage, PanelStage,
       Validation

\* Every run keeps the contract with whoever asked: its steps are steps of
\* ReleaseContract or change nothing the contract speaks of.
THEOREM Implements == Spec => KeepsReleaseContract
<1>1. Init => Contract!Init
  <2> SUFFICES ASSUME Init PROVE Contract!Init
    OBVIOUS
  <2>1. st.outcome = "none" /\ node \notin Final
    BY DEF Init, InitialState, Final
  <2>2. NeedsPerson \in BOOLEAN
    BY Zenon DEF NeedsPerson, HighRisk
  <2>3. QED
    BY <2>1, <2>2, Zenon DEF Contract!Init
<1>2. ASSUME TypeOK, Control, [Next]_vars
      PROVE  [Contract!Work]_(Contract!vars)
  <2>1. CASE UNCHANGED vars
    <3>1. /\ node' = node /\ req' = req /\ st' = st
      BY <2>1 DEF vars
    <3>2. QED
      BY <3>1 DEF Contract!vars, NeedsPerson, HighRisk
  <2>2. CASE Next
    <3>1. node \notin Final
      BY <2>2, StepsAreOpen
    <3>2. TypeOK' /\ Control' /\ (st' = st \/ Grows)
      BY <1>2, StepKeeps
    <3>3. req' = req
      BY <2>2 DEF Next, Runs, InputGuardrail, QueryRewrite, IntentClassification,
                  EntityResolution, RiskAssessment, Planner, RagPath, SqlPath,
                  MultiAgentPanel, ComplianceValidation, Reflection, ConfidenceScoring,
                  NoAnswer, OutputGuardrail, EscalationManager, SafeRefusal,
                  Clarification, Raise
    <3>4. NeedsPerson => NeedsPerson'
      BY <3>2, <3>3 DEF Grows, NeedsPerson, HighRisk
    <3>5. st'.outcome \in {"none", "answered", "escalated", "refused",
                           "clarification_required"}
      BY <3>2 DEF TypeOK, States, Outcomes
    <3>6. st'.outcome = "answered" => ~NeedsPerson' /\ node' \in Final
      BY <3>2 DEF Control, NothingStands, Final
    <3>7. Contract!Work
      <4>1. NeedsPerson' \in BOOLEAN /\ (node \notin Final)' \in BOOLEAN
        BY Zenon DEF NeedsPerson, HighRisk
      <4>2. QED
        BY <3>1, <3>4, <3>5, <3>6, <4>1, Zenon DEF Contract!Work
    <3>8. QED
      BY <3>7
  <2>3. QED
    BY <1>2, <2>1, <2>2
<1>3. QED
  BY <1>1, <1>2, Invariant, PTL DEF Spec, KeepsReleaseContract, Contract!Spec

-----------------------------------------------------------------------------
(* What the stages, the validator and a repair of the graph may find in the   *)
(* state: which evidence an earlier pass leaves to the next one, and how many *)
(* tokens it has spent.                                                       *)

\* The nodes before anything settles the request.
Underway == Early \cup StageNodes \cup {"planner", Validation, "reflection"}

\* A path that reads records is one of the intent's own.
RecordsPlan(s, path) == path \in {"nl2sql", "hybrid"} => path \in RuleFor(s.intent).allowed

\* Rows that a repair hands to the planner come with the plan they belong to.
Carried(s) ==
    s.rows => /\ s.replan /\ s.reflections > 0
              /\ s.plan \in {"nl2sql", "hybrid"} /\ RecordsPlan(s, s.plan)

\* What a settled route may find: no clauses on the records route, and rows on
\* the policy route only of an earlier, degraded pass.
RouteFits(s) ==
    /\ ~HighRisk(s) => s.plan = s.routed /\ RecordsPlan(s, s.routed)
    /\ CurrentRoute(s) = "nl2sql" => s.clauses = "none"
    /\ CurrentRoute(s) = "rag" /\ s.rows => s.degraded /\ s.reflections > 0

Evidence ==
    /\ node \in Underway => st.missing = "none"
    /\ node \in Early => st.clauses = "none" /\ ~st.rows
    /\ node = "planner" => Stopped(st) \/ (st.clauses = "none" /\ Carried(st))
    /\ node \in StageNodes \cup {Validation, "reflection"} => RouteFits(st)
    /\ node = RagStage => CurrentRoute(st) # "nl2sql"
    /\ node = SqlStage => CurrentRoute(st) # "rag"
    /\ node = Validation => st.draft
    /\ node \in {Validation, "reflection"} => st.path = CurrentRoute(st)
    /\ node = "reflection" => ~HighRisk(st)

-----------------------------------------------------------------------------
(* Nodes that gather nothing. *)

LEMMA NodesDiffer ==
    /\ Early \cap (StageNodes \cup {"planner", Validation, "reflection"}) = {}
    /\ StageNodes \cap {"planner", Validation, "reflection"} = {}
    /\ "planner" # Validation /\ "reflection" # Validation
    /\ \A n \in {"escalation_manager", "no_answer", "safe_refusal", "clarification",
                 "confidence_scoring", "output_guardrail", "END", "RAISED"} : n \notin Underway
BY DEF Underway, Early, StageNodes, RagStage, SqlStage, PanelStage, Validation

\* Once the run has left for a reply or a person, nothing is asked any more.
LEMMA LeavesUnderway ==
    ASSUME node' \notin Underway
    PROVE  Evidence'
BY DEF Evidence, Underway, StageNodes

LEMMA StopKeepsEvidence ==
    ASSUME TypeOK
    PROVE  /\ BudgetStop(st).missing = st.missing /\ BudgetStop(st).clauses = st.clauses
           /\ BudgetStop(st).rows = st.rows /\ Stopped(BudgetStop(st))
           /\ BudgetStop(st).stopped
BY DEF BudgetStop, Stopped, TypeOK, States

\* A step before the planner that gathers nothing.
LEMMA EarlyEvidence ==
    ASSUME Evidence, node \in Early, st'.missing = st.missing, st'.clauses = st.clauses,
           st'.rows = st.rows,
           node' \in Early \cup {"planner"} \/ node' \notin Underway
    PROVE  Evidence'
<1>1. st'.missing = "none" /\ st'.clauses = "none" /\ ~st'.rows
  BY DEF Evidence, Underway
<1>2. CASE node' \in Early \cup {"planner"}
  BY <1>1, <1>2, NodesDiffer DEF Evidence, Carried, StageNodes
<1>3. QED
  BY <1>2, LeavesUnderway

LEMMA EarlyNodesEvidence ==
    ASSUME TypeOK, Evidence,
           \/ InputGuardrail \/ QueryRewrite \/ IntentClassification
           \/ EntityResolution \/ RiskAssessment
    PROVE  Evidence'
<1> DEFINE Same(r) == r.missing = st.missing /\ r.clauses = st.clauses /\ r.rows = st.rows
<1>1. Same(st) /\ Same(BudgetStop(st)) /\ st \in States
  BY StopKeepsEvidence DEF TypeOK
<1>2. CASE InputGuardrail
  <2>1. /\ Runs("input_guardrail", {st, [st EXCEPT !.outcome = "refused"]})
        /\ node' = AfterGuardrail(st')
    BY <1>2 DEF InputGuardrail
  <2>2. Same([st EXCEPT !.outcome = "refused"])
    BY <1>1 DEF States
  <2> DEFINE results == {st, [st EXCEPT !.outcome = "refused"]}
  <2>3. node = "input_guardrail" /\ (st' \in results \/ st' = BudgetStop(st))
    BY <2>1, RunsFacts
  <2>4. Same(st') /\ node \in Early
    BY <1>1, <2>2, <2>3 DEF Early
  <2>5. node' \in Early \/ node' \notin Underway
    BY <2>1, NodesDiffer DEF AfterGuardrail, Early
  <2>6. QED
    BY <2>4, <2>5, EarlyEvidence
<1>3. CASE QueryRewrite
  <2>1. Runs("query_rewrite", {st, Spend(st, 6)}) /\ node' = "intent_classification"
    BY <1>3 DEF QueryRewrite
  <2>2. Same(Spend(st, 6))
    BY <1>1 DEF Spend, States
  <2>3. Same(st') /\ node \in Early /\ node' \in Early
    BY <1>1, <2>1, <2>2, RunsFacts DEF Early
  <2>4. QED
    BY <2>3, EarlyEvidence
<1>4. CASE IntentClassification
  <2>1. /\ Runs("intent_classification",
                {[Spend(st, 5) EXCEPT !.intent = i] : i \in Intents}
                  \cup {[Spend(st, 5) EXCEPT !.outcome = "refused"]})
        /\ node' = AfterIntent(st')
    BY <1>4 DEF IntentClassification
  <2>2. /\ \A i \in Intents : Same([Spend(st, 5) EXCEPT !.intent = i])
        /\ Same([Spend(st, 5) EXCEPT !.outcome = "refused"])
    BY <1>1 DEF Spend, States
  <2> DEFINE results == {[Spend(st, 5) EXCEPT !.intent = i] : i \in Intents}
                  \cup {[Spend(st, 5) EXCEPT !.outcome = "refused"]}
  <2>3. node = "intent_classification" /\ (st' \in results \/ st' = BudgetStop(st))
    BY <2>1, RunsFacts
  <2>4. Same(st') /\ node \in Early
    BY <1>1, <2>2, <2>3 DEF Early
  <2>5. node' \in Early \/ node' \notin Underway
    BY <2>1, NodesDiffer DEF AfterIntent, Early
  <2>6. QED
    BY <2>4, <2>5, EarlyEvidence
<1>5. CASE EntityResolution
  <2> DEFINE asked == IF req.tables
                      THEN {[st EXCEPT !.outcome = "clarification_required"]} ELSE {}
  <2>1. Runs("entity_resolution", {st} \cup asked) /\ node' = AfterEntityResolution(st')
    BY <1>5 DEF EntityResolution
  <2>2. Same([st EXCEPT !.outcome = "clarification_required"])
    BY <1>1 DEF States
  <2> DEFINE results == {st} \cup asked
  <2>3. node = "entity_resolution" /\ (st' \in results \/ st' = BudgetStop(st))
    BY <2>1, RunsFacts
  <2>4. Same(st') /\ node \in Early
    BY <1>1, <2>2, <2>3 DEF Early
  <2>5. node' \in Early \/ node' \notin Underway
    BY <2>1, NodesDiffer DEF AfterEntityResolution, Early
  <2>6. QED
    BY <2>4, <2>5, EarlyEvidence
<1>6. CASE RiskAssessment
  <2>1. /\ Runs("risk_assessment",
                {[Spend(st, 7) EXCEPT !.risk = "Low"],
                 [Spend(st, 7) EXCEPT !.risk = "High",
                                      !.deadline = Wider(@, HighRiskDeadline)]})
        /\ node' = AfterRisk(st')
    BY <1>6 DEF RiskAssessment
  <2>2. /\ Same([Spend(st, 7) EXCEPT !.risk = "Low"])
        /\ Same([Spend(st, 7) EXCEPT !.risk = "High",
                                     !.deadline = Wider(@, HighRiskDeadline)])
    BY <1>1 DEF Spend, States
  <2> DEFINE results == {[Spend(st, 7) EXCEPT !.risk = "Low"],
                 [Spend(st, 7) EXCEPT !.risk = "High",
                                      !.deadline = Wider(@, HighRiskDeadline)]}
  <2>3. node = "risk_assessment" /\ (st' \in results \/ st' = BudgetStop(st))
    BY <2>1, RunsFacts
  <2>4. Same(st') /\ node \in Early
    BY <1>1, <2>2, <2>3 DEF Early
  <2>5. node' = "planner" \/ node' \notin Underway
    BY <2>1, NodesDiffer DEF AfterRisk
  <2>6. QED
    BY <2>4, <2>5, EarlyEvidence
<1>7. QED
  BY <1>2, <1>3, <1>4, <1>5, <1>6

-----------------------------------------------------------------------------
(* The planner. *)

LEMMA FirstOfList ==
    ASSUME NEW a, NEW b, NEW c
    PROVE  <<a>>[1] = a /\ <<a, b>>[1] = a /\ <<a, b, c>>[1] = a
OBVIOUS

LEMMA LastStages ==
    ASSUME NEW route, NEW tables, NEW docs,
           EvidenceStages(route, tables, docs) = <<RagStage, SqlStage, PanelStage>>
    PROVE  /\ NextStage(RagStage, route, tables, docs) = SqlStage
           /\ NextStage(SqlStage, route, tables, docs) = PanelStage
<1>1. RagStage # SqlStage
  BY DEF RagStage, SqlStage
<1>2. NextStage(RagStage, route, tables, docs) = SqlStage
  BY <1>1, NextOfThree
<1>3. NextStage(SqlStage, route, tables, docs) = PanelStage
  BY <1>1, NextOfThree
<1>4. QED
  BY <1>2, <1>3

\* Which stage opens a route, and which one leads to the validator.
LEMMA StagesFollow ==
    ASSUME NEW route \in Routes, NEW tables \in BOOLEAN, NEW docs \in BOOLEAN, docs
    PROVE  /\ FirstStage(route, tables, docs) = RagStage => route # "nl2sql"
           /\ FirstStage(route, tables, docs) = SqlStage => route # "rag"
           /\ NextStage(RagStage, route, tables, docs) = Validation =>
                  route \in {"rag", "nl2sql"}
           /\ NextStage(RagStage, route, tables, docs) = SqlStage => route # "rag"
           /\ tables /\ NextStage(SqlStage, route, tables, docs) = Validation =>
                  route # "high_risk_panel"
<1> DEFINE first == FirstStage(route, tables, docs)
           next(after) == NextStage(after, route, tables, docs)
<1>8. RagStage # SqlStage /\ RagStage # PanelStage /\ SqlStage # PanelStage
  BY DEF RagStage, SqlStage, PanelStage
<1>1. /\ RagStage # SqlStage /\ RagStage # PanelStage /\ SqlStage # PanelStage
      /\ Validation # SqlStage /\ Validation # PanelStage
  BY DEF RagStage, SqlStage, PanelStage, Validation
<1>2. CASE route = "rag"
  <2>1. EvidenceStages(route, tables, docs) = <<RagStage>>
    BY <1>2, StagesOfRoute
  <2>2. first = RagStage
    <3>1. first = <<RagStage>>[1]
      BY <2>1 DEF FirstStage
    <3>2. <<RagStage>>[1] = RagStage
      BY FirstOfList, Zenon
    <3>3. QED
      BY <3>1, <3>2
  <2>3. next(RagStage) = Validation /\ next(SqlStage) = Validation
    BY <2>1, NextOfOne
  <2> HIDE DEF first
  <2>4. QED
    BY <1>1, <1>2, <2>2, <2>3 DEF first
<1>3. CASE route = "nl2sql"
  <2>1. EvidenceStages(route, tables, docs) = <<SqlStage>>
    BY <1>3, StagesOfRoute
  <2>2. first = SqlStage
    <3>1. first = <<SqlStage>>[1]
      BY <2>1 DEF FirstStage
    <3>2. <<SqlStage>>[1] = SqlStage
      BY FirstOfList, Zenon
    <3>3. QED
      BY <3>1, <3>2
  <2>3. next(RagStage) = Validation
    BY <2>1, NextOfOne
  <2> HIDE DEF first
  <2>4. QED
    BY <1>1, <1>3, <2>2, <2>3 DEF first
<1>4. CASE route = "hybrid"
  <2>1. EvidenceStages(route, tables, docs) = <<RagStage, SqlStage>>
    BY <1>4, StagesOfRoute
  <2>2. first = RagStage
    <3>1. first = <<RagStage, SqlStage>>[1]
      BY <2>1 DEF FirstStage
    <3>2. <<RagStage, SqlStage>>[1] = RagStage
      BY FirstOfList, Zenon
    <3>3. QED
      BY <3>1, <3>2
  <2>3. next(RagStage) = SqlStage
    BY <2>1, NextOfTwo
  <2> HIDE DEF first
  <2>4. QED
    BY <1>1, <1>4, <2>2, <2>3 DEF first
<1>5. CASE route = "high_risk_panel" /\ tables
  <2>1. EvidenceStages(route, tables, docs) = <<RagStage, SqlStage, PanelStage>>
    BY <1>5, StagesOfPanel
  <2>2. first = RagStage
    <3>1. first = <<RagStage, SqlStage, PanelStage>>[1]
      BY <2>1 DEF FirstStage
    <3>2. <<RagStage, SqlStage, PanelStage>>[1] = RagStage
      BY FirstOfList, Zenon
    <3>3. QED
      BY <3>1, <3>2
  <2>3. next(RagStage) = SqlStage /\ next(SqlStage) = PanelStage
    BY <2>1, LastStages
  <2> HIDE DEF first
  <2>4. QED
    BY <1>1, <1>5, <2>2, <2>3 DEF first
<1>6. CASE route = "high_risk_panel" /\ ~tables
  <2>1. EvidenceStages(route, tables, docs) = <<RagStage, PanelStage>>
    BY <1>6, StagesOfPanel
  <2>2. first = RagStage
    <3>1. first = <<RagStage, PanelStage>>[1]
      BY <2>1 DEF FirstStage
    <3>2. <<RagStage, PanelStage>>[1] = RagStage
      BY FirstOfList, Zenon
    <3>3. QED
      BY <3>1, <3>2
  <2>3. next(RagStage) = PanelStage
    BY <1>1, <2>1, NextOfTwo
  <2> HIDE DEF first
  <2>4. QED
    BY <1>1, <1>6, <2>2, <2>3 DEF first
<1>7. QED
  BY <1>2, <1>3, <1>4, <1>5, <1>6 DEF Routes

\* A decision on a proposal: it reads records only where the intent may, and
\* leaves such a proposal for the policy route alone, as partial evidence.
FitsIntent(i, p, d) ==
    /\ d.path \in {"nl2sql", "hybrid"} => d.path \in RuleFor(i).allowed
    /\ p \in {"nl2sql", "hybrid"} /\ p \in RuleFor(i).allowed =>
           d.path \in {p, NoAccess} \/ (d.path = "rag" /\ d.partial = TRUE)

\* The policy's answer to a proposal, for a request that is not High risk.
LEMMA ResolvedPlan ==
    ASSUME NEW i \in Intents \cup {"none"}, NEW p \in EvidencePaths, NEW tables \in BOOLEAN
    PROVE  FitsIntent(i, p, ResolvePath(i, FALSE, p, tables, TRUE))
<1> DEFINE rule == RuleFor(i)
           path == IF p \in rule.allowed THEN p ELSE rule.default
           d == ResolvePath(i, FALSE, p, tables, TRUE)
<1>1. rule.default \in rule.allowed
  BY DEF RuleFor, Rules, Rule, Intents
<1>2. path \in rule.allowed /\ (p \in rule.allowed => path = p)
  BY <1>1
<1>3. d = CapabilityGates(rule, path, tables, TRUE)
  BY DEF ResolvePath
<1> HIDE DEF rule, path, d
<1>4. \/ d = Decision(NoAccess, FALSE) \/ d = Decision("rag", TRUE)
      \/ d = Decision(path, FALSE)
  BY <1>3 DEF CapabilityGates
<1>5. d.path = NoAccess \/ (d.path = "rag" /\ d.partial = TRUE) \/ d.path = path
  <2>1. \A x, y : Decision(x, y).path = x /\ Decision(x, TRUE).partial = TRUE
    BY DEF Decision
  <2>2. QED
    BY <1>4, <2>1, Zenon
<1>6. NoAccess \notin {"nl2sql", "hybrid"}
  BY DEF NoAccess
<1>7. QED
  BY <1>2, <1>5, <1>6 DEF rule, d, FitsIntent

LEMMA DegradedPlan ==
    ASSUME NEW i \in Intents \cup {"none"}, NEW path \in Routes, NEW tight \in BOOLEAN,
           path \in {"nl2sql", "hybrid"} => path \in RuleFor(i).allowed
    PROVE  /\ DegradeForBudget(path, i, tight).path \in {"nl2sql", "hybrid"} =>
                  DegradeForBudget(path, i, tight).path \in RuleFor(i).allowed
           /\ \/ DegradeForBudget(path, i, tight).path = path
              \/ DegradeForBudget(path, i, tight).partial = TRUE
<1> DEFINE d == DegradeForBudget(path, i, tight)
<1>1. "hybrid" \in RuleFor(i).allowed /\ RuleFor(i).fallback = "nl2sql"
          => "nl2sql" \in RuleFor(i).allowed
  BY DEF RuleFor, Rules, Rule, Intents
<1>2. RuleFor(i).fallback \in {"rag", "nl2sql", "hybrid"}
  BY DEF RuleFor, Rules, Rule, Intents
<1>3. CASE path = "hybrid" /\ tight
  <2>1. d.partial = TRUE /\ d.path = IF RuleFor(i).fallback = "hybrid"
                                     THEN "rag" ELSE RuleFor(i).fallback
    BY <1>3 DEF DegradeForBudget, Decision
  <2>2. QED
    BY <1>1, <1>2, <1>3, <2>1
<1>4. CASE ~(path = "hybrid" /\ tight)
  BY <1>4 DEF DegradeForBudget, Decision
<1>5. QED
  BY <1>3, <1>4

\* A settled plan, and the fields it leaves.
SettledAs(s, cost, path, dl, worse) ==
    Degrade([Spend(s, cost) EXCEPT !.plan = path, !.routed = path,
                                   !.replan = FALSE, !.deadline = dl], worse)

SettledFrom(r, s, path, worse) ==
    /\ r.plan = path /\ r.routed = path
    /\ r.intent = s.intent /\ r.risk = s.risk /\ r.missing = s.missing
    /\ r.clauses = s.clauses /\ r.rows = s.rows /\ r.reflections = s.reflections
    /\ r.reason = s.reason /\ r.stopped = s.stopped
    /\ worse => r.degraded

LEMMA SettledFields ==
    ASSUME NEW s \in States, NEW k \in Nat, NEW path \in Routes, NEW dl \in Deadlines,
           NEW worse \in BOOLEAN
    PROVE  SettledFrom(SettledAs(s, k, path, dl, worse), s, path, worse)
<1> DEFINE plan == [Spend(s, k) EXCEPT !.plan = path, !.routed = path,
                                       !.replan = FALSE, !.deadline = dl]
           r == Degrade(plan, worse)
           Same(q) ==
               /\ q.plan = path /\ q.routed = path
               /\ q.intent = s.intent /\ q.risk = s.risk /\ q.missing = s.missing
               /\ q.clauses = s.clauses /\ q.rows = s.rows /\ q.reflections = s.reflections
               /\ q.reason = s.reason /\ q.stopped = s.stopped
<1>1. Same(plan)
  BY DEF Spend, States
<1>2. plan \in States
  <2>1. Spend(s, k) \in States /\ path \in EvidencePaths
    BY MeterUpdates, Values
  <2>2. QED
    BY <2>1, PlanUpdates, Zenon
<1> HIDE DEF plan
<1>3. Same([plan EXCEPT !.degraded = TRUE]) /\ [plan EXCEPT !.degraded = TRUE].degraded
  BY <1>1, <1>2 DEF States
<1>4. r = IF worse THEN [plan EXCEPT !.degraded = TRUE] ELSE plan
  BY DEF Degrade
<1> HIDE DEF r
<1>5. ASSUME worse
      PROVE  SettledFrom(r, s, path, worse)
  <2>1. r = [plan EXCEPT !.degraded = TRUE]
    BY <1>4, <1>5
  <2>2. QED
    BY <1>3, <2>1 DEF SettledFrom
<1>6. ASSUME ~worse
      PROVE  SettledFrom(r, s, path, worse)
  BY <1>1, <1>4, <1>6 DEF SettledFrom
<1>7. SettledFrom(r, s, path, worse)
  BY <1>5, <1>6
<1>8. QED
  BY <1>7 DEF r, plan, SettledAs

\* A repaired route keeps its rows only on the way it was planned for.
LEMMA PlannerEvidence ==
    ASSUME TypeOK, Control, Evidence, Planner
    PROVE  Evidence'
<1>1. /\ Runs("planner", UNION {Planned(st, t) : t \in DuringNode})
      /\ node' = AfterPlanner(st')
  BY DEF Planner
<1>2. /\ node = "planner" /\ req' = req /\ st \in States
      /\ st.missing = "none"
      /\ Stopped(st) \/ (st.clauses = "none" /\ Carried(st))
      /\ st.intent \in Intents \cup {"none"} /\ HighRisk(st) \in BOOLEAN
      /\ req.tables \in BOOLEAN /\ req.docs = TRUE /\ st.deadline \in Deadlines
  <2>1. node = "planner" /\ req' = req
    BY <1>1, RunsFacts
  <2>2. st.missing = "none" /\ (Stopped(st) \/ (st.clauses = "none" /\ Carried(st)))
    BY <2>1 DEF Evidence, Underway
  <2>3. QED
    BY <2>1, <2>2 DEF TypeOK, States, Requests, HighRisk, Deadlines
<1>3. CASE Stopped(st')
  BY <1>1, <1>3, NodesDiffer, LeavesUnderway DEF AfterPlanner
<1>4. CASE ~Stopped(st')
  <2>1. PICK t \in Nat : st' \in Planned(st, t)
    <3>1. DuringNode \subseteq Nat
      BY <1>1, RunsFacts DEF DuringNode
    <3>2. QED
      BY <1>1, <1>4, <3>1, RunsFacts, StopKeepsEvidence
  <2> DEFINE decision(p) == ResolvePath(st.intent, HighRisk(st), p[1], req.tables, req.docs)
  <2>2. PICK p \in Proposals(st) :
            st' = IF decision(p).path = NoAccess THEN Refuse(st, p)
                  ELSE Settle(st, p, decision(p), t)
    BY <2>1 DEF Planned
  <2>3. p[1] \in EvidencePaths /\ p[2] \in Nat
    BY <2>2, ProposalType
  <2>4. decision(p).path \in GrantedPaths(HighRisk(st), req.tables, req.docs)
    BY <1>2, <2>3, DecisionIsGranted
  <2>5. decision(p).partial \in BOOLEAN
    BY DecisionIsMarked
  <2>6. CASE decision(p).path = NoAccess
    <3> HIDE DEF decision
    <3>1. st' = Refuse(st, p)
      BY <2>2, <2>6
    <3>2. ~HighRisk(st)
      BY <2>4, <2>6 DEF GrantedPaths, NoAccess
    <3>3. st'.routed = NoAccess /\ ~HighRisk(st')
      BY <1>2, <2>3, <3>1, <3>2 DEF Refuse, Spend, HighRisk, States
    <3>4. node' = "escalation_manager" \/ node' = "no_answer"
      BY <1>1, <3>3 DEF AfterPlanner
    <3>5. QED
      BY <3>4, NodesDiffer, LeavesUnderway
  <2>7. CASE decision(p).path # NoAccess
    <3> DEFINE path == decision(p).path
               wider == Wider(st.deadline, PathDeadline(path))
               tight == wider - t < HybridMin
               budget == DegradeForBudget(path, st.intent, tight)
               partial == decision(p).partial \/ budget.partial
    <3>1. path \in Routes /\ (path = "high_risk_panel" <=> HighRisk(st))
      BY <2>4, <2>7 DEF GrantedPaths, Routes
    <3>2. ASSUME ~HighRisk(st)
          PROVE  FitsIntent(st.intent, p[1], decision(p))
      <4>1. decision(p) = ResolvePath(st.intent, FALSE, p[1], req.tables, TRUE)
        BY <1>2, <3>2
      <4>2. FitsIntent(st.intent, p[1],
                       ResolvePath(st.intent, FALSE, p[1], req.tables, TRUE))
        BY <1>2, <2>3, ResolvedPlan, Zenon
      <4>3. QED
        BY <4>1, <4>2, Zenon
    <3> HIDE DEF decision
    <3>3. PathDeadline(path) \in Deadlines
      BY DEF PathDeadline, Deadlines
    <3>4. wider \in Deadlines
      BY <1>2, <3>3, WiderType
    <3>5. tight \in BOOLEAN
      OBVIOUS
    <3>6. st' = Degrade([Spend(st, p[2]) EXCEPT
                             !.plan = budget.path, !.routed = budget.path,
                             !.replan = FALSE, !.deadline = wider], partial)
      <4>1. st' = Settle(st, p, decision(p), t)
        BY <2>2, <2>7
      <4>2. QED
        BY <4>1 DEF Settle
    <3> HIDE DEF path, wider, tight
    <3>7. /\ budget.path \in Routes /\ budget.partial \in BOOLEAN
          /\ budget.path \in IF path = "hybrid" THEN {"rag", "nl2sql", "hybrid"} ELSE {path}
      BY <1>2, <3>1, <3>5, DegradeIsGranted
    <3>8. ~HighRisk(st) =>
              /\ budget.path \in {"nl2sql", "hybrid"} =>
                     budget.path \in RuleFor(st.intent).allowed
              /\ budget.path = path \/ budget.partial = TRUE
      <4>1. ASSUME ~HighRisk(st)
            PROVE  path \in {"nl2sql", "hybrid"} => path \in RuleFor(st.intent).allowed
        BY <3>2, <4>1 DEF path, FitsIntent
      <4>2. QED
        BY <1>2, <3>1, <3>5, <4>1, DegradedPlan
    <3>9. budget.path = "high_risk_panel" <=> HighRisk(st)
      BY <3>1, <3>7
    <3>10. partial \in BOOLEAN
      BY <2>5, <3>7
    <3> DEFINE new == budget.path
    <3> HIDE DEF budget, partial, new
    <3>11. /\ st'.plan = new /\ st'.routed = new
           /\ st'.intent = st.intent /\ st'.risk = st.risk /\ st'.missing = st.missing
           /\ st'.clauses = st.clauses /\ st'.rows = st.rows
           /\ st'.reflections = st.reflections
           /\ st'.reason = st.reason /\ st'.stopped = st.stopped
           /\ partial => st'.degraded
      <4>1. st' = SettledAs(st, p[2], new, wider, partial)
        BY <3>6 DEF new, SettledAs
      <4>2. new \in Routes
        BY <3>7 DEF new
      <4>3. SettledFrom(SettledAs(st, p[2], new, wider, partial), st, new, partial)
        BY <1>2, <2>3, <3>4, <3>10, <4>2, SettledFields
      <4>4. QED
        BY <4>1, <4>3 DEF SettledFrom
    <3>12. st.clauses = "none" /\ Carried(st)
      BY <1>2, <1>4, <3>11 DEF Stopped
    <3>13. /\ node' \in StageNodes
           /\ node' = RagStage => CurrentRoute(st') # "nl2sql"
           /\ node' = SqlStage => CurrentRoute(st') # "rag"
      <4>1. CurrentRoute(st') = new /\ new \in Routes
        BY <3>7, <3>9, <3>11 DEF CurrentRoute, HighRisk, new
      <4>2. /\ FirstStage(new, req.tables, req.docs) \in StageNodes
            /\ FirstStage(new, req.tables, req.docs) = RagStage => new # "nl2sql"
            /\ FirstStage(new, req.tables, req.docs) = SqlStage => new # "rag"
        <5>1. new \in {"nl2sql", "hybrid"} => req.tables
          <6>1. path \in {"nl2sql", "hybrid"} => req.tables
            BY <2>4, <2>7 DEF GrantedPaths, NeedsRecords, path
          <6>2. new \in {"nl2sql", "hybrid"} => path \in {"nl2sql", "hybrid"}
            BY <3>7 DEF new
          <6>3. QED
            BY <6>1, <6>2
        <5>2. QED
          BY <1>2, <4>1, <5>1, FirstStageGranted, StagesFollow DEF StageNodes
      <4>3. new # NoAccess
        BY <4>1 DEF Routes, NoAccess
      <4>4. QED
        BY <1>1, <1>2, <1>4, <3>11, <4>1, <4>2, <4>3 DEF AfterPlanner
    <3>14. RouteFits(st)'
      <4>1. HighRisk(st') = HighRisk(st)
        BY <3>11 DEF HighRisk
      <4>2. ~HighRisk(st') => st'.plan = st'.routed /\ RecordsPlan(st', st'.routed)
        BY <3>8, <3>11, <4>1 DEF RecordsPlan, new
      <4>3. ASSUME CurrentRoute(st') = "rag", st'.rows
            PROVE  st'.degraded /\ st'.reflections > 0
        <5>1. ~HighRisk(st) /\ new = "rag"
          BY <3>11, <4>1, <4>3 DEF CurrentRoute
        <5>2. /\ st.replan /\ st.reflections > 0
              /\ st.plan \in {"nl2sql", "hybrid"} /\ st.plan \in RuleFor(st.intent).allowed
          BY <3>11, <3>12, <4>3 DEF Carried, RecordsPlan
        <5>3. p[1] = st.plan
          <6>1. Proposals(st) = {<<st.plan, 0>>}
            BY <5>2 DEF Proposals
          <6>2. QED
            BY <2>2, <6>1
        <5>4. path = st.plan \/ (path = "rag" /\ decision(p).partial = TRUE)
          BY <2>7, <3>2, <5>1, <5>2, <5>3 DEF path, FitsIntent
        <5>5. partial
          BY <3>8, <5>1, <5>2, <5>4 DEF partial, new
        <5>6. QED
          BY <3>11, <5>2, <5>5
      <4>4. QED
        BY <3>11, <3>12, <4>2, <4>3 DEF RouteFits, RecordsPlan, CurrentRoute, HighRisk
    <3>15. QED
      <4>1. st'.missing = "none"
        BY <1>2, <3>11
      <4>2. /\ node' \notin Early /\ node' # "planner" /\ node' # Validation
            /\ node' # "reflection"
        BY <3>13, NodesDiffer
      <4>3. QED
        BY <3>13, <3>14, <4>1, <4>2 DEF Evidence
  <2>8. QED
    BY <2>6, <2>7
<1>5. QED
  BY <1>3, <1>4

-----------------------------------------------------------------------------
(* The stages. *)

\* A step that keeps the settled route and forgets no degrade.
KeepsRoute(r) ==
    /\ r.plan = st.plan /\ r.routed = st.routed
    /\ r.intent = st.intent /\ r.risk = st.risk /\ r.reflections = st.reflections
    /\ st.degraded => r.degraded

LEMMA KeptRouteFits ==
    ASSUME RouteFits(st), KeepsRoute(st'),
           CurrentRoute(st) = "nl2sql" => st'.clauses = "none",
           CurrentRoute(st) = "rag" /\ st'.rows => st.rows
    PROVE  /\ RouteFits(st)'
           /\ CurrentRoute(st') = CurrentRoute(st) /\ HighRisk(st') = HighRisk(st)
<1>1. CurrentRoute(st') = CurrentRoute(st) /\ HighRisk(st') = HighRisk(st)
  BY DEF KeepsRoute, CurrentRoute, HighRisk
<1>2. ~HighRisk(st') => st'.plan = st'.routed /\ RecordsPlan(st', st'.routed)
  BY <1>1 DEF RouteFits, KeepsRoute, RecordsPlan
<1>3. CurrentRoute(st') = "nl2sql" => st'.clauses = "none"
  BY <1>1
<1>4. CurrentRoute(st') = "rag" /\ st'.rows => st'.degraded /\ st'.reflections > 0
  BY <1>1 DEF RouteFits, KeepsRoute
<1>5. QED
  BY <1>1, <1>2, <1>3, <1>4 DEF RouteFits

\* A stage leads to a stage of its route, to the validator with a draft, or out.
LEMMA StageEvidence ==
    ASSUME Evidence, node \in StageNodes, KeepsRoute(st'),
           CurrentRoute(st) = "nl2sql" => st'.clauses = "none",
           CurrentRoute(st) = "rag" /\ st'.rows => st.rows,
           \/ node' \notin Underway
           \/ /\ node' \in {SqlStage, PanelStage} /\ st'.missing = "none"
              /\ CurrentRoute(st) # "rag"
           \/ /\ node' = Validation /\ st'.missing = "none" /\ st'.draft
              /\ st'.path = CurrentRoute(st)
    PROVE  Evidence'
<1>1. RouteFits(st)' /\ CurrentRoute(st') = CurrentRoute(st)
  BY KeptRouteFits DEF Evidence
<1>2. CASE node' \notin Underway
  BY <1>2, LeavesUnderway
<1>3. CASE node' \in {SqlStage, PanelStage} /\ st'.missing = "none" /\ CurrentRoute(st) # "rag"
  <2>1. node' \in StageNodes /\ node' # RagStage
    BY <1>3 DEF StageNodes, RagStage, SqlStage, PanelStage
  <2>2. /\ node' \notin Early /\ node' # "planner" /\ node' # Validation
        /\ node' # "reflection"
    BY <2>1, NodesDiffer
  <2>3. QED
    BY <1>1, <1>3, <2>1, <2>2 DEF Evidence
<1>4. CASE node' = Validation /\ st'.missing = "none" /\ st'.draft
           /\ st'.path = CurrentRoute(st)
  <2>1. node' \notin Early /\ node' \notin StageNodes /\ node' # "planner"
        /\ node' # "reflection"
    BY <1>4, NodesDiffer
  <2>2. node' # RagStage /\ node' # SqlStage
    BY <2>1 DEF StageNodes
  <2>3. QED
    BY <1>1, <1>4, <2>1, <2>2 DEF Evidence
<1>5. QED
  BY <1>2, <1>3, <1>4

\* What the search and the writer leave.
LEMMA WrittenEvidence ==
    ASSUME st \in States, CurrentRoute(st) \in Routes, st.missing = "none",
           NEW g \in Gathered(st), NEW r \in WrittenFromClauses(g)
    PROVE  /\ KeepsRoute(r) /\ r.rows = st.rows /\ r.path = CurrentRoute(st)
           /\ \/ CurrentRoute(st) # "rag" /\ r.missing = "none"
              \/ r.draft /\ r.missing = "none"
              \/ /\ CurrentRoute(st) = "rag" /\ ~req.human
                 /\ r.missing \in {"no_match", "not_in_extracts"}
<1> DEFINE Same(q) ==
        KeepsRoute(q) /\ q.rows = st.rows /\ q.path = CurrentRoute(st) /\ q.missing = "none"
<1>1. PICK c \in {"none", "unmatched", "matched"}, t \in DuringNode :
          g = Degrade([st EXCEPT !.clauses = c, !.path = CurrentRoute(st)],
                      Remaining(st, t) < RerankMin)
  BY DEF Gathered
<1> DEFINE found == [st EXCEPT !.clauses = c, !.path = CurrentRoute(st)]
<1>2. found \in States
  BY EvidenceUpdates, Zenon
<1>3. Same(found)
  BY DEF KeepsRoute, States
<1>4. g = found \/ g = [found EXCEPT !.degraded = TRUE]
  BY <1>1 DEF Degrade
<1>5. g \in States
  BY <1>1, <1>2, MeterUpdates
<1> HIDE DEF found
<1>6. Same(g)
  BY <1>2, <1>3, <1>4 DEF KeepsRoute, States
<1>7. CurrentRoute(g) = CurrentRoute(st)
  BY <1>6 DEF KeepsRoute, CurrentRoute, HighRisk
<1>8. \/ CurrentRoute(st) # "rag" /\ r = [g EXCEPT !.draft = FALSE]
      \/ r = [Spend(g, 30) EXCEPT !.draft = TRUE]
      \/ /\ CurrentRoute(st) = "rag" /\ ~req.human
         /\ \/ r = [g EXCEPT !.draft = FALSE, !.missing = "no_match"]
            \/ r = [Spend(g, 30) EXCEPT !.draft = FALSE, !.missing = "not_in_extracts"]
  BY <1>7 DEF WrittenFromClauses
<1>9. CASE CurrentRoute(st) # "rag" /\ r = [g EXCEPT !.draft = FALSE]
  BY <1>5, <1>6, <1>9 DEF KeepsRoute, States
<1>10. CASE CurrentRoute(st) = "rag" /\ ~req.human
               /\ r = [g EXCEPT !.draft = FALSE, !.missing = "no_match"]
  BY <1>5, <1>6, <1>10 DEF KeepsRoute, States
<1>11. CASE r = [Spend(g, 30) EXCEPT !.draft = TRUE]
  BY <1>5, <1>6, <1>11 DEF KeepsRoute, Spend, States
<1>12. CASE CurrentRoute(st) = "rag" /\ ~req.human
               /\ r = [Spend(g, 30) EXCEPT !.draft = FALSE, !.missing = "not_in_extracts"]
  BY <1>5, <1>6, <1>12 DEF KeepsRoute, Spend, States
<1>13. QED
  BY <1>8, <1>9, <1>10, <1>11, <1>12

LEMMA RagPathEvidence ==
    ASSUME TypeOK, Control, Evidence, RagPath
    PROVE  Evidence'
<1>1. /\ Runs(RagStage, UNION {WrittenFromClauses(g) : g \in Gathered(st)})
      /\ node' = AfterRagPath(st')
  BY DEF RagPath
<1>2. node = RagStage /\ node \in StageNodes /\ req' = req
  BY <1>1, RunsFacts DEF StageNodes
<1>3. /\ st \in States /\ Granted(st) /\ CurrentRoute(st) \in Routes /\ st.missing = "none"
      /\ CurrentRoute(st) # "nl2sql" /\ req.tables \in BOOLEAN /\ req.docs = TRUE
  BY <1>2 DEF TypeOK, Control, RouteIsGranted, Evidence, Underway, Requests
<1>4. CASE Stopped(st')
  BY <1>1, <1>4, NodesDiffer, LeavesUnderway DEF AfterRagPath
<1>5. CASE ~Stopped(st')
  <2>1. PICK g \in Gathered(st) : st' \in WrittenFromClauses(g)
    <3>1. \/ st' \in UNION {WrittenFromClauses(g) : g \in Gathered(st)}
          \/ st' = BudgetStop(st)
      BY <1>1, RunsFacts
    <3>2. QED
      BY <1>5, <3>1, StopKeepsEvidence
  <2>2. /\ KeepsRoute(st') /\ st'.rows = st.rows /\ st'.path = CurrentRoute(st)
        /\ \/ CurrentRoute(st) # "rag" /\ st'.missing = "none"
           \/ st'.draft /\ st'.missing = "none"
           \/ /\ CurrentRoute(st) = "rag" /\ ~req.human
              /\ st'.missing \in {"no_match", "not_in_extracts"}
    BY <1>3, <2>1, WrittenEvidence
  <2>3. CurrentRoute(st') = CurrentRoute(st)
    BY <2>2 DEF KeepsRoute, CurrentRoute, HighRisk
  <2> DEFINE route == CurrentRoute(st)
             next == NextStage(RagStage, route, req.tables, req.docs)
  <2>4. \/ node' = "no_answer"
        \/ node' = next /\ ~AnswerNotInDocuments(st')
    BY <1>1, <1>5, <2>3 DEF AfterRagPath, Next_Stage
  <2>5. /\ next \in {SqlStage, PanelStage, Validation}
        /\ next = Validation => route \in {"rag", "nl2sql"}
        /\ next = SqlStage => route # "rag"
        /\ next = PanelStage => route = "high_risk_panel"
    <3>1. route \in {"nl2sql", "hybrid"} => req.tables
      BY <1>3 DEF CurrentRoute, Granted
    <3> HIDE DEF route
    <3>2. route \in Routes
      BY <1>3 DEF route
    <3>3. QED
      BY <1>3, <3>1, <3>2, NextStageGranted, StagesFollow
  <2> HIDE DEF next
  <2>6. CASE node' = "no_answer"
    BY <2>6, NodesDiffer, LeavesUnderway
  <2>7. CASE node' = next /\ next = Validation /\ ~AnswerNotInDocuments(st')
    <3>1. route = "rag"
      BY <1>3, <2>5, <2>7
    <3>2. st'.draft /\ st'.missing = "none"
      BY <2>2, <2>3, <2>7, <3>1 DEF AnswerNotInDocuments
    <3>3. QED
      BY <1>2, <1>3, <2>2, <2>7, <3>1, <3>2, StageEvidence
  <2>8. CASE node' = next /\ next # Validation /\ ~AnswerNotInDocuments(st')
    <3>1. route # "rag" /\ node' \in {SqlStage, PanelStage}
      BY <2>5, <2>8
    <3>2. st'.missing = "none"
      BY <2>2, <2>3, <2>8, <3>1
    <3>3. QED
      BY <1>2, <1>3, <2>2, <3>1, <3>2, StageEvidence
  <2>9. QED
    BY <2>4, <2>6, <2>7, <2>8
<1>6. QED
  BY <1>4, <1>5

\* What the records query and its two writers leave.
LEMMA RecordedEvidence ==
    ASSUME st \in States, st.missing = "none",
           NEW r, r \in IF CurrentRoute(st) = "high_risk_panel" THEN RecordsForPanel(st)
                        ELSE IF CurrentRoute(st) = "hybrid" THEN ReconciledWithPolicy(st)
                        ELSE RecordsAnswer(st)
    PROVE  /\ KeepsRoute(r) /\ r.clauses = st.clauses
           /\ \/ CurrentRoute(st) = "high_risk_panel" /\ r.missing = "none"
              \/ /\ CurrentRoute(st) # "high_risk_panel" /\ r.draft /\ r.missing = "none"
                 /\ r.path = IF CurrentRoute(st) = "hybrid" THEN "hybrid" ELSE "nl2sql"
              \/ /\ CurrentRoute(st) # "high_risk_panel"
                 /\ r.missing \in {"no_records", "no_evidence"}
<1> DEFINE Same(q) == KeepsRoute(q) /\ q.clauses = st.clauses
<1>1. CASE CurrentRoute(st) = "high_risk_panel"
  <2>1. PICK b : r = [Spend(st, 6) EXCEPT !.path = "high_risk_panel", !.rows = b]
    BY <1>1 DEF RecordsForPanel
  <2>2. Same(r) /\ r.missing = "none"
    BY <2>1 DEF KeepsRoute, Spend, States
  <2>3. QED
    BY <1>1, <2>2
<1>2. CASE CurrentRoute(st) = "hybrid"
  <2>1. PICK b :
            \/ r = [Spend(st, 6) EXCEPT !.path = "hybrid", !.rows = FALSE,
                                        !.missing = "no_evidence"]
            \/ r = [Spend(st, 40) EXCEPT !.path = "hybrid", !.rows = b, !.draft = TRUE]
    BY <1>2 DEF ReconciledWithPolicy
  <2>2. CASE r = [Spend(st, 6) EXCEPT !.path = "hybrid", !.rows = FALSE,
                                      !.missing = "no_evidence"]
    BY <1>2, <2>2 DEF KeepsRoute, Spend, States
  <2>3. CASE r = [Spend(st, 40) EXCEPT !.path = "hybrid", !.rows = b, !.draft = TRUE]
    BY <1>2, <2>3 DEF KeepsRoute, Spend, States
  <2>4. QED
    BY <2>1, <2>2, <2>3
<1>3. CASE CurrentRoute(st) \notin {"high_risk_panel", "hybrid"}
  <2> DEFINE told == [Spend(st, 15) EXCEPT !.path = "nl2sql", !.rows = TRUE, !.draft = TRUE]
  <2>1. \/ \E worse \in BOOLEAN : r = Degrade(told, worse)
        \/ r = [Spend(st, 9) EXCEPT !.path = "nl2sql", !.draft = TRUE,
                                    !.missing = "no_records"]
    BY <1>3 DEF RecordsAnswer
  <2>2. Same(told) /\ told.draft /\ told.missing = "none" /\ told.path = "nl2sql"
    BY DEF KeepsRoute, Spend, States
  <2>3. told \in States
    <3>1. Spend(st, 15) \in States /\ "nl2sql" \in Routes /\ TRUE \in BOOLEAN
      BY MeterUpdates, Values
    <3>2. QED
      BY <3>1, EvidenceUpdates, Zenon
  <2> HIDE DEF told
  <2>4. CASE r = [Spend(st, 9) EXCEPT !.path = "nl2sql", !.draft = TRUE,
                                      !.missing = "no_records"]
    BY <1>3, <2>4 DEF KeepsRoute, Spend, States
  <2>5. CASE r = told \/ r = [told EXCEPT !.degraded = TRUE]
    BY <1>3, <2>2, <2>3, <2>5 DEF KeepsRoute, States
  <2>6. QED
    BY <2>1, <2>4, <2>5 DEF Degrade
<1>4. QED
  BY <1>1, <1>2, <1>3

LEMMA SqlPathEvidence ==
    ASSUME TypeOK, Control, Evidence, SqlPath
    PROVE  Evidence'
<1> DEFINE results == IF CurrentRoute(st) = "high_risk_panel" THEN RecordsForPanel(st)
                      ELSE IF CurrentRoute(st) = "hybrid" THEN ReconciledWithPolicy(st)
                      ELSE RecordsAnswer(st)
<1>1. Runs(SqlStage, results) /\ node' = AfterSqlPath(st')
  BY DEF SqlPath
<1>2. node = SqlStage /\ node \in StageNodes /\ req' = req
  BY <1>1, RunsFacts DEF StageNodes
<1>3. /\ st \in States /\ Granted(st) /\ CurrentRoute(st) \in Routes /\ st.missing = "none"
      /\ CurrentRoute(st) # "rag" /\ RouteFits(st)
      /\ req.tables = TRUE /\ req.tables \in BOOLEAN /\ req.docs = TRUE
  BY <1>2 DEF TypeOK, Control, RouteIsGranted, Evidence, Underway, Requests
<1>4. CASE Stopped(st')
  BY <1>1, <1>4, NodesDiffer, LeavesUnderway DEF AfterSqlPath
<1>5. CASE ~Stopped(st')
  <2>1. st' \in results
    <3>1. st' \in results \/ st' = BudgetStop(st)
      BY <1>1, RunsFacts
    <3>2. QED
      BY <1>5, <3>1, StopKeepsEvidence
  <2>2. /\ KeepsRoute(st') /\ st'.clauses = st.clauses
        /\ \/ CurrentRoute(st) = "high_risk_panel" /\ st'.missing = "none"
           \/ /\ CurrentRoute(st) # "high_risk_panel" /\ st'.draft /\ st'.missing = "none"
              /\ st'.path = IF CurrentRoute(st) = "hybrid" THEN "hybrid" ELSE "nl2sql"
           \/ /\ CurrentRoute(st) # "high_risk_panel"
              /\ st'.missing \in {"no_records", "no_evidence"}
    BY <1>3, <2>1, RecordedEvidence, Zenon
  <2>3. CurrentRoute(st') = CurrentRoute(st)
    BY <2>2 DEF KeepsRoute, CurrentRoute, HighRisk
  <2> DEFINE route == CurrentRoute(st)
             next == NextStage(SqlStage, route, req.tables, req.docs)
  <2>4. \/ node' = "no_answer" \/ node' = "escalation_manager"
        \/ /\ node' = next
           /\ ~(route \in {"nl2sql", "hybrid"}
                   /\ st'.missing \in {"no_records", "no_evidence"})
    BY <1>1, <1>5, <2>3 DEF AfterSqlPath, Next_Stage
  <2>5. /\ next \in {PanelStage, Validation}
        /\ next = Validation => route # "high_risk_panel"
        /\ next = PanelStage => route = "high_risk_panel"
    <3> HIDE DEF route
    <3>1. route \in Routes
      BY <1>3 DEF route
    <3>2. QED
      BY <1>3, <3>1, NextStageGranted, StagesFollow
  <2> HIDE DEF next, results
  <2>6. RouteFits(st) /\ (CurrentRoute(st) = "nl2sql" => st'.clauses = "none")
    BY <1>3, <2>2 DEF RouteFits
  <2>7. CASE node' = "no_answer" \/ node' = "escalation_manager"
    BY <2>7, NodesDiffer, LeavesUnderway
  <2>8. CASE /\ node' = next
             /\ ~(route \in {"nl2sql", "hybrid"}
                     /\ st'.missing \in {"no_records", "no_evidence"})
    <3>1. CASE next = PanelStage
      <4>1. st'.missing = "none"
        BY <2>2, <2>5, <3>1
      <4>2. QED
        BY <1>2, <1>3, <2>2, <2>6, <2>8, <3>1, <4>1, StageEvidence
    <3>2. CASE next = Validation
      <4>1. route \in {"nl2sql", "hybrid"}
        BY <1>3, <2>5, <3>2 DEF Routes
      <4>2. st'.missing = "none" /\ st'.draft /\ st'.path = route
        BY <2>2, <2>8, <4>1
      <4>3. QED
        BY <1>2, <1>3, <2>2, <2>6, <2>8, <3>2, <4>2, StageEvidence
    <3>3. QED
      BY <2>5, <3>1, <3>2
  <2>9. QED
    BY <2>4, <2>7, <2>8
<1>6. QED
  BY <1>4, <1>5

LEMMA MultiAgentPanelEvidence ==
    ASSUME TypeOK, Control, Evidence, MultiAgentPanel
    PROVE  Evidence'
<1> DEFINE agreed == [Spend(st, 70) EXCEPT !.path = "high_risk_panel", !.draft = TRUE,
                                           !.split = FALSE]
           repaired(b) == [Spend(st, 95) EXCEPT !.path = "high_risk_panel",
                                                !.draft = TRUE, !.split = b]
           results == {agreed} \cup {repaired(b) : b \in BOOLEAN}
<1>1. Runs(PanelStage, results) /\ node' = AfterPanel(st')
  BY DEF MultiAgentPanel
<1>2. node = PanelStage /\ node \in StageNodes
  BY <1>1, RunsFacts DEF StageNodes
<1>3. /\ st \in States /\ HighRisk(st) /\ CurrentRoute(st) = "high_risk_panel"
      /\ st.missing = "none"
  BY <1>2 DEF TypeOK, Control, RouteIsGranted, Evidence, Underway, CurrentRoute
<1> DEFINE Same(r) == /\ KeepsRoute(r) /\ r.missing = "none" /\ r.draft
                      /\ r.path = "high_risk_panel"
<1>4. Same(agreed)
  BY <1>3 DEF KeepsRoute, Spend, States
<1>5. \A b \in BOOLEAN : Same(repaired(b))
  BY <1>3 DEF KeepsRoute, Spend, States
<1> HIDE DEF agreed, repaired
<1>6. CASE Stopped(st')
  BY <1>1, <1>6, NodesDiffer, LeavesUnderway DEF AfterPanel
<1>7. CASE ~Stopped(st')
  <2>1. st' \in results \/ st' = BudgetStop(st)
    BY <1>1, RunsFacts
  <2>2. Same(st')
    BY <1>4, <1>5, <1>7, <2>1, StopKeepsEvidence
  <2>3. node' = Validation
    BY <1>1, <1>7 DEF AfterPanel
  <2>4. QED
    BY <1>2, <1>3, <2>2, <2>3, StageEvidence
<1>8. QED
  BY <1>6, <1>7

-----------------------------------------------------------------------------
(* The validator and the repair. *)

LEMMA ComplianceValidationEvidence ==
    ASSUME TypeOK, Control, Evidence, ComplianceValidation
    PROVE  Evidence'
<1> DEFINE results == {[Spend(st, j[2]) EXCEPT !.verdict = j[1]] : j \in Judgements(st)}
<1>1. Runs(Validation, results) /\ node' = AfterValidation(st', now')
  BY DEF ComplianceValidation
<1>2. node = Validation /\ st \in States
  BY <1>1, RunsFacts DEF TypeOK
<1>3. st.missing = "none" /\ RouteFits(st) /\ st.path = CurrentRoute(st)
  BY <1>2 DEF Evidence, Underway
<1>4. CASE st' = BudgetStop(st)
  <2>1. node' = "escalation_manager"
    BY <1>1, <1>4, StopKeepsEvidence DEF AfterValidation
  <2>2. QED
    BY <2>1, NodesDiffer, LeavesUnderway
<1>5. CASE st' \in results
  <2>1. PICK j \in Judgements(st) : st' = [Spend(st, j[2]) EXCEPT !.verdict = j[1]]
    BY <1>5
  <2>2. /\ KeepsRoute(st') /\ st'.missing = "none" /\ st'.rows = st.rows
        /\ st'.clauses = st.clauses /\ st'.path = st.path
    BY <1>2, <1>3, <2>1 DEF KeepsRoute, Spend, States
  <2>3. /\ RouteFits(st)' /\ CurrentRoute(st') = CurrentRoute(st)
        /\ HighRisk(st') = HighRisk(st)
    <3>1. CurrentRoute(st) = "nl2sql" => st'.clauses = "none"
      BY <1>3, <2>2 DEF RouteFits
    <3>2. QED
      BY <1>3, <2>2, <3>1, KeptRouteFits
  <2>4. \/ node' \in {"escalation_manager", "confidence_scoring", "no_answer"}
        \/ node' = "reflection" /\ ~HighRisk(st')
    BY <1>1 DEF AfterValidation
  <2>5. CASE node' \in {"escalation_manager", "confidence_scoring", "no_answer"}
    BY <2>5, NodesDiffer, LeavesUnderway
  <2>6. CASE node' = "reflection" /\ ~HighRisk(st')
    <3>1. /\ node' \notin Early /\ node' \notin StageNodes /\ node' # "planner"
          /\ node' # Validation
      BY <2>6, NodesDiffer
    <3>2. node' # RagStage /\ node' # SqlStage
      BY <3>1 DEF StageNodes
    <3>3. QED
      BY <1>3, <2>2, <2>3, <2>6, <3>1, <3>2 DEF Evidence
  <2>7. QED
    BY <2>4, <2>5, <2>6
<1>6. QED
  BY <1>1, <1>4, <1>5, RunsFacts

\* What a repair hands to the planner.
LEMMA RepairedFields ==
    ASSUME NEW s \in States, NEW y \in Strategies
    PROVE  /\ Repaired(s, y).missing = s.missing /\ Repaired(s, y).plan = s.plan
           /\ Repaired(s, y).intent = s.intent
           /\ Repaired(s, y).replan /\ Repaired(s, y).reflections > 0
           /\ y # "sql_renarrate" => Repaired(s, y).clauses = "none"
           /\ y = "sql_renarrate" => Repaired(s, y).clauses = s.clauses
           /\ y \notin {"sql_renarrate", "hybrid_redraft"} => ~Repaired(s, y).rows
<1>1. s.reflections \in Nat
  BY DEF States
<1>2. QED
  BY <1>1 DEF Repaired, States

LEMMA ReflectionEvidence ==
    ASSUME TypeOK, Control, Evidence, Reflection
    PROVE  Evidence'
<1>1. Runs("reflection", Reflected(st)) /\ node' = "planner"
  BY DEF Reflection
<1>2. node = "reflection" /\ st \in States
  BY <1>1, RunsFacts DEF TypeOK
<1>3. /\ st.missing = "none" /\ RouteFits(st) /\ ~HighRisk(st)
      /\ st.path = CurrentRoute(st) /\ CurrentRoute(st) = st.routed
      /\ st.plan = st.routed /\ RecordsPlan(st, st.routed)
      /\ CurrentPath(st) = st.routed
  <2>1. st.missing = "none" /\ RouteFits(st) /\ ~HighRisk(st) /\ st.path = CurrentRoute(st)
    BY <1>2 DEF Evidence, Underway
  <2>2. QED
    BY <2>1 DEF RouteFits, CurrentRoute, CurrentPath
<1> DEFINE Ready(r) == /\ r.missing = "none"
                       /\ Stopped(r) \/ (r.clauses = "none" /\ Carried(r))
<1>4. Ready(BudgetStop(st))
  BY <1>3, StopKeepsEvidence, TypeOK
<1>5. ASSUME NEW r \in Reflected(st)
      PROVE  Ready(r)
  <2>1. CASE CurrentPath(st) = "rag"
    <3>1. r = Repaired(st, "rag_widen_and_fix")
      BY <1>5, <2>1 DEF Reflected
    <3>2. QED
      BY <1>2, <1>3, <3>1, RepairedFields, Values DEF Carried
  <2>2. CASE CurrentPath(st) = "nl2sql" /\ st.rows
    <3>1. r = Repaired(st, "sql_renarrate")
      BY <1>5, <2>2 DEF Reflected
    <3>2. st.clauses = "none"
      BY <1>3, <2>2 DEF RouteFits
    <3>3. QED
      BY <1>2, <1>3, <2>2, <3>1, <3>2, RepairedFields, Values DEF Carried, RecordsPlan
  <2>3. CASE CurrentPath(st) = "hybrid" /\ st.rows
    <3>1. r = Repaired(st, "hybrid_redraft")
      BY <1>5, <2>3 DEF Reflected
    <3>2. QED
      BY <1>2, <1>3, <2>3, <3>1, RepairedFields, Values DEF Carried, RecordsPlan
  <2>4. CASE /\ CurrentPath(st) # "rag"
             /\ ~(CurrentPath(st) \in {"nl2sql", "hybrid"} /\ st.rows)
    <3> DEFINE again == Repaired(Spend(st, 9), "llm_replan")
    <3>1. \/ r = [Spend(st, 9) EXCEPT !.reason = TRUE, !.reflections = @ + 1]
          \/ \E p \in EvidencePaths : r = [again EXCEPT !.plan = p]
      BY <1>5, <2>4 DEF Reflected
    <3>2. CASE r = [Spend(st, 9) EXCEPT !.reason = TRUE, !.reflections = @ + 1]
      BY <1>2, <1>3, <3>2 DEF Stopped, Spend, States
    <3>3. Spend(st, 9) \in States /\ Spend(st, 9).missing = "none"
      <4>1. Spend(st, 9) \in States
        BY <1>2, MeterUpdates
      <4>2. QED
        BY <1>2, <1>3, <4>1 DEF Spend, States
    <3>4. again \in States
      BY <3>3, RepairedType, Values
    <3>5. again.missing = "none" /\ again.clauses = "none" /\ ~again.rows
      BY <3>3, RepairedFields, Values
    <3> HIDE DEF again
    <3>6. ASSUME NEW p \in EvidencePaths, r = [again EXCEPT !.plan = p]
          PROVE  r.missing = "none" /\ r.clauses = "none" /\ ~r.rows
      BY <3>4, <3>5, <3>6 DEF States
    <3>7. QED
      BY <3>1, <3>2, <3>6 DEF Carried
  <2>5. QED
    BY <2>1, <2>2, <2>3, <2>4
<1>6. Ready(st)'
  BY <1>1, <1>4, <1>5, RunsFacts
<1>7. /\ node' \notin Early /\ node' \notin StageNodes /\ node' # "reflection"
      /\ node' # Validation
  BY <1>1, NodesDiffer
<1>8. node' # RagStage /\ node' # SqlStage
  BY <1>7 DEF StageNodes
<1>9. QED
  BY <1>6, <1>7, <1>8 DEF Evidence

-----------------------------------------------------------------------------
(* The graph. *)

LEMMA LastNodesEvidence ==
    ASSUME TypeOK,
           \/ ConfidenceScoring \/ NoAnswer \/ OutputGuardrail
           \/ EscalationManager \/ SafeRefusal \/ Clarification \/ Raise
    PROVE  Evidence'
<1>1. node' \in {"escalation_manager", "output_guardrail", "END", "RAISED"}
  BY DEF ConfidenceScoring, NoAnswer, OutputGuardrail, EscalationManager, SafeRefusal,
         Clarification, Raise, AfterConfidence, AfterOutputGuardrail
<1>2. QED
  BY <1>1, NodesDiffer, LeavesUnderway

LEMMA InitEvidence == Init => Evidence
<1> SUFFICES ASSUME Init PROVE Evidence
  OBVIOUS
<1>1. node \in Early /\ st = InitialState
  BY DEF Init, Early
<1>2. node \notin StageNodes /\ node # "planner" /\ node # "reflection" /\ node # Validation
  BY <1>1, NodesDiffer
<1>3. st.missing = "none" /\ st.clauses = "none" /\ ~st.rows
  BY <1>1 DEF InitialState
<1>4. QED
  BY <1>2, <1>3 DEF Evidence, StageNodes

\* What every node finds is what the edges that lead to it leave, on the first
\* pass and on every one a repair starts.
THEOREM EvidenceIsCarried == Spec => []Evidence
<1>1. ASSUME TypeOK, Control, Evidence, [Next]_vars
      PROVE  Evidence'
  <2>1. CASE UNCHANGED vars
    <3>1. node' = node /\ req' = req /\ st' = st
      BY <2>1 DEF vars
    <3>2. QED
      BY <1>1, <3>1 DEF Evidence, RouteFits, RecordsPlan, Carried, Stopped, CurrentRoute,
                        HighRisk
  <2>2. CASE Next
    BY <1>1, <2>2, EarlyNodesEvidence, PlannerEvidence, RagPathEvidence, SqlPathEvidence,
       MultiAgentPanelEvidence, ComplianceValidationEvidence, ReflectionEvidence,
       LastNodesEvidence DEF Next
  <2>3. QED
    BY <1>1, <2>1, <2>2
<1>2. QED
  BY <1>1, InitEvidence, Invariant, PTL DEF Spec

\* The validator has a draft to judge, never a reply that says nothing was found
\* (validation.py; the stages' own edges send such a reply to no_answer).
THEOREM DraftedForTheValidator == Spec => []ValidatorHasADraft
<1>1. Evidence => ValidatorHasADraft
  BY DEF Evidence, ValidatorHasADraft, Underway
<1>2. QED
  BY <1>1, EvidenceIsCarried, PTL

\* A records answer is judged and released without a citation only where no clause
\* of an earlier pass is left, and rows that reach the validator on the policy route
\* are those of a repaired, degraded hybrid answer (reflection.py).
THEOREM EvidenceFits == Spec => []EvidenceFitsTheRoute
<1>1. Evidence => EvidenceFitsTheRoute
  BY DEF Evidence, RouteFits, EvidenceFitsTheRoute
<1>2. QED
  BY <1>1, EvidenceIsCarried, PTL

-----------------------------------------------------------------------------
(* What is spent when a node starts: at most so much on the first pass, and *)
(* what a repair was entered with on the later ones.                        *)

Spent(s, least, most) == s.tokens >= least /\ s.tokens <= most

EarlyMeter ==
    /\ node \in {"input_guardrail", "query_rewrite"} => Spent(st, 0, 0)
    /\ node = "intent_classification" => Spent(st, 0, 6)
    /\ node \in {"entity_resolution", "risk_assessment"} => Spent(st, 5, 11)
    /\ node \in Early => st.reflections = 0

\* A plan that the policy does not change.
StandingRecordsPlan(s) ==
    req.tables /\ s.plan = "nl2sql" /\ "nl2sql" \in RuleFor(s.intent).allowed

\* A plan handed back by a reflection needs no model call.  The plan of a records
\* answer is handed back with less left, and on the first repair with less spent, than
\* that of any other: neither the answer nor another pass costs as much.
SentBack(s) ==
    /\ s.reflections > 0 /\ s.replan /\ s.plan # "none" /\ ~HighRisk(s)
    /\ TokensLeft(s) >= 54
    /\ TokensLeft(s) >= 65 \/ StandingRecordsPlan(s)
    /\ s.reflections = 1 => s.tokens >= 42 \/ StandingRecordsPlan(s)

PlannerMeter(s) ==
    /\ TokensLeft(s) >= 8
    /\ Stopped(s) \/ (s.reflections = 0 /\ Spent(s, 12, 18)) \/ SentBack(s)

StageMeter(s, most) ==
    /\ s.reflections = 0 => Spent(s, 12, most)
    /\ s.reflections > 0 =>
           /\ ~HighRisk(s) /\ TokensLeft(s) >= 54
           /\ TokensLeft(s) >= 65 \/ CurrentRoute(s) = "nl2sql"
    /\ s.reflections = 1 => s.tokens >= 42 \/ CurrentRoute(s) = "nl2sql"

FirstDraft(s) ==
    /\ CurrentRoute(s) = "high_risk_panel" => Spent(s, 0, 127)
    /\ CurrentRoute(s) = "nl2sql" => Spent(s, 27, 41)
    /\ CurrentRoute(s) \in {"rag", "hybrid"} => Spent(s, 42, 66)

DraftMeter(s) ==
    /\ CurrentRoute(s) \in Routes
    /\ CurrentRoute(s) = "nl2sql" => s.rows
    /\ s.reflections = 0 => FirstDraft(s)
    /\ s.reflections > 0 => ~HighRisk(s) /\ TokensLeft(s) >= 25
    /\ s.reflections = 1 /\ CurrentRoute(s) = "hybrid" => s.tokens >= 82

\* What another pass is estimated to spend.
RouteEstimate(route) == IF route = "rag" THEN 72 ELSE IF route = "nl2sql" THEN 54 ELSE 84

RepairMeter(s) ==
    /\ CurrentRoute(s) \in Routes
    /\ CurrentRoute(s) = "nl2sql" => s.rows
    /\ TokensLeft(s) >= RouteEstimate(CurrentRoute(s))
    /\ s.reflections = 0 => s.tokens >= 42 \/ CurrentRoute(s) = "nl2sql"

Meter ==
    /\ EarlyMeter
    /\ node = "planner" => PlannerMeter(st)
    /\ node \in {RagStage, SqlStage} => StageMeter(st, 26)
    /\ node = PanelStage => StageMeter(st, 32)
    /\ node = Validation => DraftMeter(st)
    /\ node = "reflection" => RepairMeter(st)

LEMMA UnmeteredNode ==
    ASSUME node' \notin Underway
    PROVE  Meter' /\ node' # "reflection"
BY DEF Meter, EarlyMeter, Underway, Early, StageNodes

LEMMA MeterTypes ==
    ASSUME TypeOK
    PROVE  /\ st \in States /\ st.tokens \in Nat /\ st.reflections \in Nat
           /\ TokenBudget \in Nat /\ BudgetStop(st).tokens = st.tokens
           /\ BudgetStop(st).reflections = st.reflections
BY TokenAssumption DEF TypeOK, States, BudgetStop

\* What a result spends.
Paid(r, least, most) ==
    /\ r.tokens \in Nat
    /\ r.tokens >= st.tokens + least /\ r.tokens <= st.tokens + most
    /\ r.reflections = st.reflections

LEMMA StopPaysNothing ==
    ASSUME TypeOK, NEW most \in Nat
    PROVE  Paid(BudgetStop(st), 0, most)
BY MeterTypes DEF Paid

-----------------------------------------------------------------------------
(* Before the planner. *)

LEMMA EarlyNodesMeter ==
    ASSUME TypeOK, Meter, TokenBudget >= 152,
           \/ InputGuardrail \/ QueryRewrite \/ IntentClassification
           \/ EntityResolution \/ RiskAssessment
    PROVE  Meter' /\ node' # "reflection"
<1> USE MeterTypes
<1>1. st \in States /\ Stopped(BudgetStop(st))
  BY StopKeepsEvidence
<1>2. CASE InputGuardrail
  <2> DEFINE results == {st, [st EXCEPT !.outcome = "refused"]}
  <2>1. Runs("input_guardrail", results) /\ node' = AfterGuardrail(st')
    BY <1>2 DEF InputGuardrail
  <2>2. node = "input_guardrail" /\ (st' \in results \/ st' = BudgetStop(st))
    BY <2>1, RunsFacts
  <2>3. Paid(st', 0, 0)
    BY <1>1, <2>2 DEF Paid, States
  <2> HIDE DEF results
  <2>4. st.tokens = 0 /\ st.reflections = 0
    BY <2>2 DEF Meter, EarlyMeter, Spent, Early
  <2>5. node' \notin Underway \/ node' = "query_rewrite"
    BY <2>1, NodesDiffer DEF AfterGuardrail
  <2>6. QED
    BY <2>3, <2>4, <2>5, UnmeteredNode
       DEF Meter, EarlyMeter, Spent, Paid, RagStage, SqlStage, PanelStage, Validation
<1>3. CASE QueryRewrite
  <2>1. Runs("query_rewrite", {st, Spend(st, 6)}) /\ node' = "intent_classification"
    BY <1>3 DEF QueryRewrite
  <2>2. node = "query_rewrite" /\ (st' \in {st, Spend(st, 6)} \/ st' = BudgetStop(st))
    BY <2>1, RunsFacts
  <2>3. Paid(st', 0, 6)
    BY <1>1, <2>2 DEF Paid, Spend, States
  <2>4. st.tokens = 0 /\ st.reflections = 0
    BY <2>2 DEF Meter, EarlyMeter, Spent, Early
  <2>5. QED
    BY <2>1, <2>3, <2>4
       DEF Meter, EarlyMeter, Spent, Paid, RagStage, SqlStage, PanelStage, Validation
<1>4. CASE IntentClassification
  <2> DEFINE results == {[Spend(st, 5) EXCEPT !.intent = i] : i \in Intents}
                          \cup {[Spend(st, 5) EXCEPT !.outcome = "refused"]}
  <2>1. Runs("intent_classification", results) /\ node' = AfterIntent(st')
    BY <1>4 DEF IntentClassification
  <2>2. node = "intent_classification" /\ (st' \in results \/ st' = BudgetStop(st))
    BY <2>1, RunsFacts
  <2>3. st' \in results => Paid(st', 5, 5)
    <3>1. Paid([Spend(st, 5) EXCEPT !.outcome = "refused"], 5, 5)
      BY <1>1 DEF Paid, Spend, States
    <3>2. \A i \in Intents : Paid([Spend(st, 5) EXCEPT !.intent = i], 5, 5)
      BY <1>1 DEF Paid, Spend, States
    <3>3. QED
      BY <3>1, <3>2
  <2> HIDE DEF results
  <2>4. Spent(st, 0, 6) /\ st.reflections = 0
    BY <2>2 DEF Meter, EarlyMeter, Early
  <2>5. \/ node' \notin Underway
        \/ node' = "entity_resolution" /\ st' \in results
    BY <1>1, <2>1, <2>2, NodesDiffer DEF AfterIntent
  <2>6. QED
    BY <2>3, <2>4, <2>5, UnmeteredNode
       DEF Meter, EarlyMeter, Spent, Paid, RagStage, SqlStage, PanelStage, Validation
<1>5. CASE EntityResolution
  <2> DEFINE asked == IF req.tables
                      THEN {[st EXCEPT !.outcome = "clarification_required"]} ELSE {}
             results == {st} \cup asked
  <2>1. Runs("entity_resolution", results) /\ node' = AfterEntityResolution(st')
    BY <1>5 DEF EntityResolution
  <2>2. node = "entity_resolution" /\ (st' \in results \/ st' = BudgetStop(st))
    BY <2>1, RunsFacts
  <2>3. Paid(st', 0, 0)
    BY <1>1, <2>2 DEF Paid, States
  <2> HIDE DEF results
  <2>4. Spent(st, 5, 11) /\ st.reflections = 0
    BY <2>2 DEF Meter, EarlyMeter, Early
  <2>5. node' \notin Underway \/ node' = "risk_assessment"
    BY <2>1, NodesDiffer DEF AfterEntityResolution
  <2>6. QED
    BY <2>3, <2>4, <2>5, UnmeteredNode
       DEF Meter, EarlyMeter, Spent, Paid, RagStage, SqlStage, PanelStage, Validation
<1>6. CASE RiskAssessment
  <2> DEFINE results == {[Spend(st, 7) EXCEPT !.risk = "Low"],
                         [Spend(st, 7) EXCEPT !.risk = "High",
                                              !.deadline = Wider(@, HighRiskDeadline)]}
  <2>1. Runs("risk_assessment", results) /\ node' = AfterRisk(st')
    BY <1>6 DEF RiskAssessment
  <2>2. node = "risk_assessment" /\ (st' \in results \/ st' = BudgetStop(st))
    BY <2>1, RunsFacts
  <2>3. st' \in results => Paid(st', 7, 7)
    <3>1. Paid([Spend(st, 7) EXCEPT !.risk = "Low"], 7, 7)
      BY <1>1 DEF Paid, Spend, States
    <3>2. Paid([Spend(st, 7) EXCEPT !.risk = "High",
                                    !.deadline = Wider(@, HighRiskDeadline)], 7, 7)
      BY <1>1 DEF Paid, Spend, States
    <3>3. QED
      BY <3>1, <3>2
  <2> HIDE DEF results
  <2>4. Spent(st, 5, 11) /\ st.reflections = 0
    BY <2>2 DEF Meter, EarlyMeter, Early
  <2>5. node' \notin Underway \/ (node' = "planner" /\ st' \in results)
    BY <1>1, <2>1, <2>2, NodesDiffer DEF AfterRisk
  <2>6. CASE node' = "planner" /\ st' \in results
    <3>1. Spent(st', 12, 18) /\ st'.reflections = 0 /\ TokensLeft(st') >= 8
      BY <2>3, <2>4, <2>6 DEF Paid, Spent, TokensLeft
    <3>2. PlannerMeter(st)'
      BY <3>1 DEF PlannerMeter
    <3>3. QED
      BY <2>6, <3>2
         DEF Meter, EarlyMeter, Early, RagStage, SqlStage, PanelStage, Validation
  <2>7. QED
    BY <2>5, <2>6, UnmeteredNode
<1>7. QED
  BY <1>2, <1>3, <1>4, <1>5, <1>6
-----------------------------------------------------------------------------
(* The planner. *)

LEMMA SettledCost ==
    ASSUME NEW s \in States, NEW k \in Nat, NEW path \in Routes, NEW dl \in Deadlines,
           NEW worse \in BOOLEAN
    PROVE  SettledAs(s, k, path, dl, worse).tokens = s.tokens + k
<1> DEFINE plan == [Spend(s, k) EXCEPT !.plan = path, !.routed = path,
                                       !.replan = FALSE, !.deadline = dl]
<1>1. plan.tokens = s.tokens + k
  BY DEF Spend, States
<1>2. plan \in States
  <2>1. Spend(s, k) \in States /\ path \in EvidencePaths
    BY MeterUpdates, Values
  <2>2. QED
    BY <2>1, PlanUpdates, Zenon
<1> HIDE DEF plan
<1>3. [plan EXCEPT !.degraded = TRUE].tokens = s.tokens + k
  BY <1>1, <1>2 DEF States
<1>4. Degrade(plan, worse).tokens = s.tokens + k
  BY <1>1, <1>3 DEF Degrade
<1>5. QED
  BY <1>4 DEF plan, SettledAs

\* A records plan that the intent and the role allow is never changed.
LEMMA RecordsPlanStands ==
    ASSUME NEW i, "nl2sql" \in RuleFor(i).allowed, NEW tight
    PROVE  /\ ResolvePath(i, FALSE, "nl2sql", TRUE, TRUE) = Decision("nl2sql", FALSE)
           /\ DegradeForBudget("nl2sql", i, tight) = Decision("nl2sql", FALSE)
BY DEF ResolvePath, CapabilityGates, DegradeForBudget, NeedsDocuments

\* The model is asked for a plan on the first pass only.
LEMMA ProposalCost ==
    ASSUME TypeOK, PlannerMeter(st), ~Stopped(st), NEW p \in Proposals(st)
    PROVE  /\ p[2] \in Nat /\ p[2] <= 8
           /\ st.reflections > 0 => p = <<st.plan, 0>>
<1>1. \/ p = <<st.plan, 0>> /\ st.replan /\ st.plan # "none"
      \/ /\ ~(st.replan /\ st.plan # "none")
         /\ \/ p = <<RuleFor(st.intent).default, 0>>
            \/ \E q \in EvidencePaths : p = <<q, 8>>
            \/ p = <<"nl2sql", 0>>
  BY DEF Proposals
<1>2. p[2] \in Nat /\ p[2] <= 8
  BY <1>1
<1>3. st.reflections > 0 => st.replan /\ st.plan # "none"
  BY DEF PlannerMeter, SentBack
<1>4. QED
  BY <1>1, <1>2, <1>3

LEMMA PlannerKeepsMeter ==
    ASSUME TypeOK, TypeOK', Control, Control', Meter, Planner
    PROVE  Meter' /\ node' # "reflection"
<1>1. /\ Runs("planner", UNION {Planned(st, t) : t \in DuringNode})
      /\ node' = AfterPlanner(st')
  BY DEF Planner
<1>2. node = "planner" /\ req' = req /\ st \in States /\ PlannerMeter(st)
  BY <1>1, RunsFacts DEF TypeOK, Meter
<1>3. CASE Stopped(st')
  BY <1>1, <1>3, NodesDiffer, UnmeteredNode DEF AfterPlanner
<1>4. CASE ~Stopped(st')
  <2>1. PICK t \in Nat : st' \in Planned(st, t)
    <3>1. DuringNode \subseteq Nat
      BY <1>1, RunsFacts DEF DuringNode
    <3>2. QED
      BY <1>1, <1>4, <3>1, RunsFacts, StopKeepsEvidence
  <2> DEFINE decision(p) == ResolvePath(st.intent, HighRisk(st), p[1], req.tables, req.docs)
  <2>2. PICK p \in Proposals(st) :
            st' = IF decision(p).path = NoAccess THEN Refuse(st, p)
                  ELSE Settle(st, p, decision(p), t)
    BY <2>1 DEF Planned
  <2>3. p[1] \in EvidencePaths /\ p[2] \in Nat
    BY <2>2, ProposalType
  <2>4. /\ st.intent \in Intents \cup {"none"} /\ HighRisk(st) \in BOOLEAN
        /\ req.tables \in BOOLEAN /\ req.docs = TRUE /\ st.deadline \in Deadlines
    BY DEF TypeOK, States, Requests, HighRisk, Deadlines
  <2>5. decision(p).path \in GrantedPaths(HighRisk(st), req.tables, req.docs)
    BY <2>3, <2>4, DecisionIsGranted
  <2>6. decision(p).partial \in BOOLEAN
    BY DecisionIsMarked
  <2>7. CASE decision(p).path = NoAccess
    <3> HIDE DEF decision
    <3>1. st' = Refuse(st, p) /\ ~HighRisk(st)
      BY <2>2, <2>5, <2>7 DEF GrantedPaths, NoAccess
    <3>2. st'.routed = NoAccess /\ ~HighRisk(st')
      BY <1>2, <2>3, <3>1 DEF Refuse, Spend, HighRisk, States
    <3>3. QED
      BY <1>1, <3>2, NodesDiffer, UnmeteredNode DEF AfterPlanner
  <2>8. CASE decision(p).path # NoAccess
    <3> DEFINE path == decision(p).path
               wider == Wider(st.deadline, PathDeadline(path))
               tight == wider - t < HybridMin
               budget == DegradeForBudget(path, st.intent, tight)
               partial == decision(p).partial \/ budget.partial
    <3>1. path \in Routes /\ (path = "high_risk_panel" <=> HighRisk(st))
      BY <2>5, <2>8 DEF GrantedPaths, Routes
    <3>2. ASSUME ~HighRisk(st), req.tables, p[1] = "nl2sql",
                 "nl2sql" \in RuleFor(st.intent).allowed
          PROVE  budget.path = "nl2sql"
      <4>1. decision(p) = ResolvePath(st.intent, FALSE, "nl2sql", TRUE, TRUE)
        BY <2>4, <3>2
      <4>2. decision(p) = Decision("nl2sql", FALSE)
        BY <3>2, <4>1, RecordsPlanStands, Zenon
      <4> HIDE DEF decision
      <4>3. path = "nl2sql"
        BY <4>2 DEF Decision
      <4> HIDE DEF tight, path
      <4>4. budget = Decision("nl2sql", FALSE)
        BY <3>2, <4>3, RecordsPlanStands, Zenon
      <4> HIDE DEF budget
      <4>5. QED
        BY <4>4 DEF Decision
    <3> HIDE DEF decision
    <3>3. wider \in Deadlines
      <4>1. PathDeadline(path) \in Deadlines
        BY DEF PathDeadline, Deadlines
      <4>2. QED
        BY <2>4, <4>1, WiderType
    <3>4. st' = Degrade([Spend(st, p[2]) EXCEPT
                             !.plan = budget.path, !.routed = budget.path,
                             !.replan = FALSE, !.deadline = wider], partial)
      <4>1. st' = Settle(st, p, decision(p), t)
        BY <2>2, <2>8
      <4>2. QED
        BY <4>1 DEF Settle
    <3>5. tight \in BOOLEAN
      OBVIOUS
    <3> HIDE DEF path, wider, tight
    <3>6. /\ budget.path \in Routes /\ budget.partial \in BOOLEAN
          /\ budget.path \in IF path = "hybrid" THEN {"rag", "nl2sql", "hybrid"} ELSE {path}
      BY <2>4, <3>1, <3>5, DegradeIsGranted
    <3>7. budget.path = "high_risk_panel" <=> HighRisk(st)
      BY <3>1, <3>6
    <3>8. partial \in BOOLEAN
      BY <2>6, <3>6
    <3> DEFINE new == budget.path
    <3>9. new \in Routes
      BY <3>6
    <3> HIDE DEF budget, partial
    <3>10. SettledFrom(st', st, new, partial) /\ st'.tokens = st.tokens + p[2]
      <4> HIDE DEF new
      <4> DEFINE settled == SettledAs(st, p[2], new, wider, partial)
      <4>1. st' = settled
        BY <3>4 DEF new, SettledAs
      <4>2. new \in Routes
        BY <3>9
      <4>3. SettledFrom(settled, st, new, partial)
        BY <1>2, <2>3, <3>3, <3>8, <4>2, SettledFields
      <4>4. settled.tokens = st.tokens + p[2]
        BY <1>2, <2>3, <3>3, <3>8, <4>2, SettledCost
      <4>5. QED
        BY <4>1, <4>3, <4>4
    <3>11. /\ st'.routed = new /\ st'.risk = st.risk /\ st'.reflections = st.reflections
           /\ st'.reason = st.reason /\ st'.stopped = st.stopped
      BY <3>10 DEF SettledFrom
    <3>12. CurrentRoute(st') = new /\ HighRisk(st') = HighRisk(st)
      BY <3>7, <3>11 DEF CurrentRoute, HighRisk, new
    <3>13. ~Stopped(st)
      BY <1>4, <3>11 DEF Stopped
    <3>14. /\ p[2] \in Nat /\ p[2] <= 8
           /\ st.reflections > 0 => p = <<st.plan, 0>>
      BY <1>2, <2>2, <3>13, ProposalCost
    <3>15. StageMeter(st', 26) /\ StageMeter(st', 32)
      <4>1. CASE st.reflections = 0 /\ Spent(st, 12, 18)
        BY <3>10, <3>11, <3>14, <4>1, MeterTypes DEF StageMeter, Spent
      <4>2. CASE SentBack(st)
        <5>1. st'.tokens = st.tokens /\ p[1] = st.plan
          BY <3>10, <3>14, <4>2, MeterTypes DEF SentBack
        <5>0. StandingRecordsPlan(st) => CurrentRoute(st') = "nl2sql"
          BY <3>2, <3>12, <4>2, <5>1 DEF SentBack, StandingRecordsPlan, new
        <5>2. /\ TokensLeft(st') >= 54 /\ ~HighRisk(st')
              /\ TokensLeft(st') >= 65 \/ CurrentRoute(st') = "nl2sql"
          BY <3>12, <4>2, <5>0, <5>1 DEF TokensLeft, SentBack
        <5>3. st'.reflections = 1 => st'.tokens >= 42 \/ CurrentRoute(st') = "nl2sql"
          BY <3>11, <4>2, <5>0, <5>1 DEF SentBack
        <5>4. QED
          BY <3>11, <4>2, <5>2, <5>3 DEF StageMeter, SentBack
      <4>3. QED
        BY <1>2, <3>13, <4>1, <4>2 DEF PlannerMeter
    <3>16. node' \in StageNodes
      <4>1. new \in {"nl2sql", "hybrid"} => req.tables
        BY <1>2, <3>11 DEF Control, RouteIsGranted, Granted
      <4>2. FirstStage(new, req.tables, req.docs) \in StageNodes
        <5> HIDE DEF new
        <5>1. QED
          BY <2>4, <3>9, <4>1, FirstStageGranted DEF StageNodes
      <4>3. new # NoAccess
        BY <3>9 DEF Routes, NoAccess
      <4>4. QED
        BY <1>1, <1>2, <1>4, <3>11, <3>12, <4>2, <4>3 DEF AfterPlanner
    <3>17. QED
      <4>1. node' \notin Early /\ node' # "planner" /\ node' # Validation
            /\ node' # "reflection"
        BY <3>16, NodesDiffer
      <4>2. QED
        BY <3>15, <4>1 DEF Meter, EarlyMeter, Early
  <2>9. QED
    BY <2>7, <2>8
<1>5. QED
  BY <1>3, <1>4

-----------------------------------------------------------------------------
(* The stages. *)

\* A stage leads to a later stage at no cost, to the validator, or out.
LEMMA StageKeepsMeter ==
    ASSUME TypeOK, Meter, node \in StageNodes, KeepsRoute(st'), st'.tokens \in Nat,
           \/ node' \notin Underway
           \/ /\ node' = SqlStage /\ node = RagStage /\ Paid(st', 0, 0)
           \/ /\ node' = PanelStage /\ node # PanelStage /\ Paid(st', 0, 6)
              /\ HighRisk(st)
           \/ /\ node' = Validation /\ HighRisk(st) /\ Paid(st', 0, 95)
           \/ /\ node' = Validation /\ ~HighRisk(st) /\ node # PanelStage
              /\ \/ CurrentRoute(st) = "rag" /\ Paid(st', 30, 30)
                 \/ CurrentRoute(st) = "nl2sql" /\ Paid(st', 15, 15) /\ st'.rows
                 \/ CurrentRoute(st) = "hybrid" /\ Paid(st', 40, 40)
    PROVE  Meter' /\ node' # "reflection"
<1>1. /\ CurrentRoute(st') = CurrentRoute(st) /\ HighRisk(st') = HighRisk(st)
      /\ st'.reflections = st.reflections
  BY DEF KeepsRoute, CurrentRoute, HighRisk
<1>2. /\ st.tokens \in Nat /\ st.reflections \in Nat /\ TokenBudget \in Nat
      /\ StageMeter(st, 32) /\ (node # PanelStage => StageMeter(st, 26))
  BY MeterTypes DEF Meter, StageNodes, StageMeter, Spent
<1>3. RagStage # SqlStage /\ RagStage # PanelStage /\ SqlStage # PanelStage
  BY DEF RagStage, SqlStage, PanelStage
<1>4. CASE node' \notin Underway
  BY <1>4, UnmeteredNode
<1>5. CASE node' = SqlStage /\ node = RagStage /\ Paid(st', 0, 0)
  <2>1. StageMeter(st', 26)
    BY <1>1, <1>2, <1>3, <1>5 DEF StageMeter, Spent, Paid, TokensLeft
  <2>2. node' \in StageNodes
    BY <1>5 DEF StageNodes
  <2>3. node' \notin Early /\ node' # "planner" /\ node' # Validation /\ node' # "reflection"
    BY <2>2, NodesDiffer
  <2>4. QED
    BY <1>3, <1>5, <2>1, <2>3 DEF Meter, EarlyMeter, Early
<1>6. CASE node' = PanelStage /\ node # PanelStage /\ Paid(st', 0, 6) /\ HighRisk(st)
  <2>1. StageMeter(st', 32)
    BY <1>1, <1>2, <1>6 DEF StageMeter, Spent, Paid
  <2>2. node' \in StageNodes
    BY <1>6 DEF StageNodes
  <2>3. node' \notin Early /\ node' # "planner" /\ node' # Validation /\ node' # "reflection"
    BY <2>2, NodesDiffer
  <2>4. QED
    BY <1>3, <1>6, <2>1, <2>3 DEF Meter, EarlyMeter, Early
<1>7. ASSUME node' = Validation, DraftMeter(st')
      PROVE  Meter' /\ node' # "reflection"
  <2>1. /\ node' \notin Early /\ node' # "planner" /\ node' # "reflection"
        /\ node' # RagStage /\ node' # SqlStage /\ node' # PanelStage
    BY <1>7, NodesDiffer DEF StageNodes
  <2>2. QED
    BY <1>7, <2>1 DEF Meter, EarlyMeter, Early
<1>8. CASE node' = Validation /\ HighRisk(st) /\ Paid(st', 0, 95)
  <2>1. CurrentRoute(st') = "high_risk_panel"
    BY <1>1, <1>8 DEF CurrentRoute
  <2>2. DraftMeter(st')
    BY <1>1, <1>2, <1>8, <2>1 DEF DraftMeter, FirstDraft, StageMeter, Spent, Paid, Routes
  <2>3. QED
    BY <1>7, <1>8, <2>2
<1>9. CASE /\ node' = Validation /\ ~HighRisk(st) /\ node # PanelStage
           /\ \/ CurrentRoute(st) = "rag" /\ Paid(st', 30, 30)
              \/ CurrentRoute(st) = "nl2sql" /\ Paid(st', 15, 15) /\ st'.rows
              \/ CurrentRoute(st) = "hybrid" /\ Paid(st', 40, 40)
  <2>1. StageMeter(st, 26)
    BY <1>2, <1>9
  <2>2. CASE CurrentRoute(st) = "rag" /\ Paid(st', 30, 30)
    <3>1. DraftMeter(st')
      BY <1>1, <1>2, <1>9, <2>1, <2>2
         DEF DraftMeter, FirstDraft, StageMeter, Spent, Paid, Routes, TokensLeft
    <3>2. QED
      BY <1>7, <1>9, <3>1
  <2>3. CASE CurrentRoute(st) = "nl2sql" /\ Paid(st', 15, 15) /\ st'.rows
    <3>1. DraftMeter(st')
      BY <1>1, <1>2, <1>9, <2>1, <2>3
         DEF DraftMeter, FirstDraft, StageMeter, Spent, Paid, Routes, TokensLeft
    <3>2. QED
      BY <1>7, <1>9, <3>1
  <2>4. CASE CurrentRoute(st) = "hybrid" /\ Paid(st', 40, 40)
    <3>1. DraftMeter(st')
      BY <1>1, <1>2, <1>9, <2>1, <2>4
         DEF DraftMeter, FirstDraft, StageMeter, Spent, Paid, Routes, TokensLeft
    <3>2. QED
      BY <1>7, <1>9, <3>1
  <2>5. QED
    BY <1>9, <2>2, <2>3, <2>4
<1>10. QED
  BY <1>4, <1>5, <1>6, <1>8, <1>9

\* The writer of a policy answer is paid only on its own route.
LEMMA WrittenCost ==
    ASSUME st \in States, CurrentRoute(st) \in Routes,
           NEW g \in Gathered(st), NEW r \in WrittenFromClauses(g)
    PROVE  /\ r.tokens \in Nat
           /\ CurrentRoute(st) # "rag" => Paid(r, 0, 0)
           /\ CurrentRoute(st) = "rag" /\ r.draft => Paid(r, 30, 30)
<1> DEFINE Same(q) ==
        /\ q.risk = st.risk /\ q.routed = st.routed
        /\ q.tokens = st.tokens /\ q.reflections = st.reflections
<1>1. PICK c \in {"none", "unmatched", "matched"}, t \in DuringNode :
          g = Degrade([st EXCEPT !.clauses = c, !.path = CurrentRoute(st)],
                      Remaining(st, t) < RerankMin)
  BY DEF Gathered
<1> DEFINE found == [st EXCEPT !.clauses = c, !.path = CurrentRoute(st)]
<1>2. found \in States
  BY EvidenceUpdates, Zenon
<1>3. Same(found)
  BY DEF States
<1>4. g = found \/ g = [found EXCEPT !.degraded = TRUE]
  BY <1>1 DEF Degrade
<1>5. g \in States
  BY <1>1, <1>2, MeterUpdates
<1> HIDE DEF found
<1>6. Same(g)
  BY <1>2, <1>3, <1>4 DEF States
<1>7. CurrentRoute(g) = CurrentRoute(st) /\ g.tokens \in Nat /\ st.tokens \in Nat
  BY <1>5, <1>6 DEF CurrentRoute, HighRisk, States
<1>8. \/ CurrentRoute(st) # "rag" /\ r = [g EXCEPT !.draft = FALSE]
      \/ CurrentRoute(st) = "rag" /\ r = [Spend(g, 30) EXCEPT !.draft = TRUE]
      \/ /\ CurrentRoute(st) = "rag"
         /\ \/ r = [g EXCEPT !.draft = FALSE, !.missing = "no_match"]
            \/ r = [Spend(g, 30) EXCEPT !.draft = FALSE, !.missing = "not_in_extracts"]
  BY <1>7 DEF WrittenFromClauses
<1>9. CASE CurrentRoute(st) # "rag" /\ r = [g EXCEPT !.draft = FALSE]
  BY <1>5, <1>6, <1>7, <1>9 DEF Paid, States
<1>10. CASE CurrentRoute(st) = "rag" /\ r = [Spend(g, 30) EXCEPT !.draft = TRUE]
  BY <1>5, <1>6, <1>7, <1>10 DEF Paid, Spend, States
<1>11. CASE CurrentRoute(st) = "rag" /\ r = [g EXCEPT !.draft = FALSE, !.missing = "no_match"]
  BY <1>5, <1>6, <1>7, <1>11 DEF Paid, States
<1>12. CASE /\ CurrentRoute(st) = "rag"
            /\ r = [Spend(g, 30) EXCEPT !.draft = FALSE, !.missing = "not_in_extracts"]
  BY <1>5, <1>6, <1>7, <1>12 DEF Paid, Spend, States
<1>13. QED
  BY <1>8, <1>9, <1>10, <1>11, <1>12

LEMMA RagPathKeepsMeter ==
    ASSUME TypeOK, Control, Evidence, Evidence', Meter, RagPath
    PROVE  Meter' /\ node' # "reflection"
<1>1. /\ Runs(RagStage, UNION {WrittenFromClauses(g) : g \in Gathered(st)})
      /\ node' = AfterRagPath(st')
  BY DEF RagPath
<1>2. node = RagStage /\ node \in StageNodes /\ req' = req
  BY <1>1, RunsFacts DEF StageNodes
<1>3. /\ st \in States /\ Granted(st) /\ CurrentRoute(st) \in Routes /\ st.missing = "none"
      /\ CurrentRoute(st) # "nl2sql" /\ req.tables \in BOOLEAN /\ req.docs = TRUE
  BY <1>2 DEF TypeOK, Control, RouteIsGranted, Evidence, Underway, Requests
<1>4. CASE Stopped(st')
  BY <1>1, <1>4, NodesDiffer, UnmeteredNode DEF AfterRagPath
<1>5. CASE ~Stopped(st')
  <2>1. PICK g \in Gathered(st) : st' \in WrittenFromClauses(g)
    <3>1. \/ st' \in UNION {WrittenFromClauses(g) : g \in Gathered(st)}
          \/ st' = BudgetStop(st)
      BY <1>1, RunsFacts
    <3>2. QED
      BY <1>5, <3>1, StopKeepsEvidence
  <2>2. KeepsRoute(st')
    BY <1>3, <2>1, WrittenEvidence
  <2>3. CurrentRoute(st') = CurrentRoute(st)
    BY <2>2 DEF KeepsRoute, CurrentRoute, HighRisk
  <2>4. /\ st'.tokens \in Nat
        /\ CurrentRoute(st) # "rag" => Paid(st', 0, 0)
        /\ CurrentRoute(st) = "rag" /\ st'.draft => Paid(st', 30, 30)
    BY <1>3, <2>1, WrittenCost
  <2> DEFINE route == CurrentRoute(st)
             next == NextStage(RagStage, route, req.tables, req.docs)
  <2>5. node' = "no_answer" \/ node' = next
    BY <1>1, <1>5, <2>3 DEF AfterRagPath, Next_Stage
  <2>6. /\ next \in {SqlStage, PanelStage, Validation}
        /\ next = Validation => route \in {"rag", "nl2sql"}
        /\ next = SqlStage => route # "rag"
        /\ next = PanelStage => route = "high_risk_panel"
    <3>1. route \in {"nl2sql", "hybrid"} => req.tables
      BY <1>3 DEF CurrentRoute, Granted
    <3> HIDE DEF route
    <3>2. route \in Routes
      BY <1>3 DEF route
    <3>3. QED
      BY <1>3, <3>1, <3>2, NextStageGranted, StagesFollow
  <2> HIDE DEF next
  <2>7. CASE node' = "no_answer"
    BY <2>7, NodesDiffer, UnmeteredNode
  <2>8. CASE node' = next /\ next = Validation
    <3>1. route = "rag" /\ ~HighRisk(st) /\ st'.draft
      BY <1>3, <2>6, <2>8 DEF CurrentRoute, Evidence
    <3>2. RagStage # PanelStage
      BY DEF RagStage, PanelStage
    <3>3. QED
      BY <1>2, <2>2, <2>4, <2>8, <3>1, <3>2, StageKeepsMeter
  <2>9. CASE node' = next /\ next = SqlStage
    BY <1>2, <2>2, <2>4, <2>6, <2>9, StageKeepsMeter
  <2>10. CASE node' = next /\ next = PanelStage
    <3>1. HighRisk(st)
      BY <1>3, <2>6, <2>10 DEF CurrentRoute, Granted
    <3>2. Paid(st', 0, 6) /\ RagStage # PanelStage
      BY <2>4, <2>6, <2>10, MeterTypes DEF Paid, RagStage, PanelStage
    <3>3. QED
      BY <1>2, <2>2, <2>4, <2>10, <3>1, <3>2, StageKeepsMeter
  <2>11. QED
    BY <2>5, <2>6, <2>7, <2>8, <2>9, <2>10
<1>6. QED
  BY <1>4, <1>5

\* The records query and its writers: a draft over rows costs the most.
LEMMA RecordedCost ==
    ASSUME st \in States, st.missing = "none",
           NEW r, r \in IF CurrentRoute(st) = "high_risk_panel" THEN RecordsForPanel(st)
                        ELSE IF CurrentRoute(st) = "hybrid" THEN ReconciledWithPolicy(st)
                        ELSE RecordsAnswer(st)
    PROVE  /\ r.tokens \in Nat
           /\ CurrentRoute(st) = "high_risk_panel" => Paid(r, 6, 6)
           /\ CurrentRoute(st) = "hybrid" /\ r.missing = "none" => Paid(r, 40, 40)
           /\ CurrentRoute(st) = "nl2sql" /\ r.missing = "none" => Paid(r, 15, 15) /\ r.rows
<1>1. CASE CurrentRoute(st) = "high_risk_panel"
  <2>1. PICK b : r = [Spend(st, 6) EXCEPT !.path = "high_risk_panel", !.rows = b]
    BY <1>1 DEF RecordsForPanel
  <2>2. r.tokens \in Nat /\ Paid(r, 6, 6)
    BY <2>1 DEF Paid, Spend, States
  <2>3. QED
    BY <1>1, <2>2
<1>2. CASE CurrentRoute(st) = "hybrid"
  <2>1. PICK b :
            \/ r = [Spend(st, 6) EXCEPT !.path = "hybrid", !.rows = FALSE,
                                        !.missing = "no_evidence"]
            \/ r = [Spend(st, 40) EXCEPT !.path = "hybrid", !.rows = b, !.draft = TRUE]
    BY <1>2 DEF ReconciledWithPolicy
  <2>2. CASE r = [Spend(st, 6) EXCEPT !.path = "hybrid", !.rows = FALSE,
                                      !.missing = "no_evidence"]
    BY <1>2, <2>2 DEF Spend, States
  <2>3. CASE r = [Spend(st, 40) EXCEPT !.path = "hybrid", !.rows = b, !.draft = TRUE]
    BY <1>2, <2>3 DEF Paid, Spend, States
  <2>4. QED
    BY <2>1, <2>2, <2>3
<1>3. CASE CurrentRoute(st) \notin {"high_risk_panel", "hybrid"}
  <2> DEFINE told == [Spend(st, 15) EXCEPT !.path = "nl2sql", !.rows = TRUE, !.draft = TRUE]
             Full(q) == Paid(q, 15, 15) /\ q.rows
  <2>1. \/ \E worse \in BOOLEAN : r = Degrade(told, worse)
        \/ r = [Spend(st, 9) EXCEPT !.path = "nl2sql", !.draft = TRUE,
                                    !.missing = "no_records"]
    BY <1>3 DEF RecordsAnswer
  <2>2. Full(told)
    BY DEF Paid, Spend, States
  <2>3. told \in States
    <3>1. Spend(st, 15) \in States /\ "nl2sql" \in Routes /\ TRUE \in BOOLEAN
      BY MeterUpdates, Values
    <3>2. QED
      BY <3>1, EvidenceUpdates, Zenon
  <2> HIDE DEF told
  <2>4. CASE r = [Spend(st, 9) EXCEPT !.path = "nl2sql", !.draft = TRUE,
                                      !.missing = "no_records"]
    BY <1>3, <2>4 DEF Spend, States
  <2>5. CASE r = told \/ r = [told EXCEPT !.degraded = TRUE]
    BY <1>3, <2>2, <2>3, <2>5 DEF Paid, States
  <2>6. QED
    BY <2>1, <2>4, <2>5 DEF Degrade
<1>4. QED
  BY <1>1, <1>2, <1>3

LEMMA SqlPathKeepsMeter ==
    ASSUME TypeOK, Control, Evidence, Evidence', Meter, SqlPath
    PROVE  Meter' /\ node' # "reflection"
<1> DEFINE results == IF CurrentRoute(st) = "high_risk_panel" THEN RecordsForPanel(st)
                      ELSE IF CurrentRoute(st) = "hybrid" THEN ReconciledWithPolicy(st)
                      ELSE RecordsAnswer(st)
<1>1. Runs(SqlStage, results) /\ node' = AfterSqlPath(st')
  BY DEF SqlPath
<1>2. node = SqlStage /\ node \in StageNodes /\ req' = req /\ SqlStage # PanelStage
  BY <1>1, RunsFacts DEF StageNodes, SqlStage, PanelStage
<1>3. /\ st \in States /\ Granted(st) /\ CurrentRoute(st) \in Routes /\ st.missing = "none"
      /\ CurrentRoute(st) # "rag"
      /\ req.tables = TRUE /\ req.tables \in BOOLEAN /\ req.docs = TRUE
  BY <1>2 DEF TypeOK, Control, RouteIsGranted, Evidence, Underway, Requests
<1>4. CASE Stopped(st')
  BY <1>1, <1>4, NodesDiffer, UnmeteredNode DEF AfterSqlPath
<1>5. CASE ~Stopped(st')
  <2>1. st' \in results
    <3>1. st' \in results \/ st' = BudgetStop(st)
      BY <1>1, RunsFacts
    <3>2. QED
      BY <1>5, <3>1, StopKeepsEvidence
  <2>2. KeepsRoute(st')
    BY <1>3, <2>1, RecordedEvidence, Zenon
  <2>3. /\ st'.tokens \in Nat
        /\ CurrentRoute(st) = "high_risk_panel" => Paid(st', 6, 6)
        /\ CurrentRoute(st) = "hybrid" /\ st'.missing = "none" => Paid(st', 40, 40)
        /\ CurrentRoute(st) = "nl2sql" /\ st'.missing = "none"
               => Paid(st', 15, 15) /\ st'.rows
    BY <1>3, <2>1, RecordedCost, Zenon
  <2>4. CurrentRoute(st') = CurrentRoute(st)
    BY <2>2 DEF KeepsRoute, CurrentRoute, HighRisk
  <2> DEFINE route == CurrentRoute(st)
             next == NextStage(SqlStage, route, req.tables, req.docs)
  <2>5. node' = "no_answer" \/ node' = "escalation_manager" \/ node' = next
    BY <1>1, <1>5, <2>4 DEF AfterSqlPath, Next_Stage
  <2>6. /\ next \in {PanelStage, Validation}
        /\ next = Validation => route # "high_risk_panel"
        /\ next = PanelStage => route = "high_risk_panel"
    <3> HIDE DEF route
    <3>1. route \in Routes
      BY <1>3 DEF route
    <3>2. QED
      BY <1>3, <3>1, NextStageGranted, StagesFollow
  <2> HIDE DEF next, results
  <2>7. CASE node' = "no_answer" \/ node' = "escalation_manager"
    BY <2>7, NodesDiffer, UnmeteredNode
  <2>8. CASE node' = next /\ next = PanelStage
    <3>1. HighRisk(st) /\ Paid(st', 0, 6)
      BY <1>3, <2>3, <2>6, <2>8, MeterTypes DEF CurrentRoute, Granted, Paid
    <3>2. QED
      BY <1>2, <2>2, <2>3, <2>8, <3>1, StageKeepsMeter
  <2>9. CASE node' = next /\ next = Validation
    <3>1. ~HighRisk(st) /\ route \in {"nl2sql", "hybrid"} /\ st'.missing = "none"
      <4>1. node' \in Underway
        BY <2>9 DEF Underway
      <4>2. QED
        BY <1>3, <2>6, <2>9, <4>1 DEF CurrentRoute, Routes, Evidence
    <3>2. QED
      BY <1>2, <2>2, <2>3, <2>9, <3>1, StageKeepsMeter
  <2>10. QED
    BY <2>5, <2>6, <2>7, <2>8, <2>9
<1>6. QED
  BY <1>4, <1>5

LEMMA MultiAgentPanelKeepsMeter ==
    ASSUME TypeOK, Control, Meter, MultiAgentPanel
    PROVE  Meter' /\ node' # "reflection"
<1> DEFINE agreed == [Spend(st, 70) EXCEPT !.path = "high_risk_panel", !.draft = TRUE,
                                           !.split = FALSE]
           repaired(b) == [Spend(st, 95) EXCEPT !.path = "high_risk_panel",
                                                !.draft = TRUE, !.split = b]
           results == {agreed} \cup {repaired(b) : b \in BOOLEAN}
<1>1. Runs(PanelStage, results) /\ node' = AfterPanel(st')
  BY DEF MultiAgentPanel
<1>2. node = PanelStage /\ node \in StageNodes /\ st \in States /\ HighRisk(st)
  BY <1>1, RunsFacts DEF StageNodes, TypeOK, Control, RouteIsGranted
<1> DEFINE Same(r) == KeepsRoute(r) /\ r.tokens \in Nat /\ Paid(r, 0, 95)
<1>3. Same(agreed)
  BY <1>2 DEF KeepsRoute, Spend, States, Paid
<1>4. \A b \in BOOLEAN : Same(repaired(b))
  BY <1>2 DEF KeepsRoute, Spend, States, Paid
<1> HIDE DEF agreed, repaired
<1>5. CASE Stopped(st')
  BY <1>1, <1>5, NodesDiffer, UnmeteredNode DEF AfterPanel
<1>6. CASE ~Stopped(st')
  <2>1. st' \in results \/ st' = BudgetStop(st)
    BY <1>1, RunsFacts
  <2>2. Same(st')
    BY <1>3, <1>4, <1>6, <2>1, StopKeepsEvidence
  <2>3. node' = Validation
    BY <1>1, <1>6 DEF AfterPanel
  <2>4. QED
    BY <1>2, <2>2, <2>3, StageKeepsMeter
<1>7. QED
  BY <1>5, <1>6

-----------------------------------------------------------------------------
(* The validator and the repair. *)

LEMMA EstimateOfRoute ==
    ASSUME NEW s, CurrentRoute(s) \in {"rag", "nl2sql", "hybrid"}
    PROVE  RepairEstimate(s) = RouteEstimate(CurrentRoute(s))
<1> DEFINE InRoute(route, stage) == \E i \in 1..Len(route) : route[i] = stage
           Cost(route, stage) == IF InRoute(route, stage) THEN TokenEstimate(stage) ELSE 0
<1>1. RepairEstimate(s) =
          TokenEstimate("reflection") + TokenEstimate("planner")
            + Cost(Stages(s), RagStage) + Cost(Stages(s), SqlStage)
            + Cost(Stages(s), PanelStage) + TokenEstimate(Validation)
  BY DEF RepairEstimate
<1>2. /\ TokenEstimate("reflection") = 9 /\ TokenEstimate("planner") = 8
      /\ TokenEstimate(RagStage) = 30 /\ TokenEstimate(SqlStage) = 12
      /\ TokenEstimate(PanelStage) = 70 /\ TokenEstimate(Validation) = 25
  BY DEF TokenEstimate, NodeTokens, RagStage, SqlStage, PanelStage, Validation
<1>3. RagStage # SqlStage /\ RagStage # PanelStage /\ SqlStage # PanelStage
  BY DEF RagStage, SqlStage, PanelStage
<1>4. CASE CurrentRoute(s) = "rag"
  <2>1. Stages(s) = <<RagStage>>
    BY <1>4, StagesOfRoute DEF Stages
  <2>2. InRoute(<<RagStage>>, RagStage) /\ ~InRoute(<<RagStage>>, SqlStage)
        /\ ~InRoute(<<RagStage>>, PanelStage)
    BY <1>3
  <2>3. QED
    BY <1>1, <1>2, <1>4, <2>1, <2>2 DEF RouteEstimate
<1>5. CASE CurrentRoute(s) = "nl2sql"
  <2>1. Stages(s) = <<SqlStage>>
    BY <1>5, StagesOfRoute DEF Stages
  <2>2. ~InRoute(<<SqlStage>>, RagStage) /\ InRoute(<<SqlStage>>, SqlStage)
        /\ ~InRoute(<<SqlStage>>, PanelStage)
    BY <1>3
  <2>3. QED
    BY <1>1, <1>2, <1>5, <2>1, <2>2 DEF RouteEstimate
<1>6. CASE CurrentRoute(s) = "hybrid"
  <2> DEFINE both == <<RagStage, SqlStage>>
  <2>1. Stages(s) = both
    BY <1>6, StagesOfRoute DEF Stages
  <2>2. InRoute(both, RagStage) /\ InRoute(both, SqlStage) /\ ~InRoute(both, PanelStage)
    <3>1. Len(both) = 2 /\ both[1] = RagStage /\ both[2] = SqlStage
      OBVIOUS
    <3> HIDE DEF both
    <3>2. QED
      BY <1>3, <3>1
  <2> HIDE DEF both
  <2>3. /\ Cost(Stages(s), RagStage) = 30 /\ Cost(Stages(s), SqlStage) = 12
        /\ Cost(Stages(s), PanelStage) = 0
    BY <1>2, <2>1, <2>2
  <2> HIDE DEF Cost
  <2>4. QED
    BY <1>1, <1>2, <1>6, <2>3 DEF RouteEstimate
<1>7. QED
  BY <1>4, <1>5, <1>6

\* What a judgement changes.
LEMMA JudgedFields ==
    ASSUME TypeOK, NEW results,
           results = {[Spend(st, j[2]) EXCEPT !.verdict = j[1]] : j \in Judgements(st)},
           st' \in results
    PROVE  /\ KeepsRoute(st') /\ st'.tokens \in Nat /\ Paid(st', 0, 25)
           /\ st'.path = st.path /\ st'.rows = st.rows
<1>1. PICK j \in Judgements(st) : st' = [Spend(st, j[2]) EXCEPT !.verdict = j[1]]
  OBVIOUS
<1>2. j[2] = 0 \/ j[2] = 25
  BY DEF Judgements
<1> DEFINE Fine(r) == /\ KeepsRoute(r) /\ r.tokens \in Nat /\ Paid(r, 0, 25)
                      /\ r.path = st.path /\ r.rows = st.rows
<1>7. st \in States
  BY DEF TypeOK
<1>3. ASSUME NEW v
      PROVE  Fine([Spend(st, 0) EXCEPT !.verdict = v])
  <2> DEFINE r == [Spend(st, 0) EXCEPT !.verdict = v]
  <2>1. KeepsRoute(r) /\ r.path = st.path /\ r.rows = st.rows
    BY <1>7 DEF KeepsRoute, Spend, States
  <2>2. r.tokens \in Nat /\ Paid(r, 0, 25)
    <3>1. Spend(st, 0).tokens = st.tokens + 0 /\ Spend(st, 0).reflections = st.reflections
      BY <1>7 DEF Spend, States
    <3>2. Spend(st, 0) \in States
      BY <1>7, MeterUpdates
    <3>3. r.tokens = st.tokens + 0 /\ r.reflections = st.reflections
      BY <3>1, <3>2 DEF States
    <3>4. QED
      BY <1>7, <3>3, MeterTypes DEF Paid
  <2>3. QED
    BY <2>1, <2>2
<1>4. ASSUME NEW v
      PROVE  Fine([Spend(st, 25) EXCEPT !.verdict = v])
  <2> DEFINE r == [Spend(st, 25) EXCEPT !.verdict = v]
  <2>1. KeepsRoute(r) /\ r.path = st.path /\ r.rows = st.rows
    BY <1>7 DEF KeepsRoute, Spend, States
  <2>2. r.tokens \in Nat /\ Paid(r, 0, 25)
    <3>1. Spend(st, 25).tokens = st.tokens + 25 /\ Spend(st, 25).reflections = st.reflections
      BY <1>7 DEF Spend, States
    <3>2. Spend(st, 25) \in States
      BY <1>7, MeterUpdates
    <3>3. r.tokens = st.tokens + 25 /\ r.reflections = st.reflections
      BY <3>1, <3>2 DEF States
    <3>4. QED
      BY <1>7, <3>3, MeterTypes DEF Paid
  <2>3. QED
    BY <2>1, <2>2
<1>5. Fine(st')
  <2>1. CASE j[2] = 0
    <3>1. st' = [Spend(st, 0) EXCEPT !.verdict = j[1]]
      BY <1>1, <2>1
    <3>2. QED
      BY <1>3, <3>1
  <2>2. CASE j[2] = 25
    <3>1. st' = [Spend(st, 25) EXCEPT !.verdict = j[1]]
      BY <1>1, <2>2
    <3>2. QED
      BY <1>4, <3>1
  <2>3. QED
    BY <1>2, <2>1, <2>2
<1>6. QED
  BY <1>5

\* The routes an answer is repaired on.
LEMMA DraftRoutes ==
    ASSUME Control, CurrentRoute(st) \in Routes, ~HighRisk(st)
    PROVE  CurrentRoute(st) \in {"rag", "nl2sql", "hybrid"}
BY DEF Control, RouteIsGranted, Granted, CurrentRoute, Routes

LEMMA ComplianceValidationKeepsMeter ==
    ASSUME TypeOK, TypeOK', Control, Evidence, Evidence', Meter, ComplianceValidation,
           TokenBudget >= 152
    PROVE  Meter'
<1> DEFINE results == {[Spend(st, j[2]) EXCEPT !.verdict = j[1]] : j \in Judgements(st)}
<1>1. Runs(Validation, results) /\ node' = AfterValidation(st', now')
  BY DEF ComplianceValidation
<1>2. node = Validation /\ st \in States /\ st' \in States /\ req' = req
  BY <1>1, RunsFacts DEF TypeOK
<1>3. DraftMeter(st) /\ st.path = CurrentRoute(st)
  BY <1>2 DEF Meter, Evidence
<1>4. \/ node' \in {"escalation_manager", "confidence_scoring", "no_answer"}
      \/ /\ node' = "reflection" /\ ~HighRisk(st') /\ ~st'.stopped
         /\ CanRepair(st', now')
  BY <1>1 DEF AfterValidation
<1>5. CASE node' \in {"escalation_manager", "confidence_scoring", "no_answer"}
  BY <1>5, NodesDiffer, UnmeteredNode
<1>6. CASE /\ node' = "reflection" /\ ~HighRisk(st') /\ ~st'.stopped
           /\ CanRepair(st', now')
  <2>1. st' \in results
    BY <1>1, <1>6, RunsFacts, StopKeepsEvidence
  <2>2. /\ KeepsRoute(st') /\ st'.tokens \in Nat /\ Paid(st', 0, 25)
        /\ st'.path = st.path /\ st'.rows = st.rows
    BY <2>1, JudgedFields
  <2>3. CurrentRoute(st') = CurrentRoute(st) /\ HighRisk(st') = HighRisk(st)
    BY <2>2 DEF KeepsRoute, CurrentRoute, HighRisk
  <2>4. CurrentRoute(st) \in {"rag", "nl2sql", "hybrid"}
    BY <1>3, <1>6, <2>3, DraftRoutes DEF DraftMeter
  <2>6. TokensLeft(st') >= RouteEstimate(CurrentRoute(st'))
    BY <1>6, <2>3, <2>4, EstimateOfRoute DEF CanRepair
  <2>7. st'.reflections = 0 => st'.tokens >= 42 \/ CurrentRoute(st') = "nl2sql"
    BY <1>3, <2>2, <2>3, <2>4, MeterTypes DEF DraftMeter, FirstDraft, Spent, Paid
  <2>8. RepairMeter(st')
    BY <1>3, <2>2, <2>3, <2>6, <2>7 DEF RepairMeter, DraftMeter
  <2>9. /\ node' \notin Early /\ node' # "planner" /\ node' # Validation
        /\ node' \notin StageNodes
    BY <1>6, NodesDiffer
  <2>10. QED
    BY <1>6, <2>8, <2>9 DEF Meter, EarlyMeter, Early, StageNodes
<1>7. QED
  BY <1>4, <1>5, <1>6

\* What a repair hands to the planner, and that it costs nothing itself.
LEMMA RepairedCost ==
    ASSUME NEW s \in States, NEW y \in Strategies
    PROVE  /\ Repaired(s, y).tokens = s.tokens /\ Repaired(s, y).plan = s.plan
           /\ Repaired(s, y).intent = s.intent /\ Repaired(s, y).risk = s.risk
           /\ Repaired(s, y).replan /\ Repaired(s, y).reflections = s.reflections + 1
BY DEF Repaired, States

LEMMA ReflectionKeepsMeter ==
    ASSUME TypeOK, Control, Evidence, Meter, Reflection
    PROVE  Meter'
<1>1. Runs("reflection", Reflected(st)) /\ node' = "planner"
  BY DEF Reflection
<1>2. node = "reflection" /\ st \in States /\ req' = req
  BY <1>1, RunsFacts DEF TypeOK
<1>3. /\ RepairMeter(st) /\ ~HighRisk(st) /\ st.path = CurrentRoute(st)
      /\ CurrentRoute(st) = st.routed /\ st.plan = st.routed
      /\ st.routed \in {"rag", "nl2sql", "hybrid"} /\ CurrentPath(st) = st.routed
      /\ RecordsPlan(st, st.routed) /\ (st.routed = "nl2sql" => req.tables)
  <2>1. RepairMeter(st) /\ ~HighRisk(st) /\ st.path = CurrentRoute(st) /\ RouteFits(st)
    BY <1>2 DEF Meter, Evidence
  <2>2. CurrentRoute(st) \in {"rag", "nl2sql", "hybrid"}
    BY <2>1, DraftRoutes DEF RepairMeter
  <2>3. QED
    BY <2>1, <2>2 DEF RouteFits, CurrentRoute, CurrentPath, Control, RouteIsGranted, Granted
<1>4. /\ st.tokens \in Nat /\ st.reflections \in Nat /\ TokenBudget \in Nat
      /\ TokensLeft(st) \in Int /\ TokensLeft(st) >= 54
      /\ st.routed # "nl2sql" => TokensLeft(st) >= 72
      /\ st.routed = "hybrid" => TokensLeft(st) >= 84
  BY <1>3, MeterTypes DEF TokensLeft, RepairMeter, RouteEstimate
<1> DEFINE Ready(r) == /\ TokensLeft(r) >= 8
                       /\ Stopped(r) \/ SentBack(r)
<1>5. Ready(BudgetStop(st))
  BY <1>4, MeterTypes, StopKeepsEvidence DEF TokensLeft
<1>6. ASSUME NEW r \in Reflected(st)
      PROVE  Ready(r)
  <2>1. ASSUME NEW y \in Strategies, r = Repaired(st, y)
        PROVE  Ready(r)
    <3>1. /\ r.tokens = st.tokens /\ r.plan = st.routed /\ r.intent = st.intent
          /\ r.risk = st.risk /\ r.replan /\ r.reflections = st.reflections + 1
      BY <1>2, <1>3, <2>1, RepairedCost
    <3>2. /\ TokensLeft(r) >= 54 /\ ~HighRisk(r)
          /\ st.routed # "nl2sql" => TokensLeft(r) >= 72
      BY <1>3, <1>4, <3>1 DEF TokensLeft, HighRisk
    <3>6. st.routed = "nl2sql" => StandingRecordsPlan(r)
      BY <1>3, <3>1 DEF RecordsPlan, StandingRecordsPlan
    <3>3. r.reflections = 1 => r.tokens >= 42 \/ StandingRecordsPlan(r)
      BY <1>3, <1>4, <3>1, <3>6 DEF RepairMeter
    <3>4. TokensLeft(r) \in Int
      BY <1>4, <3>1 DEF TokensLeft
    <3>5. QED
      BY <1>3, <1>4, <3>1, <3>2, <3>3, <3>4, <3>6 DEF SentBack
  <2>2. CASE \/ CurrentPath(st) = "rag"
             \/ CurrentPath(st) \in {"nl2sql", "hybrid"} /\ st.rows
    <3>1. r \in {Repaired(st, "rag_widen_and_fix"), Repaired(st, "sql_renarrate"),
                 Repaired(st, "hybrid_redraft")}
      BY <1>6, <2>2 DEF Reflected
    <3>2. QED
      BY <2>1, <3>1, Values
  <2>3. CASE /\ CurrentPath(st) # "rag"
             /\ ~(CurrentPath(st) \in {"nl2sql", "hybrid"} /\ st.rows)
    <3> DEFINE again == Repaired(Spend(st, 9), "llm_replan")
    <3>1. \/ r = [Spend(st, 9) EXCEPT !.reason = TRUE, !.reflections = @ + 1]
          \/ \E p \in EvidencePaths : r = [again EXCEPT !.plan = p]
      BY <1>6, <2>3 DEF Reflected
    <3>2. st.routed = "hybrid"
      BY <1>3, <2>3 DEF RepairMeter
    <3>3. CASE r = [Spend(st, 9) EXCEPT !.reason = TRUE, !.reflections = @ + 1]
      BY <1>2, <1>4, <3>2, <3>3 DEF Stopped, Spend, States, TokensLeft
    <3>4. /\ Spend(st, 9) \in States /\ Spend(st, 9).tokens = st.tokens + 9
          /\ Spend(st, 9).risk = st.risk /\ Spend(st, 9).reflections = st.reflections
      <4>1. Spend(st, 9) \in States
        BY <1>2, MeterUpdates
      <4>2. QED
        BY <1>2, <4>1 DEF Spend, States
    <3>5. again \in States
      BY <3>4, RepairedType, Values
    <3>6. /\ again.tokens = st.tokens + 9 /\ again.risk = st.risk /\ again.replan
          /\ again.reflections = st.reflections + 1
      BY <3>4, RepairedCost, Values
    <3> HIDE DEF again
    <3>7. ASSUME NEW p \in EvidencePaths, r = [again EXCEPT !.plan = p]
          PROVE  Ready(r)
      <4>1. /\ r.tokens = st.tokens + 9 /\ r.risk = st.risk /\ r.replan /\ r.plan = p
            /\ r.reflections = st.reflections + 1
        BY <3>5, <3>6, <3>7 DEF States
      <4>2. TokensLeft(r) >= 65 /\ TokensLeft(r) \in Int
        BY <1>4, <3>2, <4>1 DEF TokensLeft
      <4>3. p # "none" /\ ~HighRisk(r)
        BY <1>3, <4>1 DEF EvidencePaths, HighRisk
      <4>4. r.reflections = 1 => r.tokens >= 42
        BY <1>3, <1>4, <3>2, <4>1 DEF RepairMeter
      <4>5. QED
        BY <1>4, <4>1, <4>2, <4>3, <4>4 DEF SentBack
    <3>8. QED
      BY <3>1, <3>3, <3>7
  <2>4. QED
    BY <2>2, <2>3
<1>7. Ready(st')
  BY <1>1, <1>5, <1>6, RunsFacts
<1>8. PlannerMeter(st)'
  BY <1>2, <1>7 DEF PlannerMeter, SentBack, StandingRecordsPlan
<1>9. /\ node' \notin Early /\ node' \notin StageNodes /\ node' # "reflection"
      /\ node' # Validation
  BY <1>1, NodesDiffer
<1>10. QED
  BY <1>1, <1>8, <1>9 DEF Meter, EarlyMeter, Early, StageNodes

-----------------------------------------------------------------------------
(* The graph. *)

LEMMA LastNodesMeter ==
    ASSUME \/ ConfidenceScoring \/ NoAnswer \/ OutputGuardrail
           \/ EscalationManager \/ SafeRefusal \/ Clarification \/ Raise
    PROVE  Meter' /\ node' # "reflection"
<1>1. node' \in {"escalation_manager", "output_guardrail", "END", "RAISED"}
  BY DEF ConfidenceScoring, NoAnswer, OutputGuardrail, EscalationManager, SafeRefusal,
         Clarification, Raise, AfterConfidence, AfterOutputGuardrail
<1>2. QED
  BY <1>1, NodesDiffer, UnmeteredNode

LEMMA InitMeter == Init => Meter
<1> SUFFICES ASSUME Init PROVE Meter
  OBVIOUS
<1>1. node = "input_guardrail" /\ st.tokens = 0 /\ st.reflections = 0
  BY DEF Init, InitialState
<1>2. QED
  BY <1>1 DEF Meter, EarlyMeter, Spent, RagStage, SqlStage, PanelStage, Validation

LEMMA MeterIsKept ==
    ASSUME TokenBudget >= 152
    PROVE  Spec => []Meter
<1>1. ASSUME TypeOK, TypeOK', Control, Control', Evidence, Evidence', Meter, [Next]_vars
      PROVE  Meter'
  <2>1. CASE UNCHANGED vars
    <3>1. node' = node /\ req' = req /\ st' = st
      BY <2>1 DEF vars
    <3>2. Meter' = Meter
      BY <3>1 DEF Meter, EarlyMeter, PlannerMeter, SentBack, StageMeter, DraftMeter,
                  FirstDraft, RepairMeter, Spent, TokensLeft, Stopped, CurrentRoute, HighRisk,
                  StandingRecordsPlan
    <3>3. QED
      BY <1>1, <3>2
  <2>2. CASE Next
    BY <1>1, <2>2, EarlyNodesMeter, PlannerKeepsMeter, RagPathKeepsMeter,
       SqlPathKeepsMeter, MultiAgentPanelKeepsMeter, ComplianceValidationKeepsMeter,
       ReflectionKeepsMeter, LastNodesMeter DEF Next
  <2>3. QED
    BY <1>1, <2>1, <2>2
<1>2. QED
  BY <1>1, InitMeter, Invariant, EvidenceIsCarried, PTL DEF Spec

-----------------------------------------------------------------------------
(* Theorems. *)

\* No node that may be refused starts with fewer tokens than it is estimated to
\* need, at any budget the settings admit and however often the graph is repaired.
THEOREM TokensSuffice ==
    ASSUME TokenBudget >= 152
    PROVE  Spec => []NeverShortOfTokens
<1>1. ASSUME TypeOK, Control, Evidence, Meter
      PROVE  NeverShortOfTokens
  <2>1. SUFFICES ASSUME node \in Nodes \ ReleaseTier
                 PROVE  TokensLeft(st) >= TokenEstimate(node)
    BY DEF NeverShortOfTokens
  <2>2. st.tokens \in Nat /\ st.reflections \in Nat /\ TokenBudget \in Nat
    BY <1>1, MeterTypes
  <2>3. /\ RagStage # PanelStage /\ RagStage # SqlStage /\ SqlStage # PanelStage
        /\ node \in Early \cup {"planner", RagStage, SqlStage, PanelStage, Validation,
                                "reflection"}
    BY <2>1 DEF Nodes, ReleaseTier, Early, RagStage, SqlStage, PanelStage, Validation
  <2>4. CASE node \in Early
    <3>1. TokenEstimate(node) <= 7 /\ TokenEstimate(node) \in Nat
      BY <2>4 DEF Early, TokenEstimate, NodeTokens
    <3>2. st.tokens <= 11
      BY <1>1, <2>2, <2>4 DEF Meter, EarlyMeter, Spent, Early
    <3>3. QED
      BY <2>2, <3>1, <3>2 DEF TokensLeft
  <2>5. CASE node = "planner"
    BY <1>1, <2>5 DEF Meter, PlannerMeter, TokenEstimate, NodeTokens
  <2>6. CASE node \in {RagStage, SqlStage}
    <3>1. TokenEstimate(node) <= 30 /\ TokenEstimate(node) \in Nat
      BY <2>6 DEF TokenEstimate, NodeTokens, RagStage, SqlStage
    <3>2. StageMeter(st, 26)
      BY <1>1, <2>6 DEF Meter
    <3>3. QED
      BY <2>2, <3>1, <3>2 DEF StageMeter, Spent, TokensLeft
  <2>7. CASE node = PanelStage
    <3>1. TokenEstimate(node) = 70
      BY <2>7 DEF TokenEstimate, NodeTokens, PanelStage
    <3>2. StageMeter(st, 32) /\ HighRisk(st)
      BY <1>1, <2>7 DEF Meter, Control, RouteIsGranted
    <3>3. QED
      BY <2>2, <3>1, <3>2 DEF StageMeter, Spent, TokensLeft
  <2>8. CASE node = Validation
    <3>1. TokenEstimate(node) = 25
      BY <2>8 DEF TokenEstimate, NodeTokens, Validation
    <3>2. DraftMeter(st)
      BY <1>1, <2>8 DEF Meter
    <3>3. QED
      BY <2>2, <3>1, <3>2 DEF DraftMeter, FirstDraft, Spent, TokensLeft, Routes
  <2>9. CASE node = "reflection"
    <3>1. TokenEstimate(node) = 9
      BY <2>9 DEF TokenEstimate, NodeTokens
    <3>2. RepairMeter(st)
      BY <1>1, <2>9 DEF Meter
    <3>3. QED
      BY <2>2, <3>1, <3>2 DEF RepairMeter, TokensLeft, RouteEstimate
  <2>10. QED
    BY <2>3, <2>4, <2>5, <2>6, <2>7, <2>8, <2>9
<1>2. QED
  BY <1>1, MeterIsKept, Invariant, EvidenceIsCarried, PTL

\* Only a reflection counts one.
LEMMA OnlyReflectionCounts ==
    ASSUME TypeOK, Control, Evidence, Next, ~Reflection
    PROVE  st'.reflections = st.reflections
<1> DEFINE Same(r) == r.reflections = st.reflections
<1>1. st \in States /\ Same(st) /\ Same(BudgetStop(st))
  BY MeterTypes
<1>2. ASSUME NEW n, NEW results, Runs(n, results), \A r \in results : Same(r)
      PROVE  Same(st')
  BY <1>1, <1>2, RunsFacts
<1>3. CASE InputGuardrail
  <2>1. \A r \in {st, [st EXCEPT !.outcome = "refused"]} : Same(r)
    BY <1>1 DEF States
  <2>2. QED
    BY <1>2, <1>3, <2>1 DEF InputGuardrail
<1>4. CASE QueryRewrite
  <2>1. \A r \in {st, Spend(st, 6)} : Same(r)
    BY <1>1 DEF Spend, States
  <2>2. QED
    BY <1>2, <1>4, <2>1 DEF QueryRewrite
<1>5. CASE IntentClassification
  <2> DEFINE results == {[Spend(st, 5) EXCEPT !.intent = i] : i \in Intents}
                          \cup {[Spend(st, 5) EXCEPT !.outcome = "refused"]}
  <2>1. Same([Spend(st, 5) EXCEPT !.outcome = "refused"])
    BY <1>1 DEF Spend, States
  <2>2. \A i \in Intents : Same([Spend(st, 5) EXCEPT !.intent = i])
    BY <1>1 DEF Spend, States
  <2>3. Runs("intent_classification", results)
    BY <1>5 DEF IntentClassification
  <2>4. \A r \in results : Same(r)
    BY <2>1, <2>2
  <2>5. QED
    BY <1>2, <2>3, <2>4
<1>6. CASE EntityResolution
  <2> DEFINE unclear == [st EXCEPT !.outcome = "clarification_required"]
             results == {st} \cup (IF req.tables THEN {unclear} ELSE {})
  <2>1. Same(unclear)
    BY <1>1 DEF States
  <2>2. Runs("entity_resolution", results)
    BY <1>6 DEF EntityResolution
  <2> HIDE DEF unclear
  <2>3. \A r \in results : Same(r)
    BY <1>1, <2>1
  <2>4. QED
    BY <1>2, <2>2, <2>3
<1>7. CASE RiskAssessment
  <2> DEFINE low == [Spend(st, 7) EXCEPT !.risk = "Low"]
             high == [Spend(st, 7) EXCEPT !.risk = "High",
                                          !.deadline = Wider(@, HighRiskDeadline)]
  <2>1. Same(low) /\ Same(high)
    BY <1>1 DEF Spend, States
  <2>2. Runs("risk_assessment", {low, high})
    BY <1>7 DEF RiskAssessment
  <2> HIDE DEF low, high
  <2>3. QED
    BY <1>2, <2>1, <2>2
<1>8. CASE Planner
  <2>1. Runs("planner", UNION {Planned(st, t) : t \in DuringNode})
    BY <1>8 DEF Planner
  <2>2. DuringNode \subseteq Nat
    BY <2>1, RunsFacts DEF DuringNode
  <2>3. ASSUME NEW t \in Nat, NEW r \in Planned(st, t)
        PROVE  Same(r)
    <3>1. CASE IsRefused(r, st)
      BY <1>1, <3>1 DEF IsRefused, Spend, States
    <3>2. CASE IsSettled(r, st)
      <4>1. PICK k \in Nat, path \in Routes, d \in Deadlines, partial \in BOOLEAN :
                r = SettledAs(st, k, path, d, partial)
        BY <3>2 DEF IsSettled, SettledAs
      <4>2. SettledFrom(r, st, path, partial)
        BY <1>1, <4>1, SettledFields
      <4>3. QED
        BY <4>2 DEF SettledFrom
    <3>3. QED
      BY <3>1, <3>2, PlannerResult
  <2>4. QED
    BY <1>2, <2>1, <2>2, <2>3
<1>9. CASE RagPath
  <2>1. /\ Runs(RagStage, UNION {WrittenFromClauses(g) : g \in Gathered(st)})
        /\ node = RagStage
    BY <1>9, RunsFacts DEF RagPath
  <2>2. CurrentRoute(st) \in Routes /\ st.missing = "none"
    BY <2>1 DEF Control, RouteIsGranted, StageNodes, Evidence, Underway
  <2>3. ASSUME NEW g \in Gathered(st), NEW r \in WrittenFromClauses(g)
        PROVE  Same(r)
    BY <1>1, <2>2, WrittenEvidence DEF KeepsRoute
  <2>4. QED
    BY <1>2, <2>1, <2>3
<1>10. CASE SqlPath
  <2> DEFINE results == IF CurrentRoute(st) = "high_risk_panel" THEN RecordsForPanel(st)
                        ELSE IF CurrentRoute(st) = "hybrid" THEN ReconciledWithPolicy(st)
                        ELSE RecordsAnswer(st)
  <2>1. Runs(SqlStage, results) /\ node = SqlStage
    BY <1>10, RunsFacts DEF SqlPath
  <2>2. st.missing = "none"
    BY <2>1 DEF StageNodes, Evidence, Underway
  <2>3. \A r \in results : Same(r)
    BY <1>1, <2>2, RecordedEvidence, Zenon DEF KeepsRoute
  <2>4. QED
    BY <1>2, <2>1, <2>3
<1>11. CASE MultiAgentPanel
  <2> DEFINE agreed == [Spend(st, 70) EXCEPT !.path = "high_risk_panel", !.draft = TRUE,
                                             !.split = FALSE]
             repaired(b) == [Spend(st, 95) EXCEPT !.path = "high_risk_panel",
                                                  !.draft = TRUE, !.split = b]
  <2>1. Same(agreed) /\ \A b \in BOOLEAN : Same(repaired(b))
    BY <1>1 DEF Spend, States
  <2>2. Runs(PanelStage, {agreed} \cup {repaired(b) : b \in BOOLEAN})
    BY <1>11 DEF MultiAgentPanel
  <2> HIDE DEF agreed, repaired
  <2>3. \A r \in {agreed} \cup {repaired(b) : b \in BOOLEAN} : Same(r)
    BY <2>1
  <2>4. QED
    BY <1>2, <2>2, <2>3
<1>12. CASE ComplianceValidation
  <2> DEFINE results == {[Spend(st, j[2]) EXCEPT !.verdict = j[1]] : j \in Judgements(st)}
  <2>1. Runs(Validation, results)
    BY <1>12 DEF ComplianceValidation
  <2>2. ASSUME NEW r \in results
        PROVE  Same(r)
    <3>1. PICK j \in Judgements(st) : r = [Spend(st, j[2]) EXCEPT !.verdict = j[1]]
      OBVIOUS
    <3>2. QED
      BY <1>1, <3>1 DEF Spend, States
  <2> HIDE DEF results
  <2>3. QED
    BY <1>2, <2>1, <2>2
<1>13. CASE ConfidenceScoring
  <2> DEFINE results == {[st EXCEPT !.confident = c] : c \in {"below", "above"}}
  <2>1. \A r \in results : Same(r)
    BY <1>1 DEF States
  <2>2. Runs("confidence_scoring", results)
    BY <1>13 DEF ConfidenceScoring
  <2>3. QED
    BY <1>2, <2>1, <2>2
<1>14. CASE NoAnswer
  <2> DEFINE unknown == [st EXCEPT !.draft = TRUE, !.confident = "below", !.unknown = TRUE,
                                   !.missing = IF @ = "none" THEN "no_match" ELSE @]
  <2>1. Same(unknown)
    BY <1>1 DEF States
  <2>2. Runs("no_answer", {unknown})
    BY <1>14 DEF NoAnswer
  <2> HIDE DEF unknown
  <2>3. \A r \in {unknown} : Same(r)
    BY <2>1
  <2>4. QED
    BY <1>2, <2>2, <2>3
<1>15. CASE OutputGuardrail
  <2> DEFINE refused == [st EXCEPT !.outcome = "escalated", !.reason = TRUE]
             released == [st EXCEPT !.outcome = "answered", !.reason = FALSE]
             results == {refused} \cup (IF st.draft THEN {released} ELSE {})
  <2>1. Same(refused) /\ Same(released)
    BY <1>1 DEF States
  <2>2. Runs("output_guardrail", results)
    BY <1>15 DEF OutputGuardrail
  <2> HIDE DEF refused, released
  <2>3. \A r \in results : Same(r)
    BY <2>1
  <2>4. QED
    BY <1>2, <2>2, <2>3
<1>16. CASE EscalationManager \/ SafeRefusal \/ Clarification
  <2> DEFINE escalated == [st EXCEPT !.outcome = "escalated", !.reason = TRUE]
             refused == [st EXCEPT !.outcome = "refused"]
             asked == [st EXCEPT !.outcome = "clarification_required"]
  <2>1. Same(escalated) /\ Same(refused) /\ Same(asked)
    BY <1>1 DEF States
  <2>2. \/ Runs("escalation_manager", {escalated}) \/ Runs("safe_refusal", {refused})
        \/ Runs("clarification", {asked})
    BY <1>16 DEF EscalationManager, SafeRefusal, Clarification
  <2> HIDE DEF escalated, refused, asked
  <2>3. PICK n, r : Runs(n, {r}) /\ Same(r)
    BY <2>1, <2>2
  <2>4. QED
    BY <1>2, <2>3
<1>17. CASE Raise
  BY <1>17 DEF Raise
<1>18. QED
  BY <1>3, <1>4, <1>5, <1>6, <1>7, <1>8, <1>9, <1>10, <1>11, <1>12, <1>13, <1>14, <1>15,
     <1>16, <1>17 DEF Next

Once == st.reflections <= 1 /\ (node = "reflection" => st.reflections = 0)

\* At the configured budget the second repair that the settings allow a hybrid
\* answer is never entered: what the first one spent leaves too little.
THEOREM SecondRepairNeverFits ==
    ASSUME TokenBudget \in 152..165, SqlRepairs <= 1, RagRepairs <= 1
    PROVE  Spec => []OneRepairFits
<1>1. TokenBudget >= 152
  OBVIOUS
<1>2. ASSUME TypeOK, TypeOK', Control, Control', Evidence, Evidence', Meter, Meter', Once,
             [Next]_vars
      PROVE  Once'
  <2>1. st.reflections \in Nat /\ st'.reflections \in Nat
    BY <1>2 DEF TypeOK, States
  <2>2. CASE UNCHANGED vars
    BY <1>2, <2>2 DEF vars, Once
  <2>3. CASE Reflection
    <3>1. node = "reflection" /\ node' = "planner"
      BY <1>2, <2>3, RunsFacts DEF Reflection
    <3>2. st'.reflections \in {st.reflections, st.reflections + 1}
      <4>1. NeverForgets
        BY <1>2, <2>3, ReflectionStep DEF Grows
      <4>2. QED
        BY <4>1 DEF NeverForgets
    <3>3. QED
      BY <1>2, <3>1, <3>2 DEF Once
  <2>4. CASE ComplianceValidation
    <3> DEFINE results == {[Spend(st, j[2]) EXCEPT !.verdict = j[1]] : j \in Judgements(st)}
    <3>1. Runs(Validation, results) /\ node' = AfterValidation(st', now')
      BY <2>4 DEF ComplianceValidation
    <3>2. node = Validation /\ DraftMeter(st) /\ st.path = CurrentRoute(st)
      BY <1>2, <3>1, RunsFacts DEF Meter, Evidence
    <3>3. ~Reflection
      BY <1>2, <3>2, RunsFacts DEF Reflection, Validation
    <3>4. st'.reflections = st.reflections
      <4>1. Next
        BY <2>4 DEF Next
      <4>2. QED
        BY <1>2, <3>3, <4>1, OnlyReflectionCounts
    <3>5. SUFFICES ASSUME node' = "reflection", st.reflections = 1
                   PROVE  FALSE
      BY <1>2, <2>1, <3>4 DEF Once
    <3>6. CanRepair(st', now') /\ ~HighRisk(st') /\ ~st'.stopped
      BY <3>1, <3>5 DEF AfterValidation
    <3>7. st' \in results
      BY <1>2, <3>1, <3>6, RunsFacts, StopKeepsEvidence
    <3>8. /\ KeepsRoute(st') /\ st'.tokens \in Nat /\ Paid(st', 0, 25)
          /\ st'.path = st.path
      BY <1>2, <3>7, JudgedFields
    <3>9. CurrentRoute(st') = CurrentRoute(st) /\ HighRisk(st') = HighRisk(st)
      BY <3>8 DEF KeepsRoute, CurrentRoute, HighRisk
    <3>10. CurrentRoute(st) \in {"rag", "nl2sql", "hybrid"}
      BY <1>2, <3>2, <3>6, <3>9, DraftRoutes DEF DraftMeter
    <3>11. CurrentPath(st') = CurrentRoute(st)
      BY <3>2, <3>8, <3>10 DEF CurrentPath
    <3>12. st'.reflections < RepairsAllowed(st') /\ TokensLeft(st') >= RepairEstimate(st')
      BY <3>6 DEF CanRepair
    <3>13. CurrentRoute(st) = "hybrid"
      <4>1. Capped(RagRepairs) <= 1 /\ Capped(SqlRepairs) <= 1
            /\ Capped(RagRepairs) \in Nat /\ Capped(SqlRepairs) \in Nat
        BY RepairAssumption DEF Capped
      <4>2. CurrentPath(st') \notin {"rag", "nl2sql"}
        BY <3>4, <3>5, <3>12, <4>1 DEF RepairsAllowed
      <4>3. QED
        BY <3>10, <3>11, <4>2
    <3>14. st.tokens >= 82
      BY <3>2, <3>5, <3>13 DEF DraftMeter
    <3>15. RepairEstimate(st') = 84
      BY <3>9, <3>13, EstimateOfRoute DEF RouteEstimate
    <3>16. QED
      BY <1>2, <3>8, <3>12, <3>14, <3>15, MeterTypes DEF TokensLeft, Paid
  <2>5. CASE Next /\ ~Reflection /\ ~ComplianceValidation
    <3>1. st'.reflections = st.reflections
      BY <1>2, <2>5, OnlyReflectionCounts
    <3>2. node' # "reflection"
      BY <1>1, <1>2, <2>5, EarlyNodesMeter, PlannerKeepsMeter, RagPathKeepsMeter,
         SqlPathKeepsMeter, MultiAgentPanelKeepsMeter, LastNodesMeter DEF Next
    <3>3. QED
      BY <1>2, <3>1, <3>2 DEF Once
  <2>6. QED
    BY <1>2, <2>2, <2>3, <2>4, <2>5
<1>3. Init => Once
  BY DEF Init, InitialState, Once
<1>4. Once => OneRepairFits
  BY DEF Once, OneRepairFits
<1>5. QED
  BY <1>1, <1>2, <1>3, <1>4, MeterIsKept, Invariant, EvidenceIsCarried, PTL DEF Spec
=============================================================================
