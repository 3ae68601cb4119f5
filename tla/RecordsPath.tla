---------------------------- MODULE RecordsPath ----------------------------
(***************************************************************************)
(* One question put to the compliance database: run_vetted_sql             *)
(* (backend/src/sqlpath/executor.py) with the selection of a vetted query, *)
(* the generated query it falls back to (nl2sql_engine.py), the checks     *)
(* both pass (guardrails/sql_guard.py), the scope written into the         *)
(* statement (scoping.py), the filter behind it, and the caveats a figure  *)
(* must carry (disclosure.py).                                             *)
(*                                                                         *)
(* Of a statement the model keeps what those checks compare and what       *)
(* decides the rows PostgreSQL reads: its tables and how it names them,    *)
(* its WITH clause, whether it lists or counts.  What models answer is a   *)
(* free choice.                                                            *)
(***************************************************************************)
EXTENDS Naturals, FiniteSets

CONSTANTS
    Vendors, Bands, Departments,
    BandOf,         \* vendor -> risk_category
    Database,       \* the rows of all relations
    Grants,         \* what the roles of rbac.py may read, with a caller's departments
    TEMPLATES,      \* the vetted catalogue
    Generated,      \* the statements the generator may write
    SqlRowLimit,    \* sql_row_limit
    GeneratedSqlFallback,   \* enable_generated_sql_fallback
    NoVendor, NoDepartment, None

Tables == {"vendors", "audit_logs", "compliance_reviews", "retention_records"}

\* "other" stands for every relation that TABLE_DESCRIPTIONS does not list.
Relations == Tables \cup {"other"}
Rows == [table : Relations, id : Nat, vendor : Vendors, department : Departments \cup {NoDepartment}]
Granting == [tables : SUBSET Tables, bands : SUBSET Bands, departments : SUBSET Departments]

\* A name is plain, or carries its schema ("public.vendors").
Names == [table : Relations, plain : BOOLEAN]

\* One place where a statement reads a relation.  It is seen if referenced_tables
\* finds it: not so after the condition of a JOIN and in a TABLE command.
References == [table : Relations, plain : BOOLEAN, seen : BOOLEAN]
Name(q) == [table |-> q.table, plain |-> q.plain]
Plain(t) == [table |-> t, plain |-> TRUE]

\* main: what its rows or its count are of.  ctes: the names its own leading WITH
\* defines.  shown: its rows carry risk_category and department.
Statements ==
    [main : References, joined : SUBSET References, ctes : SUBSET Names,
     recursive : BOOLEAN, counts : BOOLEAN, shown : BOOLEAN, vendor : Vendors \cup {NoVendor}]

\* plain: match_simple_template knows it.  byVendor: it takes a vendor_id.
Template(main, joined, counts, plain, byVendor) ==
    [main |-> main, joined |-> joined, counts |-> counts, plain |-> plain, byVendor |-> byVendor]
Templates == [main : Tables, joined : SUBSET Tables, counts : BOOLEAN, plain : BOOLEAN, byVendor : BOOLEAN]

ASSUME DataAssumption ==
    BandOf \in [Vendors -> Bands] /\ Database \subseteq Rows /\ IsFiniteSet(Database)
ASSUME CatalogueAssumption == TEMPLATES \subseteq Templates /\ Generated \subseteq Statements
ASSUME DepartmentAssumption ==
    \A r \in Database : r.department # NoDepartment => r.table = "retention_records"
\* An empty list of risk bands means "every band" to risk_filter: a role of
\* rbac.py that reads a table has at least one band.
ASSUME GrantAssumption ==
    Grants \subseteq Granting /\ \A g \in Grants : g.tables # {} => g.bands # {}
ASSUME LimitAssumption == SqlRowLimit \in Nat \ {0} /\ GeneratedSqlFallback \in BOOLEAN

VARIABLES
    pc,
    grant,      \* allowed_tables, risk_categories and departments of the caller
    preset,     \* the vendor_id entity resolution found
    statement, source,
    evidence
vars == <<pc, grant, preset, statement, source, evidence>>

-----------------------------------------------------------------------------
(* What a statement may read (scoping.py, sql_guard.py). *)

Uses(s) == {s.main} \cup s.joined
Reads(s) == {q.table : q \in Uses(s)}
Mentions(s) == Reads(s) \cup {n.table : n \in s.ctes}

\* assert_tables_in_scope: a name that is seen is that of a granted table, without
\* a schema, or one that the statement's own WITH defines.
InScope(g, s) ==
    \A q \in Uses(s) : q.seen => \/ q.plain /\ q.table \in g.tables
                                \/ Name(q) \in s.ctes

\* risk_filter, department_filter: None is FALSE.
RiskFilter(g) == g.bands # {} /\ ~(Bands \subseteq g.bands)
DepartmentFilter(g) == g.departments # {}

\* Mutant: only vendors is shadowed, not the tables that hang off it.
MutShadowed(g, s) ==
    {t \in Mentions(s) \cap Tables : t \notin g.tables \/ (t = "vendors" /\ RiskFilter(g))}

\* Mutant: the departments are left to the filter behind the statement.
MutShadowedByBand(g, s) ==
    {t \in Mentions(s) \cap Tables : t \notin g.tables \/ RiskFilter(g)}

\* scope_statement: the compliance tables that get a CTE of their own name in front.
Shadowed(g, s) ==
    {t \in Mentions(s) \cap Tables :
        \/ t \notin g.tables
        \/ RiskFilter(g)
        \/ t = "retention_records" /\ DepartmentFilter(g)}

\* ... unless the statement is recursive or defines one of them itself.
Unscopable(g, s) ==
    Shadowed(g, s) # {} /\ (s.recursive \/ \E t \in Shadowed(g, s) : Plain(t) \in s.ctes)

\* What such a CTE keeps of its table.
Visible(g, r) ==
    /\ r.table \in g.tables
    /\ RiskFilter(g) => BandOf[r.vendor] \in g.bands
    /\ r.table = "retention_records" /\ DepartmentFilter(g) => r.department \in g.departments

\* PostgreSQL resolves a plain name to a CTE of that name first.  A name with a
\* schema is the table itself, whatever stands in front.
ReadFrom(g, s, q) ==
    {r \in Database : r.table = q.table /\ (q.plain /\ q.table \in Shadowed(g, s) => Visible(g, r))}

\* The rows of main that join with each other table, by vendor_id.
Listed(g, s) ==
    {r \in ReadFrom(g, s, s.main) :
        /\ s.vendor # NoVendor => r.vendor = s.vendor
        /\ \A q \in Uses(s) : \E p \in ReadFrom(g, s, q) : p.vendor = r.vendor}

\* scope_note
ScopeNote(g, s) ==
    \/ RiskFilter(g) /\ Mentions(s) \cap g.tables # {}
    \/ DepartmentFilter(g) /\ "retention_records" \in Mentions(s) \cap g.tables

-----------------------------------------------------------------------------
(* The rows that come back (executor.py, nl2sql_engine.py). *)

\* _scope_rows: the rows that carry a column of somebody else's are dropped.
Foreign(g, s, r) ==
    /\ s.shown /\ ~s.counts
    /\ \/ g.departments # {} /\ r.department # NoDepartment /\ r.department \notin g.departments
       \/ g.bands # {} /\ BandOf[r.vendor] \notin g.bands

\* Mutant: the limit counts as reached only when it is passed.
MutTruncated(raw) == Cardinality(raw) > SqlRowLimit

Truncated(raw) == Cardinality(raw) >= SqlRowLimit

\* LIMIT: every vetted query has one, a generated query may.
Limited(raw, all) == Cardinality(raw) = SqlRowLimit \/ (raw = all /\ Cardinality(all) < SqlRowLimit)

\* raw is what fetchall returns; a generated query's rows are cut to the limit
\* before they are filtered.  A count is one row, whatever it counts.
Evidence(g, s, raw, rows, generated) ==
    LET foreign == {r \in rows : Foreign(g, s, r)}
    IN  [figure    |-> Cardinality(raw) - Cardinality(foreign),
         empty     |-> ~s.counts /\ Cardinality(raw) = Cardinality(foreign),
         truncated |-> ~s.counts /\ Truncated(raw),
         filtered  |-> Cardinality(foreign),
         note      |-> ScopeNote(g, s),
         generated |-> generated]

\* disclosures: the caveats the answer is given, by the model or after it.
Disclosures(e) ==
    {key \in {"generated_query", "empty_result", "row_cap", "scope_limit", "scope_filter"} :
        \/ key = "generated_query" /\ e.generated
        \/ key = "empty_result" /\ e.empty
        \/ key = "row_cap" /\ e.truncated
        \/ key = "scope_limit" /\ e.note
        \/ key = "scope_filter" /\ e.filtered > 0}

-----------------------------------------------------------------------------
(* The steps of run_vetted_sql.  A refusal is a SqlPolicyError. *)

Init ==
    /\ pc = "guard"
    /\ grant \in Grants
    /\ preset \in Vendors \cup {NoVendor}
    /\ statement = None /\ source = "none"
    /\ evidence = None

Goto(step) == pc' = step
Proceed(step) == Goto(step) /\ UNCHANGED <<grant, preset, statement, source, evidence>>
Refuse == Proceed("refused")

\* validate_question_intent, and a role without a compliance table.
Guard ==
    /\ pc = "guard"
    /\ \/ Refuse
       \/ grant.tables # {} /\ Proceed("match")

\* Mutant: the catalogue is the same for every role.
MutCatalogue == TEMPLATES

\* templates_visible_to
Catalogue == {t \in TEMPLATES : {t.main} \cup t.joined \subseteq grant.tables}

\* A vetted query names its tables plainly, each after a FROM or a JOIN.
Vetted(t) == [table |-> t, plain |-> TRUE, seen |-> TRUE]
Prepared(t, vendor) ==
    [main |-> Vetted(t.main), joined |-> {Vetted(j) : j \in t.joined}, ctes |-> {},
     recursive |-> FALSE, counts |-> t.counts, shown |-> TRUE, vendor |-> vendor]

Prepare(s, from) ==
    /\ statement' = s /\ source' = from
    /\ Goto("gate") /\ UNCHANGED <<grant, preset, evidence>>

\* match_simple_template: a plain question that names no vendor is not shown to
\* a model.
Match ==
    /\ pc = "match"
    /\ \/ preset = NoVendor /\ \E t \in Catalogue : t.plain /\ Prepare(Prepared(t, NoVendor), "matched")
       \/ Proceed("classify")

\* classify_intent_with_llm: a failure blocks, too.
Classify ==
    /\ pc = "classify"
    /\ \/ Refuse
       \/ Proceed("select")

\* select_template and bind_parameters: the resolved vendor overrides the one the
\* selector supplies; a template the caller may not see is no choice.
Select ==
    /\ pc = "select"
    /\ \/ \E t \in Catalogue, supplied \in Vendors \cup {NoVendor} :
             LET vendor == IF preset # NoVendor THEN preset ELSE supplied
             IN  \/ ~t.byVendor /\ Prepare(Prepared(t, NoVendor), "selector")
                 \/ t.byVendor /\ vendor # NoVendor /\ Prepare(Prepared(t, vendor), "selector")
       \/ Refuse
       \/ GeneratedSqlFallback /\ Proceed("generate")

\* generate_sql
Generate ==
    /\ pc = "generate"
    /\ \/ Refuse
       \/ \E s \in Generated : Prepare(s, "generated")

\* validate_generated_sql, which no vetted query fails, assert_tables_in_scope
\* and the search for placeholders.
Gate ==
    /\ pc = "gate"
    /\ \/ source = "generated" /\ Refuse
       \/ IF InScope(grant, statement) THEN Proceed("scope") ELSE Refuse

Scope ==
    /\ pc = "scope"
    /\ IF Unscopable(grant, statement) THEN Refuse
       ELSE Proceed("execute")

\* The SELECT on a read-only connection, _scope_rows and the SqlEvidence.
Execute ==
    /\ pc = "execute"
    /\ \/ Refuse
       \/ LET all == Listed(grant, statement)
          IN  /\ \E raw \in SUBSET all, rows \in SUBSET all :
                    /\ rows \subseteq raw
                    /\ \/ statement.counts /\ raw = all
                       \/ ~statement.counts /\ Limited(raw, all)
                       \/ ~statement.counts /\ source = "generated" /\ raw = all
                    /\ IF source = "generated" /\ ~statement.counts THEN Limited(rows, raw)
                       ELSE rows = raw
                    /\ evidence' = Evidence(grant, statement, raw, rows, source = "generated")
              /\ Goto("done")
              /\ UNCHANGED <<grant, preset, statement, source>>

Next == Guard \/ Match \/ Classify \/ Select \/ Generate \/ Gate \/ Scope \/ Execute

Spec == Init /\ [][Next]_vars

-----------------------------------------------------------------------------
(* Properties. *)

TypeOK ==
    /\ pc \in {"guard", "match", "classify", "select", "generate", "gate", "scope",
               "execute", "done", "refused"}
    /\ grant \in Grants
    /\ preset \in Vendors \cup {NoVendor}
    /\ pc \in {"gate", "scope", "execute", "done"} => statement \in Statements
    /\ source \in {"none", "matched", "selector", "generated"}
    /\ pc \in {"gate", "scope", "execute", "done"} /\ source # "generated" =>
          /\ source # "none" /\ Reads(statement) \subseteq grant.tables
          /\ \A q \in Uses(statement) : q.plain /\ q.seen

\* What neither line catches: no CTE in front stands for a name with a schema or for
\* another relation, and the table check does not see it or takes it for a name
\* that the statement defines.
Escapes(s, q) ==
    /\ ~q.plain \/ q.table \notin Tables
    /\ ~q.seen \/ Name(q) \in s.ctes

\* Whichever way a statement came about, and whatever compliance tables it names,
\* hides from the table check or defines anew, no row that it reads is outside the
\* caller's tables, risk bands and departments: of a count, too, which no filter of
\* its rows could limit.  Except where a reference escapes both the table check
\* and the CTE (see UngrantedReadsEmpty).
Owned(g, r) ==
    /\ r.table \in g.tables
    /\ BandOf[r.vendor] \in g.bands
    /\ r.table = "retention_records" /\ g.departments # {} => r.department \in g.departments
ReadsAreScoped ==
    pc \in {"execute", "done"} =>
        \A q \in Uses(statement) :
            Escapes(statement, q) \/ \A r \in ReadFrom(grant, statement, q) : Owned(grant, r)

\* The two lines of defence agree: unless a reference escaped the first, the filter
\* of the rows never finds one to drop, so no figure is lowered after the limit cut it.
SecondLineIsIdle ==
    pc = "done" /\ (\A q \in Uses(statement) : ~Escapes(statement, q)) => evidence.filtered = 0

\* "a table this role was never granted reads as empty, even if a comma join slipped
\* it past the table check" (scoping.py).
UngrantedReadsEmpty ==
    pc = "execute" =>
        \A q \in Uses(statement) :
            q.table \in Tables \ grant.tables => ReadFrom(grant, statement, q) = {}

\* A figure that is not that of the whole database never goes without a caveat
\* that says so: the row cap, the scope, or an empty result.
Everything(s) ==
    {r \in Database :
        /\ r.table = s.main.table /\ (s.vendor # NoVendor => r.vendor = s.vendor)
        /\ \A t \in Reads(s) : \E p \in Database : p.table = t /\ p.vendor = r.vendor}
FiguresAreDisclosed ==
    pc = "done" /\ Reads(statement) \subseteq grant.tables
                /\ evidence.figure # Cardinality(Everything(statement)) =>
        Disclosures(evidence) \cap {"row_cap", "scope_limit", "scope_filter"} # {}
=============================================================================
