------------------------- MODULE RecordsPathProofs -------------------------
(* Proofs about RecordsPath: for every catalogue, grant and generated       *)
(* statement that the named assumptions admit, no row outside the caller's  *)
(* scope is read through a reference that the table check or a CTE catches, *)
(* and without others the filter behind the statement has nothing to do.    *)
EXTENDS RecordsPath, TLAPS, FiniteSetTheorems

USE DEF Goto, Proceed, Refuse

LEMMA PreparedIsTyped ==
    ASSUME NEW t \in Templates, NEW v \in Vendors \cup {NoVendor}
    PROVE  /\ Prepared(t, v) \in Statements
           /\ Reads(Prepared(t, v)) = {t.main} \cup t.joined
           /\ \A q \in Uses(Prepared(t, v)) : q.plain /\ q.seen
<1>1. t.main \in Tables /\ t.joined \subseteq Tables /\ t.counts \in BOOLEAN
  BY DEF Templates
<1>2. ASSUME NEW j \in Tables
      PROVE  Vetted(j) \in References /\ Vetted(j).table = j /\ Vetted(j).plain /\ Vetted(j).seen
  BY DEF Vetted, References, Relations
<1>3. Uses(Prepared(t, v)) = {Vetted(j) : j \in {t.main} \cup t.joined}
  BY DEF Uses, Prepared
<1>4. Prepared(t, v) \in Statements
  <2>1. {Vetted(j) : j \in t.joined} \in SUBSET References
    BY <1>1, <1>2
  <2>2. QED
    BY <1>1, <1>2, <2>1 DEF Prepared, Statements
<1>5. QED
  BY <1>1, <1>2, <1>3, <1>4 DEF Reads

LEMMA CatalogueIsTyped == TypeOK => Catalogue \subseteq Templates
BY CatalogueAssumption DEF Catalogue

LEMMA InitTypes == Init => TypeOK
BY DEF Init, TypeOK

LEMMA TypesKept == TypeOK /\ [Next]_vars => TypeOK'
<1> SUFFICES ASSUME TypeOK, [Next]_vars PROVE TypeOK'
  OBVIOUS
<1>1. ASSUME Guard \/ Classify PROVE TypeOK'
  BY <1>1 DEF Guard, Classify, TypeOK
<1>2. ASSUME NEW s \in Statements, NEW from \in {"matched", "selector", "generated"},
             Prepare(s, from),
             from # "generated" => /\ Reads(s) \subseteq grant.tables
                                   /\ \A q \in Uses(s) : q.plain /\ q.seen
      PROVE  TypeOK'
  BY <1>2 DEF Prepare, TypeOK
<1>3. ASSUME NEW t \in Catalogue, NEW v \in Vendors \cup {NoVendor}
      PROVE  /\ Prepared(t, v) \in Statements
             /\ Reads(Prepared(t, v)) \subseteq grant.tables
             /\ \A q \in Uses(Prepared(t, v)) : q.plain /\ q.seen
  BY <1>3, CatalogueIsTyped, PreparedIsTyped DEF Catalogue
<1>4. CASE Match
  <2>1. ASSUME NEW t \in Catalogue, Prepare(Prepared(t, NoVendor), "matched") PROVE TypeOK'
    BY <2>1, <1>2, <1>3
  <2>2. CASE pc = "match" /\ Proceed("classify")
    BY <2>2 DEF TypeOK
  <2>3. QED
    BY <1>4, <2>1, <2>2 DEF Match
<1>5. CASE Select
  <2>1. ASSUME NEW t \in Catalogue, NEW v \in Vendors \cup {NoVendor},
               Prepare(Prepared(t, v), "selector")
        PROVE  TypeOK'
    BY <2>1, <1>2, <1>3
  <2>2. CASE pc = "select" /\ (Refuse \/ Proceed("generate"))
    BY <2>2 DEF TypeOK
  <2>3. preset \in Vendors \cup {NoVendor}
    BY DEF TypeOK
  <2>4. QED
    BY <1>5, <2>1, <2>2, <2>3 DEF Select
<1>6. CASE Generate
  <2>1. ASSUME NEW s \in Generated, Prepare(s, "generated") PROVE TypeOK'
    BY <2>1, <1>2, CatalogueAssumption
  <2>2. CASE pc = "generate" /\ Refuse
    BY <2>2 DEF TypeOK
  <2>3. QED
    BY <1>6, <2>1, <2>2 DEF Generate
<1>7. ASSUME Gate \/ Scope PROVE TypeOK'
  BY <1>7 DEF Gate, Scope, TypeOK
<1>8. CASE Execute
  BY <1>8 DEF Execute, TypeOK
<1>9. CASE UNCHANGED vars
  BY <1>9 DEF vars, TypeOK
<1>10. QED
  BY <1>1, <1>4, <1>5, <1>6, <1>7, <1>8, <1>9 DEF Next

\* Statements, sources and steps keep their types; a vetted statement names
\* only tables that its caller is granted, plainly and where the check sees them.
THEOREM TypeCorrect == Spec => []TypeOK
BY InitTypes, TypesKept, PTL DEF Spec

-----------------------------------------------------------------------------
(* What a scoped statement reads. *)

LEMMA GrantIsTyped ==
    ASSUME NEW g \in Grants
    PROVE  g.tables \subseteq Tables /\ g.bands \subseteq Bands
           /\ g.departments \subseteq Departments /\ (g.tables # {} => g.bands # {})
BY GrantAssumption DEF Granting

\* A compliance table that is named plainly is either shadowed, or needs no shadow.
LEMMA PlainReadIsOwned ==
    ASSUME NEW g \in Grants, NEW s \in Statements, NEW q \in Uses(s),
           q.plain, q.table \in Tables, NEW r \in ReadFrom(g, s, q)
    PROVE  Owned(g, r)
<1> DEFINE t == q.table
<1>1. r \in Database /\ r.table = t /\ r.vendor \in Vendors /\ BandOf[r.vendor] \in Bands
  BY DataAssumption DEF ReadFrom, Rows
<1>2. t \in Mentions(s) \cap Tables
  BY DEF Mentions, Reads
<1>3. CASE t \in Shadowed(g, s)
  <2>1. Visible(g, r)
    BY <1>3 DEF ReadFrom
  <2>2. r.table \in g.tables /\ g.bands # {}
    BY <2>1, GrantIsTyped DEF Visible
  <2>3. BandOf[r.vendor] \in g.bands
    BY <1>1, <2>1, <2>2 DEF Visible, RiskFilter
  <2>4. QED
    BY <2>1, <2>2, <2>3 DEF Visible, Owned, DepartmentFilter
<1>4. CASE t \notin Shadowed(g, s)
  <2>1. t \in g.tables /\ ~RiskFilter(g) /\ ~(t = "retention_records" /\ DepartmentFilter(g))
    BY <1>2, <1>4 DEF Shadowed
  <2>2. g.bands # {}
    BY <2>1, GrantIsTyped
  <2>3. Bands \subseteq g.bands
    BY <2>1, <2>2 DEF RiskFilter
  <2>4. QED
    BY <1>1, <2>1, <2>3 DEF Owned, DepartmentFilter
<1>5. QED
  BY <1>3, <1>4

\* Any other reference was refused by the table check, or escapes it.
LEMMA ReadIsOwned ==
    ASSUME NEW g \in Grants, NEW s \in Statements, InScope(g, s), NEW q \in Uses(s),
           ~Escapes(s, q), NEW r \in ReadFrom(g, s, q)
    PROVE  Owned(g, r)
<1>1. CASE q.plain /\ q.table \in Tables
  BY <1>1, PlainReadIsOwned
<1>2. CASE ~q.plain \/ q.table \notin Tables
  <2>1. q.seen /\ Name(q) \notin s.ctes
    BY <1>2 DEF Escapes
  <2>2. q.plain /\ q.table \in g.tables
    BY <2>1 DEF InScope
  <2>3. QED
    BY <1>2, <2>2, GrantIsTyped
<1>3. QED
  BY <1>1, <1>2

\* A statement that is run has passed the table check.
Gated == TypeOK /\ (pc \in {"scope", "execute", "done"} => InScope(grant, statement))

LEMMA GatedKept == Gated /\ [Next]_vars => Gated'
<1> SUFFICES ASSUME Gated, [Next]_vars,
                    pc' \in {"scope", "execute", "done"}
             PROVE  InScope(grant, statement)'
  BY TypesKept DEF Gated
<1>1. UNCHANGED <<grant, statement>> => InScope(grant, statement)' = InScope(grant, statement)
  BY DEF InScope, Uses
<1>2. ASSUME NEW s, NEW from, Prepare(s, from) PROVE FALSE
  BY <1>2 DEF Prepare
<1>3. CASE Guard \/ Match \/ Classify \/ Select \/ Generate
  BY <1>2, <1>3 DEF Guard, Match, Classify, Select, Generate
<1>4. CASE Gate \/ Scope \/ Execute
  BY <1>1, <1>4 DEF Gate, Scope, Execute, Gated
<1>5. CASE UNCHANGED vars
  BY <1>1, <1>5 DEF vars, Gated
<1>6. QED
  BY <1>3, <1>4, <1>5 DEF Next

\* No row outside the caller's tables, bands and departments is read, for every
\* statement that a vetted query or the generator can put forward, but through a
\* reference that escapes the table check and the CTE alike.
THEOREM Scoped == Spec => []ReadsAreScoped
<1>1. Init => Gated
  BY InitTypes DEF Init, Gated
<1>2. Gated => ReadsAreScoped
  BY ReadIsOwned DEF Gated, TypeOK, ReadsAreScoped
<1>3. QED
  BY <1>1, <1>2, GatedKept, PTL DEF Spec

-----------------------------------------------------------------------------
(* The second line of defence. *)

LEMMA OwnedIsNotForeign ==
    ASSUME NEW g \in Grants, NEW s \in Statements, InScope(g, s), ~Escapes(s, s.main),
           NEW r \in Listed(g, s)
    PROVE  ~Foreign(g, s, r)
<1>1. r \in ReadFrom(g, s, s.main) /\ s.main \in Uses(s)
  BY DEF Listed, Uses
<1>2. Owned(g, r)
  BY <1>1, ReadIsOwned
<1>3. r \in Database
  BY <1>1 DEF ReadFrom
<1>4. r.department # NoDepartment => r.table = "retention_records"
  BY <1>3, DepartmentAssumption
<1>5. QED
  BY <1>2, <1>4 DEF Owned, Foreign

Idle == Gated /\ SecondLineIsIdle

LEMMA IdleKept == Idle /\ [Next]_vars => Idle'
<1> SUFFICES ASSUME Idle, [Next]_vars PROVE SecondLineIsIdle'
  BY GatedKept DEF Idle
<1>1. CASE Execute
  <2>1. CASE Refuse
    BY <2>1 DEF SecondLineIsIdle
  <2>2. ASSUME NEW raw \in SUBSET Listed(grant, statement),
               NEW rows \in SUBSET Listed(grant, statement),
               evidence' = Evidence(grant, statement, raw, rows, source = "generated"),
               ~Escapes(statement, statement.main)
        PROVE  evidence'.filtered = 0
    <3>1. grant \in Grants /\ statement \in Statements /\ InScope(grant, statement)
      BY <1>1 DEF Execute, Idle, Gated, TypeOK
    <3>2. {r \in rows : Foreign(grant, statement, r)} = {}
      BY <2>2, <3>1, OwnedIsNotForeign
    <3>3. Cardinality({}) = 0
      BY FS_EmptySet
    <3>4. QED
      BY <2>2, <3>2, <3>3 DEF Evidence
  <2>3. statement.main \in Uses(statement)
    BY DEF Uses
  <2>4. QED
    BY <1>1, <2>1, <2>2, <2>3 DEF Execute, SecondLineIsIdle
<1>2. ASSUME NEW s, NEW from, Prepare(s, from) PROVE SecondLineIsIdle'
  BY <1>2 DEF Prepare, SecondLineIsIdle
<1>3. CASE Guard \/ Classify \/ Gate \/ Scope
  BY <1>3 DEF Guard, Classify, Gate, Scope, SecondLineIsIdle
<1>4. CASE Match \/ Select \/ Generate
  BY <1>2, <1>4 DEF Match, Select, Generate, SecondLineIsIdle
<1>5. CASE UNCHANGED vars
  BY <1>5 DEF vars, Idle, SecondLineIsIdle, Uses, Escapes
<1>6. QED
  BY <1>1, <1>3, <1>4, <1>5 DEF Next

\* Unless a reference escaped, the filter of the rows never has one to drop.
THEOREM SecondLine == Spec => []SecondLineIsIdle
<1>1. Init => Idle
  BY InitTypes DEF Init, Idle, Gated, SecondLineIsIdle
<1>2. Idle => SecondLineIsIdle
  BY DEF Idle
<1>3. QED
  BY <1>1, <1>2, IdleKept, PTL DEF Spec

-----------------------------------------------------------------------------
(* What a figure discloses. *)

\* Without a note of the scope the statement is over everything there is.
LEMMA UnnotedIsEverything ==
    ASSUME NEW g \in Grants, NEW s \in Statements, Reads(s) \subseteq g.tables,
           ~ScopeNote(g, s)
    PROVE  Listed(g, s) = Everything(s)
<1>1. /\ s.main \in Uses(s) /\ \A q \in Uses(s) : q.table \in Reads(s)
      /\ Reads(s) \subseteq Mentions(s) \cap g.tables /\ Reads(s) # {}
  BY DEF Uses, Reads, Mentions
<1>2. ~RiskFilter(g)
  BY <1>1 DEF ScopeNote
<1>3. \A t \in Reads(s) : t \notin Shadowed(g, s)
  BY <1>1, <1>2 DEF ScopeNote, Shadowed
<1>4. \A q \in Uses(s) : ReadFrom(g, s, q) = {r \in Database : r.table = q.table}
  BY <1>1, <1>3 DEF ReadFrom
<1>5. \A r : (\A q \in Uses(s) : \E p \in ReadFrom(g, s, q) : p.vendor = r.vendor)
             <=> (\A t \in Reads(s) : \E p \in Database : p.table = t /\ p.vendor = r.vendor)
  BY <1>4 DEF Reads
<1>6. QED
  BY <1>1, <1>4, <1>5 DEF Listed, Everything

\* The rows that came back are all there are, unless they reach the limit.
LEMMA UntruncatedIsAll ==
    ASSUME NEW g \in Grants, NEW s \in Statements,
           NEW raw \in SUBSET Listed(g, s),
           \/ s.counts /\ raw = Listed(g, s)
           \/ ~s.counts /\ (Limited(raw, Listed(g, s)) \/ raw = Listed(g, s)),
           ~(~s.counts /\ Truncated(raw))
    PROVE  raw = Listed(g, s) /\ Cardinality(raw) \in Nat
<1>1. Listed(g, s) \subseteq Database
  BY DEF Listed, ReadFrom
<1>2. IsFiniteSet(raw)
  BY <1>1, DataAssumption, FS_Subset
<1>3. Cardinality(raw) \in Nat
  BY <1>2, FS_CardinalityType
<1>4. Cardinality(raw) = SqlRowLimit => Truncated(raw)
  BY <1>3, LimitAssumption DEF Truncated
<1>5. QED
  BY <1>3, <1>4 DEF Limited

LEMMA EvidenceIsDisclosed ==
    ASSUME NEW g \in Grants, NEW s \in Statements, NEW generated,
           NEW raw \in SUBSET Listed(g, s), NEW rows \in SUBSET Listed(g, s),
           \/ s.counts /\ raw = Listed(g, s)
           \/ ~s.counts /\ (Limited(raw, Listed(g, s)) \/ raw = Listed(g, s)),
           Reads(s) \subseteq g.tables,
           NEW e, e = Evidence(g, s, raw, rows, generated),
           Disclosures(e) \cap {"row_cap", "scope_limit", "scope_filter"} = {}
    PROVE  e.figure = Cardinality(Everything(s))
<1>1. ~e.truncated /\ ~e.note
  BY DEF Disclosures
<1>2. {r \in rows : Foreign(g, s, r)} = {}
  <2> DEFINE foreign == {r \in rows : Foreign(g, s, r)}
  <2>1. IsFiniteSet(foreign)
    <3>1. foreign \subseteq Database
      BY DEF Listed, ReadFrom
    <3>2. QED
      BY <3>1, DataAssumption, FS_Subset
  <2>2. Cardinality(foreign) \in Nat
    BY <2>1, FS_CardinalityType
  <2>3. e.filtered = Cardinality(foreign) /\ ~(e.filtered > 0)
    BY DEF Evidence, Disclosures
  <2>4. QED
    BY <2>1, <2>2, <2>3, FS_EmptySet
<1>3. /\ e.figure = Cardinality(raw) - Cardinality({})
      /\ e.truncated = (~s.counts /\ Truncated(raw))
      /\ e.note = ScopeNote(g, s)
  BY <1>2 DEF Evidence
<1>4. raw = Listed(g, s) /\ Cardinality(raw) \in Nat
  BY <1>1, <1>3, UntruncatedIsAll
<1>5. Listed(g, s) = Everything(s)
  BY <1>1, <1>3, UnnotedIsEverything
<1>6. QED
  BY <1>3, <1>4, <1>5, FS_EmptySet

LEMMA FiguresKept == TypeOK /\ FiguresAreDisclosed /\ [Next]_vars => FiguresAreDisclosed'
<1> SUFFICES ASSUME TypeOK, FiguresAreDisclosed, [Next]_vars PROVE FiguresAreDisclosed'
  OBVIOUS
<1>1. CASE Execute
  <2>1. CASE Refuse
    BY <2>1 DEF FiguresAreDisclosed
  <2>2. ASSUME NEW raw \in SUBSET Listed(grant, statement),
               NEW rows \in SUBSET Listed(grant, statement),
               \/ statement.counts /\ raw = Listed(grant, statement)
               \/ ~statement.counts /\ \/ Limited(raw, Listed(grant, statement))
                                       \/ raw = Listed(grant, statement),
               evidence' = Evidence(grant, statement, raw, rows, source = "generated"),
               UNCHANGED <<grant, statement>>
        PROVE  FiguresAreDisclosed'
    <3>1. grant \in Grants /\ statement \in Statements
      BY <1>1 DEF Execute, TypeOK
    <3>2. SUFFICES ASSUME Reads(statement) \subseteq grant.tables,
                          Disclosures(evidence') \cap {"row_cap", "scope_limit", "scope_filter"} = {}
                   PROVE  evidence'.figure = Cardinality(Everything(statement))
      BY <2>2 DEF FiguresAreDisclosed, Disclosures, Reads, Uses, Everything
    <3>3. ASSUME NEW generated, NEW e, e = Evidence(grant, statement, raw, rows, generated),
                 Disclosures(e) \cap {"row_cap", "scope_limit", "scope_filter"} = {}
          PROVE  e.figure = Cardinality(Everything(statement))
      BY <2>2, <3>1, <3>2, <3>3, EvidenceIsDisclosed
    <3>4. QED
      BY <2>2, <3>2, <3>3
  <2>3. QED
    BY <1>1, <2>1, <2>2 DEF Execute
<1>2. ASSUME NEW s, NEW from, Prepare(s, from) PROVE FiguresAreDisclosed'
  BY <1>2 DEF Prepare, FiguresAreDisclosed
<1>3. CASE Guard \/ Classify \/ Gate \/ Scope
  BY <1>3 DEF Guard, Classify, Gate, Scope, FiguresAreDisclosed
<1>4. CASE Match \/ Select \/ Generate
  BY <1>2, <1>4 DEF Match, Select, Generate, FiguresAreDisclosed
<1>5. CASE UNCHANGED vars
  BY <1>5 DEF vars, FiguresAreDisclosed, Disclosures, Reads, Uses, Everything
<1>6. QED
  BY <1>1, <1>3, <1>4, <1>5 DEF Next

\* A figure short of the whole database carries a caveat, for every database,
\* grant, statement and limit.
THEOREM Disclosed == Spec => []FiguresAreDisclosed
<1>1. Init => FiguresAreDisclosed
  BY DEF Init, FiguresAreDisclosed
<1>2. QED
  BY <1>1, InitTypes, TypesKept, FiguresKept, PTL DEF Spec
=============================================================================
