--------------------------- MODULE MCRecordsPath ---------------------------
(* Four vendors in four bands, the roles of rbac.py, and the shapes of the  *)
(* catalogue and of what a generator may write.                             *)
EXTENDS RecordsPath

MCBands == {"Low", "Medium", "High", "Critical"}
MCVendors == {"v1", "v2", "v3", "v4"}
MCBandOf == [v \in MCVendors |->
    CASE v = "v1" -> "Low" [] v = "v2" -> "Medium" [] v = "v3" -> "High" [] OTHER -> "Critical"]

Entry(table, id, vendor, department) ==
    [table |-> table, id |-> id, vendor |-> vendor, department |-> department]
MCDatabase ==
    {Entry("vendors", 0, v, NoDepartment) : v \in MCVendors} \cup
    {Entry("audit_logs", 1, "v1", NoDepartment), Entry("audit_logs", 2, "v3", NoDepartment),
     Entry("compliance_reviews", 1, "v2", NoDepartment),
     Entry("compliance_reviews", 2, "v4", NoDepartment),
     Entry("retention_records", 1, "v1", "Finance"), Entry("retention_records", 2, "v3", "HR"),
     Entry("retention_records", 3, "v3", "Finance"),
     Entry("other", 1, "v1", NoDepartment), Entry("other", 2, "v4", NoDepartment)}

\* TABLE_SCOPES and RISK_CATEGORY_SCOPES, with and without the departments claim.
Grant(tables, bands, departments) ==
    [tables |-> tables, bands |-> bands, departments |-> departments]
MCGrants ==
    {Grant({}, {}, d) : d \in {{}, {"Finance"}}} \cup
    {Grant({"vendors", "compliance_reviews"}, {"Low", "Medium"}, d) : d \in {{}, {"Finance"}}} \cup
    {Grant(Tables, MCBands, d) : d \in {{}, {"Finance"}}}

MCTemplates ==
    {Template("vendors", {}, FALSE, FALSE, TRUE),
     Template("vendors", {}, FALSE, TRUE, FALSE),
     Template("vendors", {}, TRUE, FALSE, FALSE),
     Template("audit_logs", {"vendors"}, FALSE, FALSE, TRUE),
     Template("compliance_reviews", {"vendors"}, FALSE, FALSE, FALSE),
     Template("retention_records", {"vendors"}, FALSE, FALSE, FALSE),
     Template("vendors", {"audit_logs", "compliance_reviews"}, FALSE, FALSE, FALSE)}

\* A generated statement does not bind a vendor; it joins one table and defines one
\* name at most.  How another relation is named makes no difference, nor do the
\* columns of a count; only a WITH is recursive.
MCReferences == {q \in References : q.table = "other" => q.plain}
MCNames == {Name(q) : q \in MCReferences}
AtMostOne(S) == {{}} \cup {{x} : x \in S}
MCGenerated ==
    {s \in [main : MCReferences, joined : AtMostOne(MCReferences), ctes : AtMostOne(MCNames),
            recursive : BOOLEAN, counts : BOOLEAN, shown : BOOLEAN, vendor : {NoVendor}] :
        /\ s.counts => s.shown
        /\ s.recursive => s.ctes # {}}

\* Those that define nothing and begin with a plain FROM.
MCJoining == {s \in MCGenerated : s.ctes = {} /\ s.main.plain /\ s.main.seen}
=============================================================================
