SPECIFICATION Spec
CONSTANTS
    Vendors <- MCVendors
    Bands <- MCBands
    Departments = {"Finance", "HR"}
    BandOf <- MCBandOf
    Database <- MCDatabase
    Grants <- MCGrants
    TEMPLATES <- MCTemplates
    Generated <- MCJoining
    SqlRowLimit = 2
    GeneratedSqlFallback = TRUE
    NoVendor = NoVendor
    NoDepartment = NoDepartment
    None = None
INVARIANTS
    UngrantedReadsEmpty
CHECK_DEADLOCK FALSE
