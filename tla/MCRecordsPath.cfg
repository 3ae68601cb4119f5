SPECIFICATION Spec
CONSTANTS
    Vendors <- MCVendors
    Bands <- MCBands
    Departments = {"Finance", "HR"}
    BandOf <- MCBandOf
    Database <- MCDatabase
    Grants <- MCGrants
    TEMPLATES <- MCTemplates
    Generated <- MCGenerated
    SqlRowLimit = 2
    GeneratedSqlFallback = TRUE
    NoVendor = NoVendor
    NoDepartment = NoDepartment
    None = None
INVARIANTS
    ReadsAreScoped
    SecondLineIsIdle
    FiguresAreDisclosed
CHECK_DEADLOCK FALSE
