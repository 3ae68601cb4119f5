SPECIFICATION FairSpec
CONSTANTS
    Files <- MCFiles
    DocTypes = {"privacy", "gdpr"}
    TypeOf <- MCTypeOf
    VersionOf <- MCVersionOf
    Directory = {"privacy-1", "gdpr-1"}
    Admins = {a1, a2}
    Boot = boot
    Searchers = {s1}
    NoCorpus = NoCorpus
    NoFile = NoFile
    Models = {m1, m2}
    MaxTasks = 2
    MaxFaults = 1
    MaxCrashes = 1
INVARIANTS
    OneCurrentVersion
    NoTypeIsWithdrawn
    OneEmbeddingModel
    LexicalIsComplete
PROPERTIES
    StartRepairs
CHECK_DEADLOCK FALSE
