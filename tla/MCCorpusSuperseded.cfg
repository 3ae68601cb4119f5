SPECIFICATION Spec
CONSTANTS
    Files <- MCFiles
    DocTypes = {"privacy", "gdpr"}
    TypeOf <- MCTypeOf
    VersionOf <- MCVersionOf
    Directory = {"privacy-1", "gdpr-1"}
    Admins = {a1, a2}
    Boot = boot
    Searchers = {s1}
    NoCorpus = NoCorpus
    NoFile = NoFile
    Models = {m1}
    MaxTasks = 1
    MaxFaults = 0
    MaxCrashes = 0
INVARIANTS
    SupersededIsNotRetrieved
CHECK_DEADLOCK FALSE
