SPECIFICATION FairSpec
CONSTANTS
    MaxRuns = 2
    Clients = {c1, c2}
    Workers = 1
    MaxActive = 1
    MaxCompleted = 0
    MaxCrashes = 2
    Kinds = {"local", "managed", "dependencies"}
INVARIANTS
    JournalAgrees
    CancelLabelEarned
    CrashRecoverable
    WorkdirOwned
PROPERTIES
    KeepsPromise
    EverythingEnds
CHECK_DEADLOCK FALSE
