SPECIFICATION Spec
CONSTANTS
    MaxSessions = 1
    Stateful = {1}
    Clients = {c1, c2}
    Calls = {"start", "stop", "sweep", "save", "restore", "cleanup"}
    ExpiredCap = 1
    MaxDirs = 3
    MaxWorkers = 2
    MaxRestarts = 1
    Faults = {"rename", "lock"}
SYMMETRY ClientSymmetry
INVARIANTS
    NeverWithoutWorkspace
    NoWorkerLeaks
PROPERTIES
    CleanupSparesWorkers
CHECK_DEADLOCK FALSE
