SPECIFICATION Spec
CONSTANTS
    MaxSessions = 2
    Stateful = {1}
    Clients = {c1, c2}
    Calls = {"start", "execute", "touch", "list", "sweep", "save", "restore", "restore_new"}
    ExpiredCap = 1
    MaxDirs = 3
    MaxWorkers = 3
    MaxRestarts = 1
    Faults = {"marker"}
SYMMETRY ClientSymmetry
PROPERTIES
    NoSilentRespawn
CHECK_DEADLOCK FALSE
