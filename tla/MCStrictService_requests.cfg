SPECIFICATION Spec
CONSTANTS
    RunIds = {r1, r2, r3}
    Threads = {t1, t2}
    Requests = {"execute", "repeat", "cancel", "delete"}
    MaxConcurrent = 2
    MaxTracked = 2
    MaxRecords = 3
    MaxCrashes = 2
SYMMETRY Symmetries
INVARIANTS
    SlotsAreHeld
    ContainersOwned
PROPERTIES
    SlotsAreKept
CHECK_DEADLOCK FALSE
