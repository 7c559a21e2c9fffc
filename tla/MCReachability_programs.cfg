CONSTANTS
    Params = {0, 1, 2, 3}
    UnrollLimit = 3
    MaxStop = 4
    MaxBranches = 20
    Fuel = 20
SPECIFICATION Spec
INVARIANTS DeadNeverTaken WitnessesTakeIt
CHECK_DEADLOCK FALSE
