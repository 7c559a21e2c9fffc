SPECIFICATION FairSpec
CONSTANTS
    Cap = 4
    CutBack = 1
    Chunk = 2
    PipeSize = 1
    MaxOutput = 5
    Escapes = TRUE
INVARIANTS
    CountsAreExact
    OutputIsWhole
    BudgetIsShared
    GroupIsGone
    OnlyOwnRemoved
PROPERTIES
    CallReturns
CHECK_DEADLOCK FALSE
