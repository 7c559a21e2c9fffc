\* One run with a timeout of two seconds of two ticks, streams up to the file
\* size limit and beyond it.
CONSTANTS
    Timeout = 2
    Ticks = 2
    Cap = 1
    Sizes = {0, 1, 5}
SPECIFICATION Spec
INVARIANTS GroupGone ResultIsTrue BudgetKept
PROPERTY OnlyOwnRemoved
CHECK_DEADLOCK FALSE
