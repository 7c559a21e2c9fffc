\* Two threads evaluate an expression each.
CONSTANTS
    Callers = {a, b}
    Nobody = Nobody
SPECIFICATION Spec
INVARIANT NeverRacesItself
CHECK_DEADLOCK FALSE
