SPECIFICATION FairSpec
CONSTANTS
    Callers = {p1, p2, p3}
    Keys = {k1, k2}
    Results = {"value", "error"}
    None = None
    MayPanic = TRUE
INVARIANTS OneFlight SharesResult
PROPERTIES CallersReturn ImplementsFlight
CHECK_DEADLOCK FALSE
