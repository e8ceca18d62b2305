SPECIFICATION Spec
CONSTANTS
    a = a
    r = r
    Calls = {a, r}
    ApplyCalls = {a}
    MaxWrites = 1
    Outside = TRUE
    NoCall = NoCall
INVARIANTS
    NotAppliedIsTrue
    ResultHonoured
    OneActingWorker
PROPERTIES
    ImplementsContract
CHECK_DEADLOCK FALSE
