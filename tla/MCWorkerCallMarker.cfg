SPECIFICATION Spec
CONSTANTS
    a = a
    r = r
    Calls = {a, r}
    ApplyCalls = {a}
    MaxWrites = 1
    Outside = FALSE
    NoCall = NoCall
PROPERTY
    MarkerLeftForLostApply
CHECK_DEADLOCK FALSE
