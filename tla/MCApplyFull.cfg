SPECIFICATION Spec
CONSTANTS
    p = p
    q = q
    r = r
    Props = {p, q, r}
    Order <- MCOrder
    Values = {1, 2}
    NoPosition = NoPosition
    Scales = {1, 2}
    Fixed = 1
    ScalesOf <- MCScalesOf
    Position <- MCPosition
    Kind <- LabelsAndRange
    OptedIn = {q}
    NeverCopied = {}
    ReadOnly = {p}
    Unwritable = {}
    Volatile = {}
    Required = {p}
    HasBaseline = TRUE
    AllowPartial = FALSE
    Dependents <- MCDependents
    Kinds = {"transplant", "restore"}
    Snapshots <- MCSnapshots
    MaxFaults = 2
    MaxRuns = 2
INVARIANTS
    RestorePointFirst
    OnlyConfirmedIsSent
    VerifiedMeansHeld
    ChangesAreAccounted
    UndoPutsBack
CHECK_DEADLOCK FALSE
