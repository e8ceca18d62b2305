SPECIFICATION Spec
CONSTANTS
    Writers = {a, b}
    Binaries = {x, y}
    MaxStarts = 3
    Processes = {p, q, r}
    Pids = {a, b}
    Keep = 1
    CanTellStart = TRUE
    Budgets <- MCBudgets
    Cap = 2
    MaxEntries = 6
    Servers = {a, b}
    MaxLost = 3
    Protocols = {"ftp", "sftp"}
    Odd = "odd"
    Unresolved <- MCUnresolved
    Letters <- MCLetters
    Captured <- MCValues
    Answered <- MCValues
    Codes <- MCCodes
    Positions = {1000, 1019, 1030, 1061}
    Numbers = {1, 2}
    MaxEdits = 2
    MaxFaults = 1
    None = None
    Absent = Absent
    Torn = Torn
    Hole = Hole
    Spans = {main, other}
    Elsewhere = {other}
SYMMETRY Alike
CONSTRAINT UntilReported
INVARIANTS
    ListedIsTrue
    RetryIsNotRefused
    VerdictIsTrue
    ImportantIsOnDisk
    LostIsNotForgotten
    FileIsAccounted
    MeaningIsKept
    ChangesAreTrue
PROPERTIES
    RefusedLeavesNothing
    PruneSparesRunning
CHECK_DEADLOCK FALSE
