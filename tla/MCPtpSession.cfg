SPECIFICATION Spec
CONSTANTS
    MaxId = 5
    MaxSessions = 3
    MaxOps = 2
    MaxFaults = 3
INVARIANTS
    AnswersAreOwn
    LagIsNoticed
    ReportIsTrue
    OpenFailsForCause
CHECK_DEADLOCK FALSE
