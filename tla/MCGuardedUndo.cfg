SPECIFICATION Spec
CONSTANTS
    Windows = {"transplant", "restore"}
    Files = {f1}
    Rows = {r1}
    Unaimed = {}
    Dirs = {d1, d2}
    NoFile = nofile
    NoRow = norow
    NoDir = nodir
    MaxApplies = 1
    MaxTurns = 1
    MaxMoves = 1
    f1 = f1
    r1 = r1
    d1 = d1
    d2 = d2
INVARIANT UndoIsWhereItsPointIs
CHECK_DEADLOCK FALSE
