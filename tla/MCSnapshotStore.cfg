SPECIFICATION Spec
CONSTANTS
    Procs = {cli, gui, worker}
    CaptureNames = {s1, s2}
    CopyNames = {c1}
    Cap = 1
    HardLinks = FALSE
    MaxEdits = 2
    Nobody = Nobody
    NoFile = NoFile
    Torn = Torn
SYMMETRY Symmetry
INVARIANTS
    FilesAreWhole
    OnlyRacingEditsAreLost
PROPERTIES
    OriginalsAreNeverChanged
    CapsAreKept
