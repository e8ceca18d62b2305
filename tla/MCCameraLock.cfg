SPECIFICATION FairSpec
CONSTANTS
    Procs = {cli, gui, worker}
    Files = {f1, f2, f3, f4}
    Nobody = Nobody
    NoFile = NoFile
    MaxForks = 2
PROPERTIES
    ImplementsLock
    Freed
