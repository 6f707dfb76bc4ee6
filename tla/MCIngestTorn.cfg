\* The object store is emptied, and a first save is killed after it opened its directory
SPECIFICATION Spec
CONSTANTS
    NTables = 2
    DirtyTable = {2}
    Runs = {r1, r2, r3}
    MaxRows = 1
    MaxTs = 1
    MaxMishaps = 1
    InOrder = TRUE
    Overlap = FALSE
    EagerDirs = TRUE
    Wipes = TRUE
CHECK_DEADLOCK FALSE
INVARIANTS SucceededReplicates
