\* Rows may share a timestamp, as DATE columns do
SPECIFICATION Spec
CONSTANTS
    NTables = 2
    DirtyTable = {2}
    Runs = {r1, r2}
    MaxRows = 2
    MaxTs = 2
    MaxMishaps = 0
    InOrder = FALSE
    Overlap = FALSE
    EagerDirs = FALSE
    Wipes = FALSE
CHECK_DEADLOCK FALSE
INVARIANTS SucceededReplicates
