\* A bad row arrives while a run is between its checks and its maximum
SPECIFICATION Spec
CONSTANTS
    NTables = 2
    DirtyTable = {2}
    Runs = {r1}
    MaxRows = 2
    MaxTs = 2
    MaxMishaps = 0
    InOrder = TRUE
    Overlap = FALSE
    EagerDirs = FALSE
    Wipes = TRUE
CHECK_DEADLOCK FALSE
INVARIANTS WatermarkVouches
