\* Jobs run one at a time, as make ingest starts them
SPECIFICATION Spec
CONSTANTS
    NTables = 2
    DirtyTable = {2}
    Runs = {r1, r2, r3}
    MaxRows = 2
    MaxTs = 2
    MaxMishaps = 1
    InOrder = TRUE
    Overlap = FALSE
    EagerDirs = FALSE
    Wipes = TRUE
CHECK_DEADLOCK FALSE
SYMMETRY RunSymmetry
INVARIANTS TypeOK WatermarkCovered SucceededReplicates SucceededRunsWereClean DeliveredOnce
PROPERTIES WatermarkNeverRegresses RowsOutDelivered
