\* Two jobs at once (a second one submitted from the glue container), on one
\* table with good and bad rows, each with its failures
SPECIFICATION FairSpec
CONSTANTS
    NTables = 1
    DirtyTable = {1}
    Runs = {r1, r2}
    MaxRows = 2
    MaxTs = 2
    MaxMishaps = 2
    InOrder = TRUE
    Overlap = TRUE
    EagerDirs = TRUE
    Wipes = FALSE
CHECK_DEADLOCK FALSE
INVARIANTS SucceededReplicates
PROPERTIES RunReported ImplementsReplication ImplementsJobControl
