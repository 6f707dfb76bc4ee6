\* A run dies before it stores its watermark, and the next one repeats its batch
SPECIFICATION Spec
CONSTANTS
    Runs = {r1, r2}
    Parts = {p1, p2}
    BadEvents = TRUE
    MaxEvents = 1
    MaxMishaps = 1
    InOrder = TRUE
    Overlap = FALSE
CHECK_DEADLOCK FALSE
INVARIANTS GoldReconciled
