\* Jobs run one at a time, as make aggregate starts them
SPECIFICATION Spec
CONSTANTS
    Runs = {r1, r2, r3}
    Parts = {p1, p2}
    BadEvents = TRUE
    MaxEvents = 3
    MaxMishaps = 3
    InOrder = TRUE
    Overlap = FALSE
CHECK_DEADLOCK FALSE
SYMMETRY Symmetry
INVARIANTS TypeOK WatermarkCounted SucceededCounted SucceededOnce CustomerTrailsProduct NothingBadInGold BadEventStalls
PROPERTIES GoldOnlyGrows ImplementsJobControl ImplementsReplication
