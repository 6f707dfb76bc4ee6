\* A job whose source has the registered schema
SPECIFICATION Spec
CONSTANTS
    Sessions = {}
    Jobs = {j1}
    Names = {"id", "qty"}
    Frames <- OneFrame
    FirstVersion = 1
    MaxVersion = 1
    MaxMishaps = 0
CHECK_DEADLOCK FALSE
INVARIANTS MatchingPasses
