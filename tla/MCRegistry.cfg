\* Sessions and jobs at any time, objects that register again and again
SPECIFICATION Spec
CONSTANTS
    Sessions = {s1, s2}
    Jobs = {j1}
    Names = {"id", "qty"}
    Frames <- ThreeFrames
    FirstVersion = 9
    MaxVersion = 11
    MaxMishaps = 2
CHECK_DEADLOCK FALSE
SYMMETRY UserSymmetry
INVARIANTS TypeOK ChangesChain ContractConsistent RegisteredFound
PROPERTIES RegisteredStay ImplementsHistory
