\* Three jobs at any time, while the schema changes twice; its second version
\* lacks the partition columns
SPECIFICATION Spec
CONSTANTS
    Jobs = {j1, j2, j3}
    MaxVersion = 3
    Keyed = {1, 3}
    MaxMishaps = 2
CHECK_DEADLOCK FALSE
SYMMETRY JobSymmetry
INVARIANTS TypeOK DefinitionNotOutdated CommitMeansRegistered
