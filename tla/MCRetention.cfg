\* One invocation after the other, two tables, a fiscal year ends
SPECIFICATION FairSpec
CONSTANTS
    Invocations = {l1}
    Event <- TwoTables
    Object <- Files
    FirstNow <- March
    MaxNow <- April
    BatchSize = 2
    PageSize = 1
    MaxMishaps = 2
CHECK_DEADLOCK FALSE
INVARIANTS TypeOK PromisedGone EachEntryHandled
PROPERTIES OnlyExpiredDeleted EachStepDescends ExpiredObjectsGo
