\* Two runs of one job, polled every tick with a window of two
SPECIFICATION FairSpec
CONSTANTS
    Runs = {r1, r2}
    NJobs = 2
    JobOf <- AllOfFirstJob
    Interval = 1
    Window = 2
    Freshness = 2
    MaxLag = 1
    MaxDelay = 1
    Old = 4
    MaxMishaps = 1
INVARIANTS TypeOK NoFailureMissed AlertsBounded
PROPERTIES StaleReported
