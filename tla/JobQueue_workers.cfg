CONSTANTS
    Jobs = {j1, j2}
    InlineJobs = {j2}
    Workers = {w1, w2}
    Clients = {c1}
    Runners = {r1}
    AttemptLimits = {1, 2}
    MaxJobsPerTick = 1
    MaxJobs = 1
    MaxCancels = 1
    MaxCrashes = 1
    NoJob = NoJob
SPECIFICATION FairSpec
INVARIANTS
    AttemptInv
    ExclusiveExecution
    Accounted
PROPERTIES
    SettledStays
    CancelledBeforeClaim
    EventuallySettles
    ImplementsLifecycle
