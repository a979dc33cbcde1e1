CONSTANTS
    N = 4
    Kind <- Manifest
    Runs = {r1, r2}
    Clients = {c1, c2}
    Requests = {"start", "resume", "pause", "delete"}
    MaxRunning = 2
    MaxRequests = 3
    MaxCrashes = 1
    NoRun = NoRun
SPECIFICATION MCSpec
SYMMETRY Symmetry
CHECK_DEADLOCK FALSE
INVARIANTS
    WorkflowInv
PROPERTIES
    ResumeKeepsDone
