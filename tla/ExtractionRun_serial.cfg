CONSTANTS
    N = 2
    Jobs = {j1, j2}
    Clients = {c1, c2}
    Requests = {"cancel", "resume", "resume_failed", "review", "export"}
    MaxRunning = 1
    MaxRequests = 2
    MaxCrashes = 1
    MaxReaps = 1
    NoJob = NoJob
SPECIFICATION Spec
SYMMETRY Symmetry
CHECK_DEADLOCK FALSE
INVARIANTS
    ExtractionInv
    
PROPERTIES
    CompletedItemsKept
