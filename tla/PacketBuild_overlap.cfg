CONSTANTS
    Builds = {b1, b2}
    N = 1
    Clients = {c1, c2}
    MaxRunning = 2
    MaxRequests = 3
    MaxCrashes = 1
    NoOne = NoOne
SPECIFICATION FairSpec
CHECK_DEADLOCK FALSE
INVARIANTS
    BuildInv
    CompletedIsPublished
PROPERTIES
    BuildSettles
