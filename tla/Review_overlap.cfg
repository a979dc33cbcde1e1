\* Two requests in flight on a record of two fields, a review job and a crash.
SPECIFICATION Spec
CONSTANTS
    NFields = 2
    Required <- MCFirst
    EvidenceRequired <- MCBoth
    Extracted <- MCSecond
    Evidenced = {}
    Jobs = {j1}
    Clients = {c1, c2}
    MaxRequests = 3
    MaxCrashes = 1
SYMMETRY Symmetry
CHECK_DEADLOCK FALSE
INVARIANTS
    ReviewInv
    ReviewKept
    CompletedJobCovers
    
