SPECIFICATION VersionsSpec
CONSTANTS
    x1 = x1
    x2 = x2
    c1 = c1
    c2 = c2
    Candidates = {x1, x2}
    FieldCounts = {1}
    Callers = {c1, c2}
    MaxCollections = 2
    MaxSchemas = 1
    MaxContracts = 1
    MaxDeaths = 1
SYMMETRY Symmetry
INVARIANTS
    VersionsInv
PROPERTY VersionsKept
CHECK_DEADLOCK FALSE
