SPECIFICATION Spec
CONSTANTS
    r1 = r1
    k1 = k1
    k2 = k2
    c1 = c1
    c2 = c2
    Requirements = {r1}
    Compilations = {k1, k2}
    Clients = {c1, c2}
    MaxRequests = 3
    MaxFrozen = 1
    MaxCrashes = 1
SYMMETRY Symmetry
INVARIANTS
    CompilationInv
    ValidIsCovered
    UnmodifiedWasValid
CHECK_DEADLOCK FALSE
