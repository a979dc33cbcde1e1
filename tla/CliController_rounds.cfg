SPECIFICATION Spec
CONSTANTS
    e1 = e1
    e2 = e2
    e3 = e3
    Missing = Missing
    Evidence <- MCEvidence
    RoleOf <- MCRole
    PaperOf <- MCPaper
    ClusterOf <- MCCluster
    ValueOf <- MCValue
    Wording <- MCWording
    RequiredRoles <- MCRoles
    Batches <- MCBatches
    MaxIdeas = 10
    MaxLiterature = 1
    MaxCited = 1
    MaxAgain = 2
    MaxFailures = 1
INVARIANTS
    
    NothingInvented
    ChainInv
