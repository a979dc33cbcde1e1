SPECIFICATION Spec
CONSTANTS
    p1 = p1
    p2 = p2
    Papers <- MCPapers
    Scores = {0, 4}
    Texts = {1, 2, 3}
    MaxFound = 4
    MaxAssets = 1
    MaxCards = 3
    PerArticle = 2
    LlmContext = 3
    PoolSize = 4
    Asked = {3, 4}
    MinPapers = 2
    Broad = TRUE
    Budgets = {1, 2, 3, 4}
    RequiredRoles <- MCRoles
    OtherRole = "other"
SYMMETRY Symmetry
INVARIANTS
    PoolInv
    RolesInv
CHECK_DEADLOCK FALSE
