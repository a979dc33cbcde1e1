SPECIFICATION ChatSpec
CONSTANTS
    s1 = s1
    s2 = s2
    e1 = e1
    e2 = e2
    e3 = e3
    find = find
    read = read
    Streams <- MCStreams
    Evidence <- MCEvidence
    Similar <- MCSimilar
    Rounds <- MCRounds
    Budget <- MCBudget
    MaxSearches = 1
    MaxIdenticalFailures = 1
    Modes <- MCModes
    Calls <- MCCalls
    Tool <- MCTool
    MaxBatch = 1
    MaxFound = 2
    MaxMarks <- MCMarks
    MaxDeletes = 1
    MaxDeaths = 1
CHECK_DEADLOCK FALSE
INVARIANTS
    
    AliasesAreTrue
    

    
