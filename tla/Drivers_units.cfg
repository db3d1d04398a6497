CONSTANTS
    None = None
    Train <- MCTrain
    Test <- MCTest
    Metric = "euclidean"
    PivotRows <- MCPivotRows
    Renumber <- MCRenumber
    Plans <- MCPlans
    K = 2
    Buckets = 3
    Clusters = 2
    Percent = 50
    LoadBatch = 2
    CapacityMargin = 1
    ChurnBatch = 2
    SettledPolls = 2
    MaxFaults = 2
SPECIFICATION DriversSpec
INVARIANTS ExactIsScoredOne SettledIsWhole GraphFits WaitsHappened
CHECK_DEADLOCK FALSE
