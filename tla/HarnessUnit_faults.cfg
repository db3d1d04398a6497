SPECIFICATION Spec
CONSTANTS
    None = None
    Arguments <- MCArguments
    Engines <- MCEngines
    FixedEf = 32
    EfGrid = {10, 16, 24, 32}
    Recalls = {90, 95, 98}
    TargetRecall = 95
    FloorMargin = 2
    ClientCounts <- MCClientCounts
    Queries = 4
    Repeats = 2
    ProfileClients = 3
    Collected <- MCCollected
    WindowStart = 1
    Cutoff = 6
    Points = 2
    Planned = 3
    Warmup = 3
    Costs = {4, 9}
    Budget = 10
INVARIANTS EarlyStopIsSound MeasuredAsDeclared WindowsAreSound BudgetLeavesAQuery UnitEndsWhole
CHECK_DEADLOCK FALSE
