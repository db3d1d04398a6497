SPECIFICATION MCFairSpec
CONSTANTS
    Handlers = {h1, h2}
    Specs <- MCTwoSpecs
    Measurements <- MCMeasurements
    MaxProcs = 2
    MaxClock = 1
    MaxRestarts = 1
    WritesFail = TRUE
    None = None
INVARIANTS AloneUnlessRaced RecordsAreTrue
PROPERTY EndIsRecorded
CHECK_DEADLOCK FALSE
