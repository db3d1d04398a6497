SPECIFICATION MCFairSpec
CONSTANTS
    Handlers = {h1, h2}
    Specs <- MCTwoSpecs
    Measurements <- MCMeasurements
    MaxProcs = 2
    MaxClock = 1
    MaxRestarts = 1
    WritesFail = FALSE
    None = None
INVARIANT MeasurementAlone
CHECK_DEADLOCK FALSE
