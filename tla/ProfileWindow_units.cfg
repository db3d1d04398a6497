SPECIFICATION FairWindowSpec
CONSTANTS
    Windows <- MCWindows
    MaxUnits = 2
INVARIANTS ProfileIsItsWindow PublishedLoadIsEnding
PROPERTY PerfIsStopped
CHECK_DEADLOCK FALSE
