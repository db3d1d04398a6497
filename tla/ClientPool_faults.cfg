SPECIFICATION FairSpec
CONSTANTS
    N = 2
    Big <- MCBig
INVARIANTS PublishedIsWhole MeasuredInsideWindow
PROPERTIES IsMeasuredWindow PoolEnds HealthyPublishes
CHECK_DEADLOCK FALSE
