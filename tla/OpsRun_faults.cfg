SPECIFICATION Spec
CONSTANTS
    Units <- MCUnits
    MaxRuns = 2
    MaxFaults = 2
    Kills = TRUE
INVARIANTS NothingLeft OwnFreshPair RecordsAreOneAttempt
CHECK_DEADLOCK FALSE
