SPECIFICATION Spec
SYMMETRY ConnectionSymmetry
CONSTANTS
    c1 = c1
    c2 = c2
    None = None
    NotJson = NotJson
    Connections = {c1, c2}
    Requests <- MCRequests
    MaxRequests = 3
    MaxClock = 2
    MaxRestarts = 1
    Options <- MCOptions
    Idle = 1
    Absolute = 1
    BackoffAfter = 1
    BackoffBase = 1
    BackoffMax = 2
    DrainLimit = 1
    Drivers = {"pg"}
    Archives <- MCArchives
    Stored <- MCStored
    StoredConfig <- MCStoredConfig
INVARIANTS RefusalsAreRead GuessesAreSlowed
PROPERTIES SessionsEnd RunsStayWhole
CHECK_DEADLOCK FALSE
