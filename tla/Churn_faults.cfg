SPECIFICATION FairSpec
CONSTANTS
    N = 3
    Cumulative <- MCCumulative
    Writers = {w1, w2}
    Readers = {r1}
    WaitsFor = "rows"
    Faults = TRUE
INVARIANTS ScoredCorpusIsWhole ScoredIsIndexed WritesAreKept NobodyIsLeft
PROPERTY WorkloadEnds
CHECK_DEADLOCK FALSE
