CONSTANTS
    None = None
    Plans <- MCPlans
    Corpora = {"c"}
    TooBig <- MCTooBig
    Quality <- MCQuality
    Target = 950
    Foreign <- MCForeign
    MaxForeign = 1
SPECIFICATION MCDirSpec
INVARIANTS RecallIsFound PublishedIsOwn OneBuildPerCell MeasuredUnderRecordedBudget
CHECK_DEADLOCK FALSE
