SPECIFICATION Spec
CONSTANTS
    Units <- MCUnits
    Ann <- MCAnn
    TooBig <- MCTooBig
    MaxRuns = 3
    MaxOthers = 1
    AlwaysResume = TRUE
CHECK_DEADLOCK FALSE
INVARIANTS CheckpointIsMeasured SuccessIsComplete CheckpointIsReported
PROPERTY ResumeKeepsResults
