SPECIFICATION Spec
CONSTANTS
    Units <- MCUnits
    Ann <- MCAnn
    TooBig <- MCTooBig
    MaxRuns = 2
    MaxOthers = 1
    AlwaysResume = TRUE
CHECK_DEADLOCK FALSE
INVARIANT PartialIsNotCheckpointed
