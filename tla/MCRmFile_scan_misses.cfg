\* The scan misses a record, or hands the loop a rid that is not one.
CONSTANTS
    RecsPerPage = 1
    MaxPages = 4
    NumFrames = 2
    Vals = {1, 2}
    MaxUnderflow = 1
    RM_NO_PAGE <- MCNoPage
SPECIFICATION Spec
CHECK_DEADLOCK FALSE
INVARIANTS
    ScanExact
