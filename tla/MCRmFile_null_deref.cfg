\* Pages left pinned by get_record and the scan exhaust the pool; insert_record then uses a null page.
CONSTANTS
    RecsPerPage = 1
    MaxPages = 4
    NumFrames = 2
    Vals = {1, 2}
    MaxUnderflow = 1
    RM_NO_PAGE <- MCNoPage
SPECIFICATION Spec
CHECK_DEADLOCK FALSE
INVARIANTS
    NoNullPageDeref
