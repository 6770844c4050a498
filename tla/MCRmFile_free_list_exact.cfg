\* Slot accounting: a new page left off the free list, or num_records drifting from the bits.
CONSTANTS
    RecsPerPage = 2
    MaxPages = 3
    NumFrames = 2
    Vals = {1, 2}
    MaxUnderflow = 1
    RM_NO_PAGE <- MCNoPage
SPECIFICATION Spec
CHECK_DEADLOCK FALSE
INVARIANTS
    SlotAccountingExact
