\* Two inserts read the same free-list head and scan the same bitmap.
CONSTANTS
    t1 = t1
    t2 = t2
    Threads <- MCThreads
    RecsPerPage = 1
    NumFrames = 2
    MaxPages = 4
    MaxOps = 4
    RM_NO_PAGE <- MCNoPage
    NoFrame = NoFrame
    NoPage = NoPage
SYMMETRY MCSymmetry
SPECIFICATION Spec
\* A null page dereference ends the program.
CHECK_DEADLOCK FALSE
INVARIANTS
    SlotClaimedOnce
