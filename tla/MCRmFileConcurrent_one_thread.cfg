\* One thread: the statement-level steps of insert_record and delete_record
\* do what the sequential methods promise.
CONSTANTS
    t1 = t1
    t2 = t2
    Threads <- MCOneThread
    RecsPerPage = 1
    NumFrames = 2
    MaxPages = 5
    MaxOps = 10
    RM_NO_PAGE <- MCNoPage
    NoFrame = NoFrame
    NoPage = NoPage
SPECIFICATION Spec
CHECK_DEADLOCK FALSE
INVARIANTS
    RoundTrip
    FreeListExact
