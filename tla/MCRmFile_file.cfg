\* One caller issuing any sequence of record-layer calls, on a pool of
\* two frames (so leaked pins can exhaust it).
CONSTANTS
    RecsPerPage = 1
    MaxPages = 4
    NumFrames = 2
    \* One payload: rids, not payloads, tell records apart in the
    \* properties checked here, and a second value quadruples the states.
    Vals = {1}
    MaxUnderflow = 1
    RM_NO_PAGE <- MCNoPage
\* The executor's scan loop is weakly fair (RmFile!FairSpec).
SPECIFICATION FairSpec
\* A null page dereference (InsertRecordNoFrame, a failed fetch in the
\* scan) ends the program, so final states are real.
CHECK_DEADLOCK FALSE
INVARIANTS
    TypeOK
    FreeListSound
PROPERTIES
    ImplementsRecordStore
    ScanTerminates
