\* Callers as the record layer calls the pool: is_dirty = true on every
\* unpin, no delete_page, allocate_page never fails.
CONSTANTS
    NumFrames = 2
    c1 = c1
    c2 = c2
    fa = fa
    Clients <- MCClients
    Files <- MCFiles
    MaxPageNo = 3
    InitPages = 2
    MaxHeld = 2
    MaxVersion = 2
    NoPage = NoPage
    NoFrame = NoFrame
    AlwaysDirty = TRUE
    DeleteEnabled = FALSE
    AllocCanFail = FALSE
SYMMETRY MCSymmetry
SPECIFICATION Spec
INVARIANTS
    FramesReusable
    PinCountMatchesHolders
PROPERTIES
    
    EvictsLeastRecentlyUnpinned
