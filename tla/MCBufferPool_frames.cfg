\* Any caller: is_dirty says whether the thread wrote the page, and
\* delete_page is called; allocate_page may fail.
CONSTANTS
    NumFrames = 2
    c1 = c1
    c2 = c2
    fa = fa
    Clients <- MCClients
    Files <- MCFiles
    MaxPageNo = 3
    InitPages = 2
    MaxHeld = 2
    MaxVersion = 2
    NoPage = NoPage
    NoFrame = NoFrame
    AlwaysDirty = FALSE
    DeleteEnabled = TRUE
    AllocCanFail = TRUE
SYMMETRY MCSymmetry
SPECIFICATION Spec
INVARIANTS
    TypeOK
    PageTableMatchesFrames
PROPERTIES
    PinnedFrameKeepsPage
