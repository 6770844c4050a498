\* Callers pass is_dirty = true and call delete_page; expected to fail.
CONSTANTS
    NumFrames = 2
    c1 = c1
    c2 = c2
    fa = fa
    Clients <- MCClients
    Files <- MCFiles
    MaxPageNo = 3
    InitPages = 2
    MaxHeld = 2
    MaxVersion = 2
    NoPage = NoPage
    NoFrame = NoFrame
    AlwaysDirty = TRUE
    DeleteEnabled = TRUE
    AllocCanFail = FALSE
SYMMETRY MCSymmetry
SPECIFICATION Spec
PROPERTIES
    ImplementsPageStore
