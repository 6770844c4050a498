\* Callers pass is_dirty = whether they wrote the page; expected to fail.
CONSTANTS
    NumFrames = 2
    c1 = c1
    c2 = c2
    fa = fa
    Clients <- MCClients
    Files <- MCFiles
    MaxPageNo = 3
    InitPages = 2
    MaxHeld = 2
    MaxVersion = 2
    NoPage = NoPage
    NoFrame = NoFrame
    AlwaysDirty = FALSE
    DeleteEnabled = FALSE
    AllocCanFail = FALSE
SYMMETRY MCSymmetry
SPECIFICATION Spec
PROPERTIES
    ImplementsPageStore
