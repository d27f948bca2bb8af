SPECIFICATION FairSpec
CONSTANTS
    c1 = c1  c2 = c2  c3 = c3
    orders = orders  users = users  None = None
    Captures <- CaptureFiles
    FilterDb = orders
    FilterUser = None
    WindowStart = 2
    WindowEnd = 5
    AllowWrites = FALSE
INVARIANTS CursorsDeliverTheCapture SameAsInMemory ChangeIsReal
PROPERTIES SpoolSettles
