SPECIFICATION Spec
CONSTANTS
    Files = {f1}
    Names = {n1}
    Contents = {a, b}
    Clients = {c1, c2}
    i1 = i1
    i2 = i2
    i3 = i3
    g1 = g1
    l1 = l1
    l2 = l2
    l3 = l3
    Items = {i1, i2, i3}
    Feeds <- TwoFeeds
    Guid <- Guids
    Link <- Links
    MaxJobs = 2
    None = None
SYMMETRY IntakeSymmetry
CONSTRAINT OneWayIn
INVARIANTS
    TypeOK
    NZBIsReadAsAdded
    ItemIsQueuedOnce
PROPERTY OnlyUnreadableIsSetAside
