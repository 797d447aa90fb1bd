SPECIFICATION Spec
CONSTANTS
    Clients = {c1, c2}
    Ids = {s1, s2}
    Keys = {k1, k2}
    Plain = {p}
    Dollar = {d}
    Empty = Empty
    Masked = Masked
    MaxServers = 2
    None = None
INVARIANTS
    TypeOK
    PlaceholdersGetTheirSecret
    RestartKeepsConfig
    SavedConfigLoads
    KeyIsLastGiven
SYMMETRY ConfigSymmetry
CHECK_DEADLOCK FALSE
CONSTRAINT Bounded
